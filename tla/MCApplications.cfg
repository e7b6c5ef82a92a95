SPECIFICATION Spec
CONSTANTS
  a1 = a1
  a2 = a2
  a3 = a3
  a4 = a4
  g1 = g1
  Apps <- MCApps
  OAuthApps <- MCOAuthApps
  Limit = 2
  MaxTrail = 3
  Groups = {g1}
  Assigned <- MCAssigned
  NoEvidence = NoEvidence
  MaxUpdates = 1
  MaxRepeats = 1
  Office <- MCOffice
  TenantOf <- MCTenantOf
  Unknown = Unknown
INVARIANT TripsOnTime
INVARIANT PublishedIsExact
INVARIANT OneLookupPerTenant
PROPERTY TrippedStopsRequests
