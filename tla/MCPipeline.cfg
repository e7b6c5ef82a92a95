SPECIFICATION Spec
CONSTANTS
  TenantDomain = "acme"
  OrgId = "o"
  Histories <- MCHistories
  MaxFaults = 1
INVARIANT GraphIsWellFormed
INVARIANT AdminsAreNoTargets
INVARIANT OnlyWhatOktaGrants
INVARIANT GrantsAreFound
INVARIANT CustomRolesAreExplained
INVARIANT UrlAndOrnAgree
