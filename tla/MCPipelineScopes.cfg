SPECIFICATION Spec
CONSTANTS
  TenantDomain = "acme"
  OrgId = "o"
  Histories <- MCCreation
  MaxFaults = 0
INVARIANT ScopesAreNotWidened
