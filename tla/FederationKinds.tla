--------------------------- MODULE FederationKinds ---------------------------
(***************************************************************************)
(* The edges of federation that the assets declare with EdgeDef: sets of    *)
(* <<kind, kind of the start, kind of the end>>.  Some kinds have shorter   *)
(* names here: SAML_ACS is SAML_ASSERTION_CONSUMER_SERVICE, and RULE, FIELD *)
(* and VALUE stand for those of ACCOUNT_RESOLUTION.                         *)
(***************************************************************************)
EXTENDS GraphKinds

\* The kinds of nodes that other collectors make.
ForeignTenants ==
  {"JAMF_SSO_INTEGRATION", "GITHUB_ORGANIZATION", "ONE_PASSWORD_ACCOUNT",
   "SNOWFLAKE_ACCOUNT", "AZ_TENANT"}
ForeignUsers ==
  {"JAMF_ACCOUNT", "GITHUB_USER", "ONE_PASSWORD_USER", "SNOWFLAKE_USER", "AZ_USER"}
ForeignGroups == {"AD_GROUP", "AZ_GROUP"}
ForeignKinds == UNION {ForeignTenants, ForeignUsers, ForeignGroups, {"AD_USER"}}

\* application.py: Application
ApplicationDefs ==
  UNION {Declare("CONTAINS", {"ORG"}, {"APPLICATION"}),
         Declare("OUTBOUND_ORG_SSO", {"APPLICATION"}, {"IDP"} \cup ForeignTenants),
         Declare("ORG_SWA", {"APPLICATION"}, ForeignTenants)}

\* application_users.py: ApplicationUser
ProvisioningDefs ==
  UNION {Declare("APP_ASSIGNMENT", {"USER"}, {"APPLICATION"}),
         Declare("USER_PULL", {"APPLICATION"}, {"USER"}),
         Declare("USER_PUSH", {"USER"}, {"APPLICATION"}),
         Declare("USER_SYNC", {"USER"}, {"AD_USER"}),
         Declare("USER_SYNC", {"AD_USER"}, {"USER"}),
         Declare("PASSWORD_SYNC", {"AD_USER", "USER"}, {"USER"})}
SignOnDefs ==
  Declare("OUTBOUND_SSO", {"USER"}, {"USER"} \cup ForeignUsers)
    \cup Declare("SWA", {"USER"}, ForeignUsers)
AssertionDefs ==
  Declare("SAML_ELIGIBLE_FOR", {"USER"}, {"SAML_FEDERATION_PROVIDER"})
    \cup Declare("SAML_HAS_CLAIM_VALUE", {"USER"}, {"SAML_CLAIM_MAPPING"})
ApplicationUserDefs == UNION {ProvisioningDefs, SignOnDefs, AssertionDefs}

\* group.py: Group, and application_group_mappings.py: ApplicationGroupMapping
GroupDefs ==
  UNION {Declare("CONTAINS", {"ORG"}, {"GROUP"}),
         Declare("GROUP_PULL", {"APPLICATION"}, {"GROUP"}),
         Declare("MEMBERSHIP_SYNC", {"GROUP", "AD_GROUP"}, {"GROUP"})}
GroupMappingDefs ==
  Declare("GROUP_PUSH", {"GROUP"}, {"APPLICATION"})
    \cup Declare("MEMBERSHIP_SYNC", {"GROUP"}, {"GROUP"} \cup ForeignGroups)

\* idp.py: IdentityProvider, and idp_user.py: IDPUser
IdentityProviderDefs ==
  UNION {Declare("CONTAINS", {"ORG"}, {"IDP"}),
         Declare("IDP_GROUP_ASSIGNMENT", {"IDP"}, {"GROUP"}),
         Declare("INBOUND_ORG_SSO", {"ORG"}, {"IDP"})}
IdpUserDefs ==
  UNION {Declare("IDENTITY_PROVIDER_FOR", {"IDP"}, {"USER"}),
         Declare("INBOUND_SSO", {"ORG"}, {"USER"}),
         Declare("SAML_HAS_ACCOUNT", {"SAML_SERVICE_PROVIDER"}, {"USER"})}

\* saml.py: SamlFederationProvider, SamlServiceProvider and
\* SamlAccountResolutionRule; the other assets of SAML have no edges.
SamlProviderDefs ==
  UNION {Declare("SAML_IMPLEMENTS", {"APPLICATION"}, {"SAML_FEDERATION_PROVIDER"}),
         Declare("SAML_ISSUES_AS", {"SAML_FEDERATION_PROVIDER"}, {"SAML_ISSUER"}),
         Declare("SAML_ISSUES_ASSERTIONS_TO", {"SAML_FEDERATION_PROVIDER"},
                 {"SAML_ACS"}),
         Declare("SAML_HAS_CLAIM_MAPPING", {"SAML_FEDERATION_PROVIDER"},
                 {"SAML_CLAIM_MAPPING"})}
SamlServiceProviderDefs ==
  UNION {Declare("SAML_IMPLEMENTS", {"IDP"}, {"SAML_SERVICE_PROVIDER"}),
         Declare("SAML_TRUSTS_ISSUER", {"SAML_SERVICE_PROVIDER"}, {"SAML_ISSUER"}),
         Declare("SAML_HAS_ACS", {"SAML_SERVICE_PROVIDER"}, {"SAML_ACS"}),
         Declare("SAML_HAS_RULE", {"SAML_SERVICE_PROVIDER"}, {"SAML_RULE"}),
         Declare("SAML_HAS_ACCOUNT", {"SAML_SERVICE_PROVIDER"}, {"USER"}),
         Declare("SAML_HAS_VALUE", {"USER"}, {"SAML_FIELD"})}
SamlRuleDefs == Declare("SAML_USES_FIELD", {"SAML_RULE"}, {"SAML_FIELD"})

FederationDefs ==
  UNION {ApplicationDefs, ApplicationUserDefs, GroupDefs, GroupMappingDefs,
         IdentityProviderDefs, IdpUserDefs, SamlProviderDefs,
         SamlServiceProviderDefs, SamlRuleDefs}
=============================================================================
