------------------------------ MODULE HybridAuth ------------------------------
(***************************************************************************)
(* The accounts, tenants and groups of other products that the applications *)
(* of the org stand for (models/hybrid_auth.py).  Other collectors make     *)
(* their nodes; an edge finds them by what both sides know.                 *)
(*                                                                         *)
(* A target is <<kind, what its node must have>>; there is none if a part   *)
(* of what it must have is missing: None or blank.  A part that is put      *)
(* together is there if its parts are not None.                             *)
(***************************************************************************)
EXTENDS OinRoutes

Upper(text) == IF IsPresent(text) THEN <<"upper">> \o text ELSE text

\* A URL is its scheme, its host and the rest (okta_org2org_domain).
Host(url) == IF Len(url) > 1 THEN <<url[2]>> ELSE NoText

SamlSignOnModes == {"SAML_2_0", "SAML_1_1", "WS_FEDERATION"}
SwaSignOnModes == {"AUTO_LOGIN", "BASIC_AUTH", "BROWSER_PLUGIN"}
SsoSignOnModes == SamlSignOnModes \cup {"OPENID_CONNECT"}

\* hybrid_user_sign_on_edge_kind, hybrid_application_edge_kind
UserSignOnKinds(mode) ==
  CASE mode \in SsoSignOnModes -> {"OUTBOUND_SSO"}
    [] mode \in SwaSignOnModes -> {"SWA"}
    [] OTHER -> {}

ApplicationSignOnKinds(app) ==
  IF app.name \in {"active_directory", "ldap_interface"} \/ app.service THEN {}
  ELSE IF app.mode \in SsoSignOnModes THEN {"OUTBOUND_ORG_SSO"}
  ELSE IF app.mode \in SwaSignOnModes THEN {"ORG_SWA"}
  ELSE {}

\* HybridTarget.by_id, by_name, by_properties
Targets(kind, matchers) ==
  IF \A key \in DOMAIN matchers : IsPresent(matchers[key]) THEN {<<kind, matchers>>} ELSE {}

OnePasswordDomain(settings) ==
  LET sub == Setting(settings, "subDomain")
      region == Setting(settings, "regionType")
  IN IF Given(sub) /\ Given(region) THEN sub \o <<".1password.">> \o region ELSE NoText

\* outbound_trust_target
OutboundTrustTargets(app) ==
  LET setting(field) == Setting(app.settings, field)
  IN CASE app.name = "okta_org2org" -> Targets("IDP", [id |-> Upper(setting("idpId"))])
       [] app.name \in {"jamfsoftwareserver", "casper"} ->
            IF IsPresent(setting("domain"))
              THEN Targets("JAMF_SSO_INTEGRATION",
                           [id |-> Upper(setting("domain") \o <<"-SSO">>)])
              ELSE {}
       [] app.name = "githubcloud" ->
            Targets("GITHUB_ORGANIZATION", [name |-> setting("githubOrg")])
       [] app.name = "1password_business" ->
            Targets("ONE_PASSWORD_ACCOUNT", [domain |-> OnePasswordDomain(app.settings)])
       [] app.name = "snowflake" ->
            Targets("SNOWFLAKE_ACCOUNT", [id |-> Upper(setting("subDomain"))])
       [] app.name = "office365" ->
            Targets("AZ_TENANT", [id |-> Upper(setting("microsoftTenantId"))])
       [] OTHER -> {}

\* hybrid_user_target, for the name that the user has in the application.
HybridUserTargets(app, userName, externalId) ==
  LET setting(field) == Setting(app.settings, field)
  IN CASE app.name = "okta_org2org" -> Targets("USER", [id |-> Upper(externalId)])
       [] app.name \in {"jamfsoftwareserver", "casper"} ->
            Targets("JAMF_ACCOUNT", [email |-> userName, domainName |-> setting("domain")])
       [] app.name = "githubcloud" ->
            Targets("GITHUB_USER",
                    [login |-> userName, environment_name |-> setting("githubOrg")])
       [] app.name = "1password_business" ->
            Targets("ONE_PASSWORD_USER",
                    [email |-> userName, account_name |-> OnePasswordDomain(app.settings)])
       [] app.name = "snowflake" ->
            IF Given(setting("subDomain")) /\ Given(userName)
              THEN Targets("SNOWFLAKE_USER",
                           [id |-> Upper(setting("subDomain") \o <<".">> \o userName)])
              ELSE {}
       [] app.name = "office365" ->
            Targets("AZ_USER",
                    [userprincipalname |-> userName,
                     tenantid |-> Upper(setting("microsoftTenantId"))])
       [] OTHER -> {}

\* hybrid_group_target
HybridGroupTargets(app, groupName) ==
  LET setting(field) == Setting(app.settings, field)
  IN CASE app.name = "active_directory" ->
            Targets("AD_GROUP",
                    [samaccountname |-> groupName, domain |-> setting("namingContext")])
       [] app.name = "okta_org2org" ->
            Targets("GROUP",
                    [name |-> Upper(groupName), okta_domain |-> Host(setting("baseUrl"))])
       [] app.name = "office365" ->
            Targets("AZ_GROUP",
                    [displayname |-> groupName,
                     tenantid |-> Upper(setting("microsoftTenantId"))])
       [] OTHER -> {}
=============================================================================
