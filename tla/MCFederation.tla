---------------------------- MODULE MCFederation ----------------------------
(***************************************************************************)
(* Instances of Federation for TLC: small orgs, each about one matter (the  *)
(* routes of an application, the claims of a user, the directions of a      *)
(* synchronization, the policy of an IdP), some of which change once while  *)
(* they are collected.                                                      *)
(***************************************************************************)
EXTENDS Federation

None == ""
NoSettings == [f \in {} |-> NoText]
At(u) == <<"https", u>>

\* A value, the same folded or not.
Value(exact, folded, uuid, address) ==
  [exact |-> exact, folded |-> folded, uuid |-> uuid, address |-> address]
Plain(text) == {Value(text, text, "", FALSE)}
Mail(text, folded) == {Value(text, folded, "", TRUE)}
Guid(text) == {Value(text, text, text, FALSE)}

SignOn ==
  [present |-> TRUE, audienceOverride |-> NoText, spIssuer |-> NoText,
   audience |-> NoText, sloSpIssuer |-> NoText, ssoAcsUrlOverride |-> NoText,
   ssoAcsUrl |-> NoText, recipientOverride |-> NoText, destinationOverride |-> NoText,
   recipient |-> NoText, destination |-> NoText, endpoints |-> <<>>, encrypted |-> <<>>,
   idpIssuer |-> NoText, subjectTemplate |-> <<"source", "login">>,
   subjectFormat |-> "unspecified", statements |-> <<>>, configuredStatements |-> <<>>]

App(name, signOn, settings) ==
  [id |-> "a1", name |-> name, mode |-> "SAML_2_0", status |-> "ACTIVE",
   service |-> FALSE, features |-> {}, settings |-> settings, signOn |-> signOn,
   userNameTemplate |-> NoText, metadata |-> NoText]

User(id, login) ==
  [id |-> id, status |-> "ACTIVE", profile |-> [login |-> login, email |-> login]]

Group(id) ==
  [id |-> id, type |-> "OKTA_GROUP", classes |-> {"okta:user_group"}, name |-> <<id>>,
   sid |-> NoText, source |-> None]

Empty ==
  [users |-> {}, groups |-> {Group("g1")}, applications |-> {}, assignments |-> {},
   mappings |-> {}, idps |-> {}, links |-> {}]
Base == [Empty EXCEPT !.users = {User("u1", Mail("U1@x", "u1@x"))}]

WithApp(app) == [Base EXCEPT !.applications = {app}]

-----------------------------------------------------------------------------
(* Routes. *)

Endpoint(url, index) == [url |-> url, index |-> index, binding |-> NoText, default |-> "no"]

SpTexts == {NoText, <<"x">>, <<"y">>}
EndpointLists ==
  {<<>>, <<Endpoint(At("v"), 0)>>,
   <<Endpoint(At("v"), NoIndex), Endpoint(At("w"), 1), Endpoint(At("w"), 1)>>}

SignOns ==
  {[SignOn EXCEPT !.audienceOverride = o, !.spIssuer = s, !.audience = a, !.ssoAcsUrl = u,
                  !.endpoints = e] :
     o \in {NoText, <<"x">>}, s \in SpTexts, a \in {NoText, <<"x">>},
     u \in {NoText, At("u")}, e \in EndpointLists}

\* Single settings of which only the first counts.
Several ==
  {[SignOn EXCEPT !.audience = <<"x">>, !.recipientOverride = o, !.recipient = At("v"),
                  !.destination = At("w"), !.endpoints = e] :
     o \in {NoText, At("u")}, e \in EndpointLists}

Encrypted ==
  [SignOn EXCEPT !.sloSpIssuer = <<"x">>, !.recipient = At("u"),
                 !.encrypted = <<Endpoint(At("v"), 0), Endpoint(At("u"), 0)>>]

Issuers ==
  {[App("custom", [SignOn EXCEPT !.idpIssuer = i], NoSettings) EXCEPT !.metadata = m] :
     i \in {NoText, <<"i">>, <<"i", "${org.externalKey}">>}, m \in {NoText, <<"i">>, <<"j">>}}

\* The routes of the catalogue, stated or not.
Texts == {NoText, EmptyText, Blank, <<"s">>, <<Malformed>>}
\* Some of the fields, with any texts.
SettingsOf(fields) == UNION {[some -> Texts] : some \in SUBSET fields}
OinSignOns ==
  {SignOn, [SignOn EXCEPT !.audience = <<"slack.com">>],
   [SignOn EXCEPT !.ssoAcsUrl = At("u")],
   [SignOn EXCEPT !.audience = <<"x">>, !.ssoAcsUrl = At("u")],
   [SignOn EXCEPT !.audience = <<"slack.com">>, !.ssoAcsUrl = <<"s", ".slack.com/sso/saml">>]}
OinApps ==
  UNION {{App("slack", o, s) : o \in OinSignOns, s \in SettingsOf({"domain"})},
         {App("panw_globalprotect", SignOn, [baseURL |-> t]) : t \in Texts \cup {<<"s", "/">>}},
         {App("zoomus", SignOn, s) : s \in SettingsOf({"subDomain"})},
         {App("okta_org2org", SignOn, s) : s \in SettingsOf({"acsUrl", "audRestriction"})},
         {App("githubcloud", SignOn, s) : s \in SettingsOf({"githubOrg", "orgName"})},
         {App("realtime_board", SignOn, s) :
            s \in SettingsOf({"customAcsUrl", "customEntityId"})},
         {App(n, SignOn, NoSettings) :
            n \in {"asana", "jamfsoftwareserver", "githubenterprisemanageduser"}}}

RouteOrgs ==
  {WithApp(a) : a \in {App("custom", s, NoSettings) : s \in SignOns \cup Several \cup {Encrypted}}
                        \cup Issuers \cup OinApps}

-----------------------------------------------------------------------------
(* Claims. *)

Statement(name, expression) ==
  [name |-> name, expression |-> expression, empty |-> FALSE]
\* A statement with a format only, and one with nothing.
Formatted == Statement(NoText, NoText)
Void == [Formatted EXCEPT !.empty = TRUE]
StatementLists ==
  {<<>>, <<Statement(<<"email">>, <<"user", "email">>)>>,
   <<Statement(<<"upn">>, <<"appuser", "title">>)>>,
   <<Statement(<<"claims/objectidentifier">>, <<"user", "oid">>),
     Statement(<<"email">>, <<"user", "email">>)>>,
   <<Formatted, Void, Statement(<<"upn">>, NoText)>>,
   <<Statement(<<"mail">>, <<"expr">>), Statement(<<"team">>, <<"appuser", "team">>)>>}

Subjects ==
  {<<<<"source", "login">>, "unspecified">>, <<<<"source", "login">>, "persistent">>,
   <<<<"source", "email">>, "unspecified">>, <<<<"appuser", "username">>, "email">>,
   <<<<"source", "login">>, "transient">>, <<<<"expr">>, "persistent">>,
   <<NoText, "unspecified">>}

ClaimApps ==
  {[App("custom", [SignOn EXCEPT !.subjectTemplate = s[1], !.subjectFormat = s[2],
                                 !.statements = l], NoSettings)
      EXCEPT !.userNameTemplate = <<"source", "login">>] : s \in Subjects, l \in StatementLists}

Assignment(user) ==
  [id |-> user, app |-> "a1", scope |-> "USER", status |-> "ACTIVE", syncState |-> "DISABLED",
   username |-> Plain("nick"), externalId |-> NoText,
   profile |-> [title |-> Plain("boss"), team |-> Plain("red")]]

\* A user whose object id is not a UUID, until the org changes.
Person(oid) ==
  [id |-> "u1", status |-> "ACTIVE",
   profile |-> [login |-> Mail("U1@x", "u1@x"), email |-> Mail("U1@y", "u1@y"), oid |-> oid]]
ClaimOrg(app) ==
  [WithApp(app) EXCEPT !.users = {Person(Plain("red") \cup Guid("id"))},
                       !.assignments = {Assignment("u1")}]
Settled(o) == [o EXCEPT !.users = {Person(Guid("id"))}]
Suspended(o) == [o EXCEPT !.users = {[u EXCEPT !.status = "SUSPENDED"] : u \in @}]
Unassigned(o) == [o EXCEPT !.assignments = {}]
Deactivated(o) == [o EXCEPT !.applications = {[a EXCEPT !.status = "INACTIVE"] : a \in @}]
Stateless(o) == [o EXCEPT !.applications = {[a EXCEPT !.status = Unstated] : a \in @}]
Staged(o) == [o EXCEPT !.assignments = {[x EXCEPT !.status = "STAGED"] : x \in @}]

ClaimHistories ==
  {<<ClaimOrg(a)>> : a \in ClaimApps}
    \cup {<<ClaimOrg(a), Settled(ClaimOrg(a))>> : a \in ClaimApps}
    \cup UNION {{<<o, Suspended(o)>>, <<Suspended(o)>>, <<Deactivated(o)>>, <<Stateless(o)>>,
                 <<Staged(o)>>, <<Unassigned(o), o>>} :
                  o \in {ClaimOrg(App("custom", SignOn, NoSettings))}}

-----------------------------------------------------------------------------
(* Synchronization and sign-on. *)

TargetSettings ==
  [idpId |-> <<"idp">>, domain |-> <<"d">>, githubOrg |-> <<"org">>, subDomain |-> <<"sub">>,
   regionType |-> <<"eu">>, microsoftTenantId |-> <<"tenant">>, namingContext |-> <<"nc">>,
   baseUrl |-> At("other")]

SyncApp(name, mode, features, settings) ==
  [App(name, SignOn, settings) EXCEPT !.mode = mode, !.features = features]

Names ==
  {"active_directory", "ldap_interface", "okta_org2org", "casper", "githubcloud",
   "1password_business", "snowflake", "office365", "okta_flow_sso", "custom"}
FeatureSets ==
  {{}, {"PROFILE_MASTERING", "OUTBOUND_DEL_AUTH"}, {"PUSH_PASSWORD_UPDATES", "GROUP_PUSH"}}
Modes == {"AUTO_LOGIN", "OPENID_CONNECT"}

SyncAssignments ==
  {[Assignment("u1") EXCEPT !.scope = s, !.syncState = "SYNCHRONIZED", !.externalId = <<"e1">>,
                            !.profile = p] :
     s \in {"USER", "GROUP"},
     p \in {[objectSid |-> Plain("sid")], [objectSid |-> Plain("sid"), initialStatus |-> Plain("x")]}}

Mapping1(group) == [id |-> "m1", app |-> "a1", group |-> group, targetName |-> <<"team">>]
Imported ==
  [Group("g2") EXCEPT !.type = "APP_GROUP", !.source = "a1", !.sid = <<"s2">>,
                      !.classes = @ \cup {"okta:windows_security_principal"}]

SyncOrgsWith(settings, names) ==
  {[WithApp(SyncApp(n, m, f, settings))
      EXCEPT !.assignments = {x}, !.mappings = {Mapping1("g1")},
             !.groups = @ \cup IF n \in {"active_directory", "okta_org2org", "office365"}
                               THEN {Imported} ELSE {}] :
     n \in names, m \in Modes, f \in FeatureSets, x \in SyncAssignments}

SyncOrgs ==
  SyncOrgsWith(TargetSettings, Names)
    \cup SyncOrgsWith([TargetSettings EXCEPT !.subDomain = Blank],
                      {"snowflake", "1password_business"})

-----------------------------------------------------------------------------
(* Identity providers. *)

Policy ==
  [action |-> "AUTO", linkFilter |-> FALSE, matchType |-> "USERNAME", subjectFilter |-> FALSE,
   matchAttribute |-> FALSE, transformed |-> FALSE, template |-> <<"idpuser", "email">>]
Policies ==
  UNION {{Policy, [Policy EXCEPT !.action = "DISABLED"], [Policy EXCEPT !.linkFilter = TRUE],
          [Policy EXCEPT !.matchType = "EMAIL"], [Policy EXCEPT !.transformed = TRUE],
          [Policy EXCEPT !.subjectFilter = TRUE], [Policy EXCEPT !.matchAttribute = TRUE]},
         {[Policy EXCEPT !.template = t] :
            t \in {<<"idpuser", "subjectNameId">>, <<"saml", "subjectNameId">>, <<"expr">>}}}

Shared == <<"okta.example", "/sso/saml2">>
Idp(id, policy) ==
  [id |-> id, type |-> "SAML2", protocol |-> "SAML2", status |-> "ACTIVE", policy |-> policy,
   issuer |-> <<"iss">>, audience |-> <<"aud">>, metadata |-> <<"ent">>,
   metadataAcs |-> <<Endpoint(Shared, 0), Endpoint(At("acs"), NoIndex), Endpoint(Shared, 2)>>,
   acsUrl |-> Shared, acsType |-> "ORG", acsBinding |-> NoText, microsoft |-> FALSE,
   tenant |-> NoText, groups |-> {"g1"}]

Entra == [Idp("i2", Policy) EXCEPT !.microsoft = TRUE, !.tenant = <<"tenant">>, !.metadataAcs = <<>>]
Social == [Idp("i2", Policy) EXCEPT !.type = "GOOGLE", !.protocol = "OIDC"]
Inactive == [Idp("i2", Policy) EXCEPT !.status = "INACTIVE", !.acsType = "INSTANCE", !.issuer = NoText]

Link(user, idp) ==
  [id |-> user, idp |-> idp, email |-> Mail("U1@x", "u1@x"), subject |-> Plain("nick"),
   externalId |-> Plain("ext"), msObjectId |-> Guid("id")]
Nameless(link) == [link EXCEPT !.email = {}, !.externalId = {}, !.msObjectId = {}]

IdpOrg(idps, links) ==
  [Empty EXCEPT !.users = {User("u1", Mail("U1@x", "u1@x")),
                           [User("u2", Plain("nick")) EXCEPT !.status = "LOCKED_OUT"]},
                !.applications = {[App("custom", SignOn, NoSettings) EXCEPT !.mode = "BOOKMARK"]},
                !.idps = idps, !.links = links]

IdpOrgs ==
  {IdpOrg({Idp("i1", p)}, {Link("u1", "i1")}) : p \in Policies}
    \cup {IdpOrg({Idp("i1", Policy), i}, {Link("u1", "i1"), Link("u2", "i2")}) :
            i \in {Entra, Social, Inactive}}
    \cup {IdpOrg({Idp("i1", Policy)}, {}), IdpOrg({Idp("i1", Policy)}, {Nameless(Link("u1", "i1"))}),
          IdpOrg({[Idp("i1", Policy) EXCEPT !.status = Unstated]}, {Link("u1", "i1")})}

\* A user is linked, and the policy changes, while the org is collected.
IdpHistories ==
  {<<IdpOrg({Idp("i1", Policy)}, {Link("u2", "i1")}),
     IdpOrg({Idp("i1", p)}, {Link("u1", "i1"), Link("u2", "i1")})>> :
     p \in {Policy, [Policy EXCEPT !.transformed = TRUE]}}

MCHistories ==
  {<<o>> : o \in UNION {RouteOrgs, SyncOrgs, IdpOrgs}} \cup ClaimHistories \cup IdpHistories

MCRecognizedNames == Names \cup DOMAIN Catalog
=============================================================================
