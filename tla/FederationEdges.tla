--------------------------- MODULE FederationEdges ---------------------------
(***************************************************************************)
(* The edges of the rows of applications, identity providers (IdPs), groups *)
(* and their users, and what their conversion asks of the collected tables  *)
(* (OktaLookup in lookup.py).                                               *)
(*                                                                         *)
(* A node is the tuple of its id's parts; one of another collector is the   *)
(* tuple of its kind and of what it must have (HybridAuth).                 *)
(***************************************************************************)
EXTENDS SamlTrust, HybridAuth, FederationKinds

CONSTANT OrgId  \* org_id: of the organization

VARIABLE db  \* the rows of each table

Node(id) == <<id>>

\* A status that is None.
Unstated == ""

NoData == [match |-> {}]
EdgeWith(kind, start, end, data) ==
  [kind |-> kind, start |-> start, end |-> end, data |-> data]
Edge(kind, start, end) == EdgeWith(kind, start, end, NoData)

When(condition, edges) == IF condition THEN edges ELSE {}

Contained(id) == {Edge("CONTAINS", Node(OrgId), Node(id))}

-----------------------------------------------------------------------------
(* Lookups. *)

TableExists(t) == db[t] # {}

RowsOf(t, id) == {r \in db[t] : r.id = id}

\* user_saml_context: the state and the profile of a user, if it is known.
UnknownUser == [status |-> "none", profile |-> [a \in {} |-> {}]]
SourceUser(id) ==
  IF RowsOf("users", id) = {} THEN UnknownUser ELSE CHOOSE r \in RowsOf("users", id) : TRUE

\* saml_claim_mappings, of the application's row.
ClaimMappingsOf(app) ==
  UNION {SamlClaimMappingRows(r) : r \in RowsOf("applications", app)}

DirectlyLinkedIds(idp) ==
  {r.id : r \in {s \in db["identity_provider_users"] : s.idp = idp}}

-----------------------------------------------------------------------------
(* Applications. *)

ApplicationEdges(app) ==
  Contained(app.id)
    \cup {Edge(x[1], Node(app.id), x[2]) :
            x \in ApplicationSignOnKinds(app) \X OutboundTrustTargets(app)}

\* SamlFederationProvider
FederationProviderEdges(p) ==
  UNION {{Edge("SAML_IMPLEMENTS", Node(p.app), p.id)},
         {Edge("SAML_ISSUES_AS", p.id, i) : i \in p.issuers},
         {Edge("SAML_ISSUES_ASSERTIONS_TO", p.id, a) : a \in p.acs},
         {Edge("SAML_HAS_CLAIM_MAPPING", p.id, m) : m \in p.mappings}}

-----------------------------------------------------------------------------
(* The users of an application. *)

TextOf(values) == IF values = {} THEN NoText ELSE <<(CHOOSE v \in values : TRUE).exact>>
HasFeature(u, feature) == feature \in u.app.features

AssignmentEdges(u) ==
  When(u.scope = "USER", {Edge("APP_ASSIGNMENT", Node(u.id), Node(u.app.id))})
    \cup When(HasFeature(u, "PUSH_PASSWORD_UPDATES"),
              {Edge("READ_PASSWORD_UPDATES", Node(u.app.id), Node(u.id))})

\* _is_inbound_sync: the user comes from the application.
IsInboundSync(u) ==
  CASE u.app.name = "active_directory" -> u.scope = "USER"
    [] u.app.name = "ldap_interface" -> TRUE
    [] OTHER -> /\ u.scope # "GROUP" /\ HasFeature(u, "PROFILE_MASTERING")
                /\ u.app.name = "okta_org2org" => "initialStatus" \notin DOMAIN u.profile

IsSynchronized(u) == u.syncState = "SYNCHRONIZED"
IgnoredOutboundSyncApps == {"okta_flow_sso", "okta_atspoke_sso"}

\* _user_push_pull_edges
PushPullEdges(u) ==
  IF IsInboundSync(u)
    THEN When(IsSynchronized(u), {Edge("USER_PULL", Node(u.app.id), Node(u.id))})
    ELSE When(IsSynchronized(u) /\ u.app.name \notin IgnoredOutboundSyncApps,
              {Edge("USER_PUSH", Node(u.id), Node(u.app.id))})

\* _password_sync_edge
AdSyncEdges(u) ==
  LET sids == {<<"AD_USER", [id |-> <<v.exact>>]>> : v \in Attribute(u.profile, "objectSid")}
      inbound(kind) == {Edge(kind, sid, Node(u.id)) : sid \in sids}
      outbound(kind) == {Edge(kind, Node(u.id), sid) : sid \in sids}
  IN IF ~IsSynchronized(u) \/ u.app.name # "active_directory" THEN {}
     ELSE IF IsInboundSync(u)
       THEN inbound("USER_SYNC")
              \cup When(HasFeature(u, "OUTBOUND_DEL_AUTH"), inbound("PASSWORD_SYNC"))
       ELSE outbound("USER_SYNC")
              \cup When(HasFeature(u, "PUSH_PASSWORD_UPDATES"), outbound("PASSWORD_SYNC"))

\* _okta_org2org_edges: whether synchronized or not.
Org2OrgEdges(u) ==
  LET other == <<"USER", [id |-> Upper(u.externalId)]>>
  IN IF u.app.name # "okta_org2org" \/ ~Given(u.externalId) THEN {}
     ELSE IF IsInboundSync(u) THEN {Edge("USER_SYNC", other, Node(u.id))}
     ELSE {Edge("USER_SYNC", Node(u.id), other)}
            \cup When(HasFeature(u, "PUSH_PASSWORD_UPDATES"),
                      {Edge("PASSWORD_SYNC", Node(u.id), other)})

\* _hybrid_sign_on_edges
HybridSignOnEdges(u) ==
  {Edge(x[1], Node(u.id), x[2]) :
     x \in UserSignOnKinds(u.app.mode)
             \X HybridUserTargets(u.app, TextOf(u.username), u.externalId)}

\* The assignment and the user are such that the user can sign on.
IsEligible(u) ==
  /\ IsSamlApplication(u.app) /\ u.app.status \in {"ACTIVE", Unstated}
  /\ u.status \in {"ACTIVE", "PROVISIONED"}
  /\ SourceUser(u.id).status \notin {"SUSPENDED", "DEPROVISIONED", "STAGED", "LOCKED_OUT"}

Evidence(u) ==
  AssertionEvidence(u, ClaimMappingsOf(u.app.id), SourceUser(u.id).profile)

\* _saml_assertion_edges
AssertionEdges(u) ==
  When(IsEligible(u),
       {EdgeWith("SAML_ELIGIBLE_FOR", Node(u.id), SamlProviderId(u.app.id),
                 [match |-> Evidence(u).match, fields |-> Evidence(u).fields,
                  incomplete |-> Evidence(u).incomplete])}
       \cup {EdgeWith("SAML_HAS_CLAIM_VALUE", Node(u.id), c.mapping, c) :
               c \in Evidence(u).claims})

ApplicationUserEdges(u) ==
  UNION {AssignmentEdges(u), PushPullEdges(u), AdSyncEdges(u), Org2OrgEdges(u),
         HybridSignOnEdges(u), AssertionEdges(u)}

-----------------------------------------------------------------------------
(* Groups. *)

SyncTargets(app, name) ==
  UNION {HybridGroupTargets(r, name) : r \in RowsOf("applications", app)}

GroupEdges(g) ==
  UNION {When(g.type = "APP_GROUP" /\ "okta:user_group" \in g.classes /\ Given(g.name),
              {Edge("MEMBERSHIP_SYNC", t, Node(g.id)) : t \in SyncTargets(g.source, g.name)}),
         Contained(g.id),
         When("okta:windows_security_principal" \in g.classes /\ Given(g.sid),
              {Edge("MEMBERSHIP_SYNC", <<"AD_GROUP", [id |-> g.sid]>>, Node(g.id))}),
         {Edge("GROUP_PULL", Node(r.id), Node(g.id)) : r \in RowsOf("applications", g.source)}}

\* ApplicationGroupMapping
GroupMappingEdges(m) ==
  {Edge("GROUP_PUSH", Node(m.group), Node(m.app))}
    \cup When(Given(m.targetName),
              {Edge("MEMBERSHIP_SYNC", Node(m.group), t) : t \in SyncTargets(m.app, m.targetName)})

-----------------------------------------------------------------------------
(* Identity providers and their users. *)

IdentityProviderEdges(idp) ==
  UNION {Contained(idp.id),
         {Edge("IDP_GROUP_ASSIGNMENT", Node(idp.id), Node(g)) : g \in idp.groups},
         When(idp.type = "SAML2" /\ Given(idp.tenant),
              {Edge("INBOUND_ORG_SSO", <<"AZ_TENANT", [id |-> Upper(idp.tenant)]>>,
                    Node(idp.id))})}

\* IDPUser
InboundSsoEdges(u) ==
  When(u.type = "SAML2" /\ u.microsoft,
       {Edge("INBOUND_SSO", <<"AZ_USER", [id |-> <<v.exact>>]>>, Node(u.id)) :
          v \in u.msObjectId})

LinkedAccountEdges(u) ==
  When(/\ IsSamlIdentityProvider(u) /\ u.status \in {"ACTIVE", Unstated}
       /\ IdpUserEvidence(u).match # {},
       {EdgeWith("SAML_HAS_ACCOUNT", SamlServiceProviderId(u.idp), Node(u.id),
                 [match |-> IdpUserEvidence(u).match, fields |-> IdpUserEvidence(u).fields,
                  state |-> AccountState(SourceUser(u.id).status), direct |-> TRUE])})

IdpUserEdges(u) ==
  {Edge("IDENTITY_PROVIDER_FOR", Node(u.idp), Node(u.id))}
    \cup InboundSsoEdges(u) \cup LinkedAccountEdges(u)

\* SamlServiceProvider: what it implements, trusts and has.
ServiceProviderRoutes(p) ==
  UNION {{Edge("SAML_IMPLEMENTS", Node(p.idp), p.id)},
         {Edge("SAML_TRUSTS_ISSUER", p.id, i) : i \in p.issuers},
         {Edge("SAML_HAS_ACS", p.id, a) : a \in p.acs},
         {Edge("SAML_HAS_RULE", p.id, r) : r \in p.rules}}

\* Wrong: the users that Okta has linked get a second edge (SamlGraphIsWhole).
UnlinkedIncludesLinked(p, users) == users

Unlinked(p, users) == {u \in users : u.id \notin DirectlyLinkedIds(p.idp)}

Logins(u) == Exact(Attribute(u.profile, "login"))

\* The accounts that a rule may resolve to, and their values.
AccountEdges(p) ==
  LET users == {u \in db["users"] : Logins(u) # {}}
  IN {EdgeWith("SAML_HAS_ACCOUNT", p.id, Node(u.id),
               [match |-> Logins(u), state |-> AccountState(u.status), direct |-> FALSE]) :
        u \in Unlinked(p, users)}
     \cup {EdgeWith("SAML_HAS_VALUE", Node(x[1].id), x[2], [match |-> Logins(x[1])]) :
             x \in users \X p.fields}

\* The lookups of the accounts do not ask whether their tables exist.
ServiceProviderRaises(p) ==
  p.rules # {} /\ \E t \in {"identity_provider_users", "users"} : ~TableExists(t)

ServiceProviderEdges(p) ==
  ServiceProviderRoutes(p)
    \cup When(p.rules # {} /\ ~ServiceProviderRaises(p), AccountEdges(p))

RuleEdges(r) == {Edge("SAML_USES_FIELD", r.id, r.field)}

-----------------------------------------------------------------------------
(* All of them. *)

RowsFrom(t, rows(_)) == UNION {rows(r) : r \in db[t]}

FederationProviders == RowsFrom("applications", FederationProviderRows)
ServiceProviders == RowsFrom("identity_providers", ServiceProviderRows)
Rules == RowsFrom("identity_providers", AccountResolutionRuleRows)

AllEdges ==
  UNION {RowsFrom("applications", ApplicationEdges),
         RowsFrom("application_users", ApplicationUserEdges),
         RowsFrom("groups", GroupEdges),
         RowsFrom("application_group_push_mappings", GroupMappingEdges),
         RowsFrom("identity_providers", IdentityProviderEdges),
         RowsFrom("identity_provider_users", IdpUserEdges),
         UNION {FederationProviderEdges(p) : p \in FederationProviders},
         UNION {ServiceProviderEdges(p) : p \in ServiceProviders},
         UNION {RuleEdges(r) : r \in Rules}}
=============================================================================
