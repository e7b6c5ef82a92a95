----------------------------- MODULE Federation -----------------------------
(***************************************************************************)
(* From an org to its federation: the collection of the applications, of    *)
(* the identity providers (IdPs) and of their users (source.py), and their  *)
(* conversion (FederationEdges).  As in Pipeline, every request sees some   *)
(* version of the org, and the requests for a record of the parent one that *)
(* is not older than the parent's listing.                                  *)
(***************************************************************************)
EXTENDS FederationEdges

CONSTANTS
  Histories,       \* the histories an org may have: sequences of its versions
  MaxFaults,       \* bound on the requests that fail in a run
  IsLimited,       \* limit_app_user_collection
  RecognizedNames, \* AppName
  ListedAppIds,    \* app_user_collection_app_ids
  SkippedKeys      \* APPLICATION_USER_PROFILE_SKIPPED_KEYS

VARIABLES
  history, \* of the org, during the collection
  turn,    \* how many resources have been collected
  asOf,    \* the version that the last listing saw
  faults,  \* history: how many requests have failed
  lost,    \* history: the resources that lost rows without the run failing
  stage,   \* of the run
  graph    \* the edges so far

vars == <<history, turn, asOf, faults, lost, stage, graph, db>>

\* source(): the resources, each transformer behind its parent.
Order ==
  <<"users", "groups", "applications", "application_users",
    "application_group_push_mappings", "identity_providers",
    "identity_provider_users">>

Tables == ToSet(Order)

Init ==
  /\ history \in Histories
  /\ turn = 0
  /\ asOf = 1
  /\ faults = 0
  /\ lost = {}
  /\ stage = "collect"
  /\ graph = {}
  /\ db = [t \in Tables |-> {}]

Orgs == UNION {ToSet(h) : h \in Histories}

IsEndpoints(endpoints) ==
  endpoints \in Seq(ToSet(endpoints)) /\ \A e \in ToSet(endpoints) : e.index \in Int

\* The parts of an application that its row and its routes need.
IsApplication(a) ==
  /\ {"id", "mode", "signOn"} \subseteq DOMAIN a
  /\ IsSamlApplication(a) => IsEndpoints(a.signOn.endpoints) /\ IsEndpoints(a.signOn.encrypted)

\* The ids of the kinds of things that the org has; these may not coincide.
Ids(rows) == {r.id : r \in rows}
IdsOf ==
  [ORG |-> {OrgId},
   USER |-> UNION {UNION {Ids(v.users), Ids(v.assignments), Ids(v.links)} : v \in Orgs},
   GROUP |-> UNION {UNION {Ids(v.groups), {m.group : m \in v.mappings},
                           UNION {i.groups : i \in v.idps}} : v \in Orgs},
   APPLICATION |-> UNION {Ids(v.applications) : v \in Orgs},
   IDP |-> UNION {Ids(v.idps) : v \in Orgs}]

ASSUME IdsAssumption == \A k, l \in DOMAIN IdsOf : k # l => IdsOf[k] \cap IdsOf[l] = {}

\* The ids of the records of a listing are unique, an IdP is linked to a user
\* once, and the users of an application are users of the org.
ASSUME OrgsAssumption ==
  /\ \A h \in Histories : h \in Seq(Orgs) /\ h # <<>>
  /\ \A h \in Histories : IsFiniteSet(UNION {v.mappings : v \in ToSet(h)})
  /\ \A v \in Orgs :
       /\ \A records \in {v.users, v.applications, v.idps} :
            \A r, s \in records : "id" \in DOMAIN r /\ (r.id = s.id => r = s)
       /\ IsFiniteSet(v.applications) /\ \A a \in v.applications : IsApplication(a)
       /\ IsFiniteSet(v.idps) /\ \A i \in v.idps : "groups" \in DOMAIN i
       /\ \A k, l \in v.links : k.id = l.id /\ k.idp = l.idp => k = l
       /\ \A x \in v.assignments : \E u \in v.users : u.id = x.id

ASSUME BoundAssumption == MaxFaults \in Nat

-----------------------------------------------------------------------------
(* The collection. *)

Versions == 1 .. Len(history)
Full(t, rows) == db' = [db EXCEPT ![t] = rows]

Due(t) ==
  /\ stage = "collect"
  /\ turn < Len(Order) /\ Order[turn + 1] = t
  /\ turn' = turn + 1
  /\ UNCHANGED <<history, stage, graph>>

Fault(n) == faults + n <= MaxFaults /\ faults' = faults + n

\* An error ends the rows of a resource: OpenHound's wrapper lets the run go on
\* with the rows before it.
Partial(t, rows) ==
  /\ Fault(1)
  /\ lost' = lost \cup {t}
  /\ \E kept \in SUBSET rows : Full(t, kept)

Collected(t, rows) == (Full(t, rows) /\ UNCHANGED <<faults, lost>>) \/ Partial(t, rows)

CollectUsers ==
  /\ Due("users")
  /\ \E v \in Versions : asOf' = v /\ Collected("users", history[v].users)

CollectGroups ==
  /\ Due("groups")
  /\ \E v \in Versions : asOf' = v /\ Collected("groups", history[v].groups)

\* _saml_metadata_fields: metadata that is forbidden, missing or not XML is
\* left out.  The listing has no wrapper, and another error fails the run.
CollectApplications ==
  /\ Due("applications")
  /\ \E v \in Versions :
       LET apps == history[v].applications
       IN \E hidden \in SUBSET {a \in apps : IsSamlApplication(a)} :
            /\ asOf' = v
            /\ Fault(Cardinality(hidden))
            /\ Full("applications",
                    {IF a \in hidden THEN [a EXCEPT !.metadata = NoText] ELSE a : a \in apps})
  /\ UNCHANGED lost

\* app_user_collection_filter
CollectsUsers(app) == ~IsLimited \/ app.name \in RecognizedNames \/ app.id \in ListedAppIds

Trimmed(profile) == [a \in DOMAIN profile \ SkippedKeys |-> profile[a]]

\* The rows of an application's users; the fields of the application are those
\* of its own row.
ApplicationUserRows(app, org) ==
  IF ~CollectsUsers(app) THEN {}
  ELSE {[id |-> x.id, app |-> app, scope |-> x.scope, status |-> x.status,
         syncState |-> x.syncState, username |-> x.username, externalId |-> x.externalId,
         profile |-> Trimmed(x.profile)] :
          x \in {y \in org.assignments : y.app = app.id}}

\* The versions that the requests for the rows of a parent see.
Views(parent) == [db[parent] -> asOf .. Len(history)]

CollectApplicationUsers ==
  /\ Due("application_users")
  /\ \E v \in Views("applications") :
       Collected("application_users",
                 UNION {ApplicationUserRows(a, history[v[a]]) : a \in DOMAIN v})
  /\ UNCHANGED asOf

MappingRow(m, name) == [id |-> m.id, app |-> m.app, group |-> m.group, targetName |-> name]

\* The name of the target group is a request of its own, and left out if it fails.
CollectMappings ==
  /\ Due("application_group_push_mappings")
  /\ \E v \in Views("applications") :
       LET seen == UNION {{m \in history[v[a]].mappings : m.app = a.id} :
                            a \in {b \in DOMAIN v : "GROUP_PUSH" \in b.features}}
       IN \/ \E nameless \in SUBSET seen :
               /\ Fault(Cardinality(nameless))
               /\ Full("application_group_push_mappings",
                       {MappingRow(m, IF m \in nameless THEN NoText ELSE m.targetName) :
                          m \in seen})
               /\ UNCHANGED lost
          \/ Partial("application_group_push_mappings",
                     {MappingRow(m, m.targetName) : m \in seen})
  /\ UNCHANGED asOf

WithoutMetadata(idp) == [[idp EXCEPT !.metadata = NoText] EXCEPT !.metadataAcs = <<>>]

\* _saml_idp_metadata_fields
CollectIdentityProviders ==
  /\ Due("identity_providers")
  /\ \E v \in Versions :
       LET idps == history[v].idps
       IN /\ asOf' = v
          /\ \/ \E hidden \in SUBSET {i \in idps : IsSamlIdentityProvider(i)} :
                  /\ Fault(Cardinality(hidden))
                  /\ Full("identity_providers",
                          {IF i \in hidden THEN WithoutMetadata(i) ELSE i : i \in idps})
                  /\ UNCHANGED lost
             \/ Partial("identity_providers", idps)

IdpUserRow(idp, link) ==
  [id |-> link.id, idp |-> idp.id, type |-> idp.type, protocol |-> idp.protocol,
   status |-> idp.status, microsoft |-> idp.microsoft, template |-> idp.policy.template,
   email |-> link.email, subject |-> link.subject, externalId |-> link.externalId,
   msObjectId |-> link.msObjectId]

CollectIdpUsers ==
  /\ Due("identity_provider_users")
  /\ \E v \in Views("identity_providers") :
       Collected("identity_provider_users",
                 UNION {{IdpUserRow(i, k) : k \in {l \in history[v[i]].links : l.idp = i.id}} :
                          i \in DOMAIN v})
  /\ UNCHANGED asOf

\* A request exhausts its retries, or the wrapper gives up.
CollectionFails ==
  /\ stage = "collect"
  /\ Fault(1)
  /\ stage' = "failed"
  /\ UNCHANGED <<history, turn, asOf, lost, graph, db>>

-----------------------------------------------------------------------------
(* The transforms, which need three tables, and the conversion: if a row     *)
(* raises, it goes on without the rest of the row's edges, or it fails.      *)

Preprocess ==
  /\ stage = "collect" /\ turn = Len(Order)
  /\ stage' = IF \A t \in {"users", "groups", "applications"} : TableExists(t)
                THEN "convert" ELSE "failed"
  /\ UNCHANGED <<history, turn, asOf, faults, lost, graph, db>>

Convert ==
  /\ stage = "convert"
  /\ graph' = AllEdges
  /\ \/ stage' = "done"
     \/ (\E p \in ServiceProviders : ServiceProviderRaises(p)) /\ stage' = "failed"
  /\ UNCHANGED <<history, turn, asOf, faults, lost, db>>

Ended == stage \in {"done", "failed"} /\ UNCHANGED vars

Next ==
  \/ CollectUsers
  \/ CollectGroups
  \/ CollectApplications
  \/ CollectApplicationUsers
  \/ CollectMappings
  \/ CollectIdentityProviders
  \/ CollectIdpUsers
  \/ CollectionFails
  \/ Preprocess
  \/ Convert
  \/ Ended

Spec == Init /\ [][Next]_vars

-----------------------------------------------------------------------------
(* Properties. *)

TypeOK ==
  /\ turn \in 0 .. Len(Order) /\ asOf \in Versions /\ faults \in 0 .. MaxFaults
  /\ lost \subseteq Tables
  /\ stage \in {"collect", "convert", "done", "failed"}
  /\ DOMAIN db = Tables

SeenVersions == ToSet(history)
Within(kind) == {e \in graph : e.kind = kind}

\* The nodes, by kind; rows of applications, IdPs and of their parts make them.
AcsRowsOf(app) == ToSet(SamlAcsRows(app))
NodesOf ==
  [ORG |-> {Node(OrgId)},
   USER |-> {Node(id) : id \in Ids(db["users"])},
   GROUP |-> {Node(id) : id \in Ids(db["groups"])},
   APPLICATION |-> {Node(id) : id \in Ids(db["applications"])},
   IDP |-> {Node(id) : id \in Ids(db["identity_providers"])},
   SAML_FEDERATION_PROVIDER |-> Ids(FederationProviders),
   SAML_SERVICE_PROVIDER |-> Ids(ServiceProviders),
   SAML_ISSUER |-> Ids(RowsFrom("applications", SamlIssuerRows)
                         \cup RowsFrom("identity_providers", TrustedIssuerRows)),
   SAML_ACS |-> Ids(RowsFrom("applications", AcsRowsOf)
                      \cup RowsFrom("identity_providers", SamlSpAcsRows)),
   SAML_CLAIM_MAPPING |-> Ids(RowsFrom("applications", SamlClaimMappingRows)),
   SAML_RULE |-> Ids(Rules),
   SAML_FIELD |-> Ids(RowsFrom("identity_providers", AccountResolutionFieldRows))]

IsForeign(node) == Len(node) = 2 /\ node[1] \in ForeignKinds \cup {"USER", "GROUP", "IDP"}
IsSamlNode(node) == Len(node) > 1 /\ ~IsForeign(node)
KindsOf(node) ==
  IF IsForeign(node) THEN {node[1]} ELSE {k \in DOMAIN NodesOf : node \in NodesOf[k]}

\* The edges that the code makes and no asset declares.
UndeclaredDefs ==
  UNION {Declare("READ_PASSWORD_UPDATES", {"APPLICATION"}, {"USER"}),
         Declare("USER_SYNC", {"USER"}, {"USER"}),
         Declare("PASSWORD_SYNC", {"USER"}, {"AD_USER"}),
         Declare("ORG_SWA", {"APPLICATION"}, {"IDP"}),
         Declare("SWA", {"USER"}, {"USER"}),
         Declare("MEMBERSHIP_SYNC", {"AZ_GROUP"}, {"GROUP"}),
         Declare("INBOUND_ORG_SSO", {"AZ_TENANT"}, {"IDP"}),
         Declare("INBOUND_SSO", {"AZ_USER"}, {"USER"})}

EdgesAreDeclared ==
  \A e \in graph : \A start \in KindsOf(e.start), end \in KindsOf(e.end) :
    <<e.kind, start, end>> \in FederationDefs \cup UndeclaredDefs

\* A route has a node of its own, and a service provider finds an account in
\* one way only, also if Okta has linked it.
NodesAreDistinct ==
  /\ \A app \in db["applications"] :
       Cardinality(Ids(AcsRowsOf(app))) = Len(SamlRoutesOf(app).routes)
  /\ \A e, d \in Within("SAML_HAS_ACCOUNT") : e.start = d.start /\ e.end = d.end => e = d

\* "Keep EdgeDef(...) declarations aligned with the asset class that actually
\* emits those edges" (.agents/standards/openhound.md): whatever is collected
\* and lost, the SAML nodes at the ends of edges are there, each once, and all
\* other edges than those of UndeclaredDefs are declared.
SamlGraphIsWhole ==
  /\ TypeOK
  /\ \A e \in graph : \A node \in {e.start, e.end} :
       IsSamlNode(node) => KindsOf(node) # {}
  /\ EdgesAreDeclared
  /\ NodesAreDistinct

\* What the settings say of the entity of the service provider.
StatedSps(signOn) ==
  IF Given(signOn.audienceOverride) THEN {signOn.audienceOverride}
                                    ELSE SpCandidates(signOn)

\* What must be set for a route of the catalogue.
CatalogProves(app, url, sp) ==
  LET text(field) == Setting(app.settings, field)
  IN CASE app.name = "githubcloud" ->
            \E field \in {"githubOrg", "orgName"} :
              /\ IsValid(text(field)) /\ sp = <<"github.com/orgs/">> \o text(field)
              /\ field = "orgName" => text("githubOrg") \in {NoText, EmptyText}
       [] app.name = "realtime_board" ->
            \/ /\ url = text("customAcsUrl") /\ sp = text("customEntityId")
               /\ IsValid(url) /\ IsValid(sp)
            \/ /\ url = <<"miro.com/sso/saml">> /\ sp = <<"miro.com/">>
               /\ \A field \in {"customAcsUrl", "customEntityId"} :
                    field \in DOMAIN app.settings /\ app.settings[field] = NoText
       [] app.name = "okta_org2org" ->
            \A field \in {"acsUrl", "audRestriction"} : IsPresent(text(field))
       [] OTHER -> \A field \in Catalog[app.name].fields : IsValid(text(field))

\* A route is one that the configuration proves.  No entity that the settings
\* state is another one, and its URL is one of the endpoints or the first of
\* the six single settings, whatever the other five say.  A route of the
\* catalogue is made of settings that are there and valid: Miro's default takes
\* two explicit nulls ("omitted fields do not prove the default",
\* tests/test_oin_routes.py).  One of the settings that contradicts the
\* catalogue is marked, an application without a route says why, and nothing
\* stated contradicts the issuer.
RoutesAreProven ==
  \A app \in {a \in db["applications"] : IsSamlApplication(a)} :
    LET routes == {r.route : r \in AcsRowsOf(app)}
        urls == ExplicitAcsUrls(app.signOn)
    IN /\ \A issuer \in SamlIssuerRows(app), stated \in {app.metadata, app.signOn.idpIssuer} :
            Given(Concrete(stated)) => issuer.entity = stated
       /\ \A r \in routes :
            /\ StatedSps(app.signOn) \subseteq {r.sp}
            /\ urls # {} => r.url \in urls
            /\ IF r.source = "settings"
                 THEN ~r.conflict => Keys(ResolveOinRoutes(app).routes)
                                       \subseteq {<<s.url, s.sp>> : s \in routes}
                 ELSE CatalogProves(app, r.url, r.sp)
       /\ routes = {} => SamlRoutesOf(app).diagnostics # {}

\* What Okta asserts in a field to an application, by the whole profiles of the
\* assignment and of the user; a mapping whose values are not told is none.
MappingsTo(f, app) ==
  {m \in {r.mapping : r \in SamlClaimMappingRows(app)} : ClaimFamily(m) = f}
Told(m, assignment, user) == DirectValues(m.expression, assignment, user.profile)
Addresses(app, assignment, user) ==
  UNION {LoginAddresses(r.mapping, Told(r.mapping, assignment, user)) :
           r \in SamlClaimMappingRows(app)}

IsComplete(f, edge, app, assignment, user) ==
  LET asserted(m) == Canonical(f, Told(m, assignment, user))
      all == UNION {asserted(m) : m \in MappingsTo(f, app)}
  IN /\ \A m \in MappingsTo(f, app) : IsDirect(m.expression)
     /\ \A m \in MappingsTo(f, app) : f = "entra" => "" \notin {v.uuid : v \in Told(m, assignment, user)}
     /\ all \subseteq edge.data.fields[f]
     /\ edge.data.fields[f]
          \subseteq all \cup IF f = "email" THEN Addresses(app, assignment, user) ELSE {}

KeptOut == {"SUSPENDED", "DEPROVISIONED", "STAGED", "LOCKED_OUT"}

\* "Resolve every source-proven outbound assertion value"
\* (saml_application_assertion_evidence): a field that is not marked incomplete
\* is what Okta asserts of the user in states of the org that were there, also
\* if rows are lost; and nobody is eligible whom Okta keeps out all the time.
AssertionsAreHonest ==
  \A e \in Within("SAML_ELIGIBLE_FOR") :
    LET app == CHOOSE a \in db["applications"] : a.id = e.end[2]
        users == {u \in UNION {v.users : v \in SeenVersions} : u.id = e.start[1]}
        assignments ==
          {x \in UNION {v.assignments : v \in SeenVersions} :
             x.id = e.start[1] /\ x.app = app.id}
    IN /\ \E x \in assignments, u \in users :
            \A f \in CommonFields \ e.data.incomplete : IsComplete(f, e, app, x, u)
       /\ app.status \in {"ACTIVE", Unstated}
       /\ "users" \notin lost =>
            \E v \in SeenVersions : \A u \in v.users :
              u.id = e.start[1] => u.status \notin KeptOut

\* What Okta's policy makes of an assertion; which accounts a filter, another
\* attribute or a transformed name lead to is not known.
PolicyName(policy, assertion) ==
  IF policy.template = <<"idpuser", "email">> THEN assertion.email ELSE assertion.scoped
SurelyResolves(policy, assertion, user) ==
  /\ policy.action = "AUTO" /\ ~policy.linkFilter
  /\ ~policy.subjectFilter /\ ~policy.matchAttribute /\ ~policy.transformed
  /\ policy.matchType = "USERNAME"
  /\ PolicyName(policy, assertion) \in Logins(user)

Assertions == LET logins == {"stranger"} \cup UNION {Logins(u) : u \in db["users"]}
              IN [email : logins, scoped : logins]

ResolvesAsOkta(rule, policy) ==
  \A assertion \in Assertions, user \in db["users"] :
    assertion[rule.assertionField] \in Logins(user) => SurelyResolves(policy, assertion, user)

\* A link of a user names no account if its IdP is not active, or if neither
\* the user name nor the ids of the user at the IdP are known.
NamesNoAccount(link) ==
  \/ link.status \notin {"ACTIVE", Unstated}
  \/ UNION {IdpUserValue(link), link.externalId, link.msObjectId} = {}

LinksOf(p, user) ==
  {k \in db["identity_provider_users"] : k.idp = p.idp /\ k.id = user.id}

AccountsOf(p, user) ==
  {e \in Within("SAML_HAS_ACCOUNT") : e.start = p.id /\ e.end = Node(user.id)}

\* The edges that the rule of a service provider needs, for all users with a
\* login: to the value and to the account, which is marked as linked if Okta
\* has linked it.
HasValue(p, user) ==
  \E e \in Within("SAML_HAS_VALUE") :
    e.start = Node(user.id) /\ e.end \in p.fields /\ e.data.match = Logins(user)
HasAccount(p, user) ==
  \E e \in AccountsOf(p, user) :
    /\ e.data.direct <=> LinksOf(p, user) # {}
    /\ e.data.state = AccountState(user.status)

AccountsAreThere(p) ==
  \A user \in {u \in db["users"] : Logins(u) # {}} :
    /\ HasValue(p, user)
    /\ HasAccount(p, user) \/ \E k \in LinksOf(p, user) : NamesNoAccount(k)

\* "Fail closed unless Okta fully proves automatic exact login matching"
\* (_account_resolution_evidence): the account that a rule of the graph finds
\* for an assertion is the one that Okta's policy finds.  Unless the row of the
\* service provider raises, all users with a login are accounts that can be
\* found, linked ones as linked, but for those whose link names no account.
RulesResolveAsOkta ==
  stage = "done" =>
    \A p \in ServiceProviders :
      LET idp == CHOOSE i \in db["identity_providers"] : i.id = p.idp
      IN /\ \A rule \in AccountResolutionRuleRows(idp) : ResolvesAsOkta(rule, idp.policy)
         /\ p.rules # {} /\ ~ServiceProviderRaises(p) => AccountsAreThere(p)
=============================================================================
