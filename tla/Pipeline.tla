------------------------------ MODULE Pipeline ------------------------------
(***************************************************************************)
(* From an org to its administrative edges: the collection of the tables    *)
(* that roles need (source.py), the transforms of the preprocessing         *)
(* (transforms.py) and the conversion of their rows (RoleEdges).            *)
(*                                                                         *)
(* The collection is no snapshot.  The org passes through the versions of   *)
(* its history while the resources run side by side: every request sees     *)
(* some version, and the requests that a transformer makes for a record of  *)
(* its parent see that of the parent's listing or a later one.  As nothing  *)
(* else relates two requests, the order in which the model takes the        *)
(* resources does not matter, and it takes them one after the other.        *)
(*                                                                         *)
(* A version of the org is a record; Grants says what the roles of one      *)
(* entitle to, in Okta's terms.                                             *)
(***************************************************************************)
EXTENDS RoleEdges, ResourceNames

CONSTANTS
  Histories, \* the histories an org may have: sequences of its versions
  MaxFaults  \* bound on the requests that fail in a run

VARIABLES
  history, \* of the org, during the collection
  turn,    \* how many resources have been collected
  asOf,    \* the version that the last listing saw
  faults,  \* history: how many requests have failed
  lost,    \* history: the resources that lost rows without the run failing
  stage,   \* of the run
  graph    \* the edges so far

vars == <<history, turn, asOf, faults, lost, stage, graph, db>>

\* source(): the resources, each transformer behind its parent, with no other
\* listing between them.
Order ==
  <<"users", "groups", "group_memberships", "group_role_assignments",
    "client_applications", "client_role_assignments", "applications",
    "application_secrets", "devices", "policies", "identity_providers",
    "authorization_servers", "resource_sets", "resources",
    "resource_set_role_assignments", "custom_roles", "custom_role_permissions",
    "api_services", "api_service_secrets", "privileged_users",
    "user_role_assignments">>

Parent ==
  [group_memberships |-> "groups", group_role_assignments |-> "groups",
   client_role_assignments |-> "client_applications",
   application_secrets |-> "applications", resources |-> "resource_sets",
   resource_set_role_assignments |-> "resource_sets",
   custom_role_permissions |-> "custom_roles", api_service_secrets |-> "api_services",
   user_role_assignments |-> "privileged_users"]

Listings == {Order[i] : i \in DOMAIN Order} \ DOMAIN Parent

\* The listings that only feed a transformer here are kept like tables.
Stored == Tables \cup DerivedTables \cup {"client_applications", "resource_sets",
                                          "custom_roles"}

Init ==
  /\ history \in Histories
  /\ turn = 0
  /\ asOf = 1
  /\ faults = 0
  /\ lost = {}
  /\ stage = "collect"
  /\ graph = {}
  /\ db = [t \in Stored |-> {}]

-----------------------------------------------------------------------------
(* What Okta answers. *)

\* Roles of a holder as Okta lists them.
RolesOf(org, from, source) ==
  {a \in org.roles : a.from = from /\ a.source = source}

\* The statistics and flags of a record are those of the listing's version.
GroupRows(org) ==
  {[id |-> g, users |-> Cardinality({m \in org.members : m.group = g}),
    admin |-> RolesOf(org, "group", g) # {}] : g \in org.groups}

\* Everyone who has a role, directly or through a group.
PrivilegedIds(org) ==
  {a.source : a \in {b \in org.roles : b.from = "user"}}
    \cup {m.id : m \in {n \in org.members : RolesOf(org, "group", n.group) # {}}}

ListedRows(t, org) ==
  CASE t = "users" -> {[id |-> u] : u \in org.users}
    [] t = "groups" -> GroupRows(org)
    [] t = "privileged_users" -> {[id |-> u] : u \in PrivilegedIds(org)}
    [] t = "client_applications" -> org.clients
    [] t = "resource_sets" -> {[id |-> r.set] : r \in org.resources}
    [] t = "custom_roles" -> {[id |-> p.role] : p \in org.permissions}
    [] t = "applications" -> org.apps
    [] t = "api_services" -> org.services
    [] t = "devices" -> org.devices
    [] t = "policies" -> org.policies
    [] t = "identity_providers" -> {[id |-> i] : i \in org.idps}
    [] t = "authorization_servers" -> {[id |-> s] : s \in org.servers}

\* Wrong: one member is taken for none (GrantsAreFound).
HasSeveralMembers(group) == group.users > 1

\* The members of a group are listed if the group's listing counted any.
HasMembers(group) == group.users > 0

Memberships(group, org) ==
  IF HasMembers(group) THEN {m \in org.members : m.group = group.id} ELSE {}

\* Of apps that authenticate with a client secret; others have none in the org.
Secrets(app, org) == {s \in org.secrets : s.app = app.id}

Resources(set, org) == {r \in org.resources : r.set = set.id}

\* One per role and member of the set; a member without an assignee is none.
Bindings(set, org) == {b \in org.bindings : b.set = set.id}

PermissionsOf(role, org) == {q \in org.permissions : q.role = role.id}

\* What the transformer yields for a record p of its parent.
ChildRows(t, p, org) ==
  CASE t = "group_memberships" -> Memberships(p, org)
    [] t \in {"application_secrets", "api_service_secrets"} -> Secrets(p, org)
    [] t = "resources" -> Resources(p, org)
    [] t = "resource_set_role_assignments" -> Bindings(p, org)
    [] t = "custom_role_permissions" -> PermissionsOf(p, org)

RoleHolder ==
  [user_role_assignments |-> "user", group_role_assignments |-> "group",
   client_role_assignments |-> "client"]

\* A user is asked for, a group if it has privileges, a client if it is a service.
IsAsked(t, p) ==
  CASE t = "user_role_assignments" -> TRUE
    [] t = "group_role_assignments" -> p.admin
    [] t = "client_role_assignments" -> p.service

-----------------------------------------------------------------------------
(* The ids that an org may have. *)

Orgs == UNION {ToSet(h) : h \in Histories}
Ids(things) == {x.id : x \in things}

UserIds == UNION {v.users \cup PrivilegedIds(v) \cup Ids(v.members) : v \in Orgs}
GroupIds == UNION {v.groups : v \in Orgs}
AppIds == UNION {Ids(v.apps) \cup Ids(v.clients) : v \in Orgs}

\* By the kinds of the nodes; of the role and the set of an assignment, too.
IdsOfKind ==
  [ORG |-> {OrgId}, USER |-> UserIds, GROUP |-> GroupIds, APPLICATION |-> AppIds,
   INTEGRATION |-> UNION {Ids(v.services) : v \in Orgs},
   DEVICE |-> UNION {{DeviceGraphId(d) : d \in v.devices} : v \in Orgs},
   POLICY |-> UNION {Ids(v.policies) : v \in Orgs},
   IDP |-> UNION {v.idps : v \in Orgs},
   AUTH_SERVER |-> UNION {v.servers : v \in Orgs},
   CLIENT_SECRET |-> UNION {Ids(v.secrets) : v \in Orgs},
   CUSTOM_ROLE |-> UNION {{p.role : p \in v.permissions}
                            \cup {a.role : a \in {b \in v.roles : b.type = "CUSTOM"}} :
                            v \in Orgs},
   RESOURCE_SET |-> UNION {{r.set : r \in v.resources} \cup {b.set : b \in v.bindings} :
                             v \in Orgs}]

\* Okta's ids are unique; the id of a client is that of its application, and a
\* domain is no id.
ASSUME IdsAssumption ==
  /\ \A h \in Histories : h \in Seq(Orgs) /\ h # <<>>
  /\ \A k, l \in DOMAIN IdsOfKind : k # l => IdsOfKind[k] \cap IdsOfKind[l] = {}
  /\ TenantDomain \notin UserIds \cup GroupIds \cup AppIds

ASSUME BoundAssumption == MaxFaults \in Nat

\* Assignments are finitely many, those of a holder have different ids, and of
\* the clients, service clients may have some.
ASSUME RolesAssumption ==
  /\ \A h \in Histories : IsFiniteSet(UNION {v.roles : v \in ToSet(h)})
  /\ \A v \in Orgs : \A a \in v.roles :
       /\ \A b \in v.roles : a.id = b.id /\ a.source = b.source => a = b
       /\ a.from = "client" => \E c \in v.clients : c.id = a.source /\ c.service

\* An org refers to what it has, and gives a URL or an ORN of the members of a
\* resource set.  "The built-in Everyone group always contains all users"
\* (descriptions/nodes/Okta_Group.md): a group always has members.
ASSUME OrgsAssumption ==
  /\ \A v \in Orgs :
       /\ IsFiniteSet(v.members)
       /\ \A m \in v.members : m.group \in v.groups
       /\ \A a \in v.roles : a.from = "group" => a.source \in v.groups
       /\ \A p \in v.permissions : p.role # None
       /\ \A r \in v.resources : r.url # NoUrl \/ r.orn # <<>>
  /\ \A h \in Histories : \E everyone \in GroupIds :
       \A v \in ToSet(h) : \E m \in v.members : m.group = everyone

\* Okta names the members of resource sets in one of its forms.
ASSUME NamesAssumption == \A v \in Orgs : \A r \in v.resources : IsNamed(r)

-----------------------------------------------------------------------------
(* The collection. *)

Versions == 1 .. Len(history)
Later == asOf .. Len(history)
Full(t, rows) == db' = [db EXCEPT ![t] = rows]

\* An error ends the rows of a resource: OpenHound's wrapper lets the run go on
\* with the rows before it, or not.
Partial(t, rows) ==
  /\ faults < MaxFaults
  /\ faults' = faults + 1
  /\ lost' = lost \cup {t}
  /\ \E kept \in SUBSET rows : Full(t, kept)

Collected(t, rows) == (Full(t, rows) /\ UNCHANGED <<faults, lost>>) \/ Partial(t, rows)

Due(t) ==
  /\ stage = "collect"
  /\ turn < Len(Order) /\ Order[turn + 1] = t
  /\ turn' = turn + 1
  /\ UNCHANGED <<history, stage, graph>>

\* A listing; that of the applications has no wrapper, and fails the run.
CollectListing(t) ==
  /\ Due(t)
  /\ \E v \in Versions :
       /\ asOf' = v
       /\ \/ Full(t, ListedRows(t, history[v])) /\ UNCHANGED <<faults, lost>>
          \/ t # "applications" /\ Partial(t, ListedRows(t, history[v]))

\* A transformer makes its requests for each record of the parent.
CollectChildren(t) ==
  /\ Due(t)
  /\ \E v \in [db[Parent[t]] -> Later] :
       Collected(t, UNION {ChildRows(t, p, history[v[p]]) : p \in DOMAIN v})
  /\ UNCHANGED asOf

\* _role_assignment_scope: the targets are a request of their own; an error is
\* logged, and the row says nothing of them.
Unfetched == [fetched |-> FALSE, targets |-> {}]
IsScoped(a) == a.type = "APP_ADMIN" \/ a.type \in GroupTargetedTypes

Fetch(a, org, targets(_)) ==
  IF \E b \in org.roles : b.id = a.id /\ b.source = a.source
    THEN [fetched |-> TRUE,
          targets |-> UNION {targets(b) : b \in {c \in org.roles :
                                                  c.id = a.id /\ c.source = a.source}}]
    ELSE Unfetched

Apps(a) == a.appTargets
Groups(a) == a.groupTargets

RoleRow(a, appScope, groupScope) ==
  [id |-> a.id, from |-> a.from, source |-> a.source, status |-> a.status,
   assignmentType |-> a.assignmentType, type |-> a.type, role |-> a.role,
   appScope |-> appScope, groupScope |-> groupScope]

\* Seen by a request for the scope that finds the org so, or fails.
ScopedRow(a, org, failed) ==
  RoleRow(a,
          IF a.type = "APP_ADMIN" /\ ~failed THEN Fetch(a, org, Apps) ELSE Unfetched,
          IF a.type \in GroupTargetedTypes /\ ~failed THEN Fetch(a, org, Groups)
                                                      ELSE Unfetched)

\* The direct active assignments of the holders that are asked for.
AssignmentsSeen(t, v) ==
  UNION {{a \in RolesOf(history[v[p]], RoleHolder[t], p.id) : IsDirectActive(a)} :
           p \in {q \in DOMAIN v : IsAsked(t, q)}}

\* user_, group_ and client_role_assignments.  The rows of one user are lost
\* without the wrapper: the transformer logs the error itself.
CollectAssignments(t) ==
  /\ Due(t)
  /\ \E v \in [db[Parent[t]] -> Later] :
       LET seen == AssignmentsSeen(t, v)
           scoped == {a \in seen : IsScoped(a)}
       IN \/ \E w \in [seen -> Later], failed \in SUBSET scoped :
              /\ \A a \in seen : a \notin scoped => w[a] = Len(history)
              /\ \A a \in seen, p \in DOMAIN v : a.source = p.id => w[a] >= v[p]
              /\ faults + Cardinality(failed) <= MaxFaults
              /\ faults' = faults + Cardinality(failed)
              /\ Full(t, {ScopedRow(a, history[w[a]], a \in failed) : a \in seen})
              /\ UNCHANGED lost
          \/ Partial(t, {ScopedRow(a, Last(history), FALSE) : a \in seen})
  /\ UNCHANGED asOf

\* A request exhausts its retries, or the wrapper gives up.
CollectionFails ==
  /\ stage = "collect"
  /\ faults < MaxFaults
  /\ faults' = faults + 1
  /\ stage' = "failed"
  /\ UNCHANGED <<history, turn, asOf, lost, graph, db>>

-----------------------------------------------------------------------------
(* The transforms and the conversion. *)

Principals(type, ids) == {[id |-> id, type |-> type] : id \in ids}

\* insert_principals_with_admin_roles; a table that is not there adds nothing.
PrincipalsWithAdminRoles ==
  Principals("user", {r.id : r \in db["privileged_users"]})
    \cup {[id |-> r.source, type |-> r.from] :
            r \in {a \in UNION {db[t] : t \in RoleTables} :
                     a.status = "ACTIVE" /\ a.assignmentType = DirectType(a.from)}}

NonAdmins(t, type) ==
  {[id |-> r.id] : r \in {s \in db[t] : [id |-> s.id, type |-> type]
                                          \notin PrincipalsWithAdminRoles}}

\* transforms; they need the tables that they select from.
Preprocess ==
  /\ stage = "collect" /\ turn = Len(Order)
  /\ IF \A t \in {"users", "groups", "applications"} : TableExists(t)
       THEN /\ stage' = "convert"
            /\ db' = [db EXCEPT !["principals_with_admin_roles"] = PrincipalsWithAdminRoles,
                                !["non_admin_users"] = NonAdmins("users", "user"),
                                !["non_admin_groups"] = NonAdmins("groups", "group"),
                                !["non_admin_apps"] = NonAdmins("applications", "client")]
       ELSE stage' = "failed" /\ UNCHANGED db
  /\ UNCHANGED <<history, turn, asOf, faults, lost, graph>>

RowsToConvert == UNION {{t} \X db[t] : t \in Converted}

\* Every row is converted on its own; if one raises, the conversion goes on
\* without the rest of its edges, or it fails.
Convert ==
  /\ stage = "convert"
  /\ graph' = UNION {EdgesOf(x[1], x[2]) : x \in RowsToConvert}
  /\ \/ stage' = "done"
     \/ (\E x \in RowsToConvert : RowRaises(x[1], x[2])) /\ stage' = "failed"
  /\ UNCHANGED <<history, turn, asOf, faults, lost, db>>

Ended == stage \in {"done", "failed"} /\ UNCHANGED vars

Next ==
  \/ \E t \in Listings : CollectListing(t)
  \/ \E t \in DOMAIN Parent \ RoleTables : CollectChildren(t)
  \/ \E t \in RoleTables : CollectAssignments(t)
  \/ CollectionFails
  \/ Preprocess
  \/ Convert
  \/ Ended

Spec == Init /\ [][Next]_vars

-----------------------------------------------------------------------------
(* Properties. *)

Okta == INSTANCE Entitlements
          WITH SupportedRoles <- SupportedTypes,
               Labels <- [ADD_MEMBER |-> AddMemberPermissions,
                          MANAGE_APP |-> ManageAppPermissions,
                          RESET_FACTORS |-> ResetFactorsPermissions,
                          RESET_PASSWORD |-> ResetPasswordPermissions,
                          READ_CLIENT_SECRET |-> ReadSecretPermissions],
               OrgNode <- OrgId, GraphIdOf <- DeviceGraphId

TypeOK ==
  /\ turn \in 0 .. Len(Order)
  /\ asOf \in Versions
  /\ faults \in 0 .. MaxFaults
  /\ lost \subseteq ToSet(Order)
  /\ stage \in {"collect", "convert", "done", "failed"}
  /\ \A e \in graph : e.kind \in EdgeKinds
  /\ DOMAIN db = Stored

SeenVersions == ToSet(history)
PermissionEdges == {e \in graph : e.kind \in PermissionKinds}
Permissions == {<<e.start[1], <<e.kind, e.end[1]>>>> : e \in PermissionEdges}

\* The tables from which administrators and scopes are told; a row that
\* OpenHound's wrapper drops from them is not noticed by the conversion.
Guarding ==
  {"groups", "client_applications", "group_role_assignments",
   "client_role_assignments", "privileged_users"}

\* "It manages all users and groups without role assignments"
\* (role_assignment.py:411): within one graph, nobody who has an assignment is
\* the target of an administrator, whatever the requests saw and lost.
AdminsAreNoTargets ==
  \A e \in PermissionEdges, h \in graph :
    h.kind = "HAS_ROLE_ASSIGNMENT" /\ e.kind # "READ_CLIENT_SECRET" => e.end # h.start

\* No assignment is limited to groups of which none was collected: its scope
\* would count as none (ScopesAreNotWidened).
ScopesAreSeen ==
  \A t \in RoleTables : \A a \in db[t] :
    a.groupScope.targets # {} => ScopedGroupIds(a) # {}

\* Every permission in the graph is one that facts of the org, each of which
\* held at some time of the collection, entitle to: also if the scope of an
\* assignment, or the roles of a user, could not be fetched.
OnlyWhatOktaGrants ==
  stage = "done" /\ lost \cap Guarding = {} /\ ScopesAreSeen =>
    Permissions \subseteq Okta!Grants(Okta!Ever(SeenVersions))

\* Every permission that the org grants all the time is in the graph, if no
\* request has failed.
GrantsAreFound ==
  stage = "done" /\ faults = 0 =>
    Okta!Grants(Okta!Always(SeenVersions)) \subseteq Permissions

\* "SCOPED_TO" and "RESOURCE_SET_CONTAINS" explain the permissions of a custom
\* role (Okta_ResourceSetContains.md): an assignment of the holder is scoped to
\* a resource set that contains the target, or the app whose secret it is.  A
\* secret may also be read with a built-in role that the holder is shown with.
CustomKinds ==
  {"ADD_MEMBER", "MANAGE_APP", "READ_CLIENT_SECRET", "RESET_FACTORS", "RESET_PASSWORD"}
SecretReaders == {"API_ACCESS_MANAGEMENT_ADMIN", "APP_ADMIN", "READ_ONLY_ADMIN"}
Within(kind) == {e \in graph : e.kind = kind}
Containers == Within("RESOURCE_SET_CONTAINS") \cup Within("RESOURCE_SET_CONTAINS_INDIRECT")
InReach(e) ==
  IF e.kind # "READ_CLIENT_SECRET" THEN {e.end}
  ELSE {Node(app) : app \in {i \in AllIds("applications") : e.end[1] \in SecretsOf(i)}}

IsOfBuiltInRole(e) ==
  /\ e.kind = "READ_CLIENT_SECRET"
  /\ \E r \in Within("HAS_ROLE"), type \in SecretReaders :
       r.start = e.start /\ r.end = BuiltInRoleNode(type)

CustomRolesAreExplained ==
  \A e \in {f \in PermissionEdges : f.kind \in CustomKinds /\ ~IsOfBuiltInRole(f)} :
    \E h \in Within("HAS_ROLE_ASSIGNMENT"), s \in Within("SCOPED_TO"), c \in Containers :
      /\ h.start = e.start /\ s.start = h.end
      /\ c.start = s.end /\ c.end \in InReach(e)

\* "preferred whenever a URL is available" (resolve_resource_orn): where a
\* resource has both, its URL and its ORN stand for the same things.
UrlAndOrnAgree ==
  \A r \in db["resources"] :
    r.url # NoUrl /\ r.orn # <<>> => ResolveUrl(r.url) = ResolveOrn(r.orn)

\* The kinds of the nodes with an id, by the table that it comes from.
KindTables ==
  [USER |-> {"users"}, GROUP |-> {"groups"}, APPLICATION |-> {"applications"},
   INTEGRATION |-> {"api_services"}, DEVICE |-> {"devices"}, POLICY |-> {"policies"},
   AUTH_SERVER |-> {"authorization_servers"}, IDP |-> {"identity_providers"},
   CLIENT_SECRET |-> {"application_secrets", "api_service_secrets"},
   CUSTOM_ROLE |-> {"custom_roles"}]

AssignmentNodes ==
  UNION {{AssignmentNode(a.id, a.source) : a \in db[t]} : t \in RoleTables}

KindsOf(node) ==
  {k \in NodeKinds :
     CASE k \in DOMAIN KindTables
            -> Len(node) = 1 /\ \E t \in KindTables[k] : node[1] \in AllIds(t)
       [] k = "ORG" -> node = Node(OrgId)
       [] k = "ROLE" -> node \in {BuiltInRoleNode(type) : type \in BuiltInRoles}
       [] k = "ROLE_ASSIGNMENT" -> node \in AssignmentNodes
       [] k = "RESOURCE_SET"
            -> node \in {ResourceSetNode(s.id) : s \in db["resource_sets"]}}

Declarations ==
  UNION {UserAssignmentDefs, GroupAssignmentDefs, ClientAssignmentDefs,
         ResourceDefs, BindingDefs}

\* The permissions of custom roles that no asset declares.
Undeclared == {"MANAGE_APP", "RESET_FACTORS", "RESET_PASSWORD"}

\* "Keep EdgeDef(...) declarations aligned with the asset class that actually
\* emits those edges" (.agents/standards/openhound.md): whatever is collected
\* and lost, no other edge joins kinds that no asset declares.
EdgesAreDeclared ==
  \A e \in graph :
    e.kind \notin Undeclared =>
      \A start \in KindsOf(e.start), end \in KindsOf(e.end) :
        <<e.kind, start, end>> \in Declarations

\* The state is typed and the graph is one that the assets declare.
GraphIsWellFormed == TypeOK /\ EdgesAreDeclared

\* A role that is limited to groups reaches the members of these only
\* (Okta_HelpDeskAdmin.md, "within their assigned scope").
ScopesAreNotWidened ==
  \A e \in PermissionEdges :
    e.kind \in {"GROUP_MEMBERSHIP_ADMIN", "HELPDESK_ADMIN", "GROUP_ADMIN"} =>
      \E v \in SeenVersions : \E a \in v.roles :
        /\ a.source = e.start[1]
        /\ \/ a.groupTargets = {}
           \/ e.end[1] \in a.groupTargets
           \/ \E w \in SeenVersions : \E m \in w.members :
                m.id = e.end[1] /\ m.group \in a.groupTargets
=============================================================================
