------------------------------- MODULE Lookup -------------------------------
(***************************************************************************)
(* OktaLookup (lookup.py): what the conversion asks of the collected        *)
(* tables.  A table exists if its resource has yielded a row; the lookups   *)
(* that check this find nothing in a table that does not.  Results are      *)
(* cached, over tables that no longer change.                               *)
(*                                                                         *)
(* A URL is the segments of its path after /api/v1 and the one parameter of *)
(* its query that counts, an ORN the sequence of its parts.                 *)
(***************************************************************************)
EXTENDS SequencesExt

CONSTANT TenantDomain  \* of the org: part of the ids of devices and resource sets

VARIABLE db  \* the rows of each table

None == ""
NoUrl == [path |-> <<>>, query |-> <<>>]

\* preprocessing_resources: the tables, as far as roles need them.
Tables ==
  {"users", "groups", "group_memberships", "applications", "api_services",
   "application_secrets", "api_service_secrets", "devices", "authorization_servers",
   "identity_providers", "policies", "resources", "resource_set_role_assignments",
   "privileged_users", "user_role_assignments", "group_role_assignments",
   "client_role_assignments", "custom_role_permissions"}

RoleTables ==
  {"user_role_assignments", "group_role_assignments", "client_role_assignments"}

\* The tables that the transforms add.
DerivedTables ==
  {"principals_with_admin_roles", "non_admin_users", "non_admin_groups",
   "non_admin_apps"}

TableExists(t) == db[t] # {}

-----------------------------------------------------------------------------
(* Ids of a table. *)

DeviceGraphId(device) ==
  IF device.udid # None /\ TenantDomain # None THEN device.udid ELSE device.id

GraphId(t, row) == IF t = "devices" THEN DeviceGraphId(row) ELSE row.id

AllIds(t) == {GraphId(t, row) : row \in db[t]}

ExistingIds(t, id) == {GraphId(t, row) : row \in {r \in db[t] : r.id = id}}

AppsAndIntegrationsByType(type) ==
  {row.id : row \in {r \in db["applications"] : r.name = type}}
    \cup {row.id : row \in {r \in db["api_services"] : r.type = type}}

PoliciesOfType(type) == {row.id : row \in {r \in db["policies"] : r.type = type}}

SecretsOf(app) ==
  {row.id : row \in {r \in db["application_secrets"] \cup db["api_service_secrets"] :
                       r.app = app}}

GroupUserIds(groups) ==
  {row.id : row \in {r \in db["group_memberships"] : r.group \in groups}}

-----------------------------------------------------------------------------
(* Roles and resource sets. *)

HasRolePermission(role, labels) ==
  \E row \in db["custom_role_permissions"] : row.role = role /\ row.label \in labels

RoleAssignmentExists(id, assignee) ==
  \E t \in RoleTables : \E row \in db[t] : row.id = id /\ row.source = assignee

RoleAssignmentResourceSetIds(id, assignee) ==
  {row.set : row \in {r \in db["resource_set_role_assignments"] :
                        r.id = id /\ r.assignee = assignee}}

\* The group whose members, not itself, a resource refers to.
ResourceMemberGroupId(url, orn) ==
  IF url # NoUrl
    THEN IF Len(url.path) = 3 /\ url.path[1] = "groups" /\ url.path[3] = "users"
           THEN url.path[2] ELSE None
    ELSE IF Len(orn) >= 3 /\ Last(orn) = "contained_resources"
               /\ orn[Len(orn) - 2] = "groups"
           THEN orn[Len(orn) - 1] ELSE None

UrlTables ==
  [users |-> {"users"}, groups |-> {"groups"},
   apps |-> {"applications", "api_services"}, devices |-> {"devices"},
   authorizationServers |-> {"authorization_servers"},
   idps |-> {"identity_providers"}, policies |-> {"policies"}]

ResolveUrl(url) ==
  LET path == url.path
      tables == IF path[1] \in DOMAIN UrlTables THEN UrlTables[path[1]] ELSE {}
      asked(key) == Len(url.query) = 2 /\ url.query[1] = key
  IN IF path[1] = "groups" /\ Len(path) > 1 /\ Last(path) = "users"
       THEN GroupUserIds({path[Len(path) - 1]})
     ELSE IF path = <<"apps">> /\ url.query # <<>>
       THEN IF asked("filter") THEN AppsAndIntegrationsByType(url.query[2]) ELSE {}
     ELSE IF path = <<"policies">> /\ asked("type") THEN PoliciesOfType(url.query[2])
     ELSE IF path[1] = "policies" /\ Len(path) > 1 THEN PoliciesOfType(Last(path))
     ELSE IF Len(path) = 1 THEN UNION {AllIds(t) : t \in tables}
     ELSE UNION {ExistingIds(t, Last(path)) : t \in tables}

\* Wrong: an ORN of all apps is only one of applications (UrlAndOrnAgree).
OrnTablesOfApplications ==
  [users |-> {"users"}, groups |-> {"groups"}, apps |-> {"applications"},
   devices |-> {"devices"}, authorization_servers |-> {"authorization_servers"},
   identity_provider |-> {"identity_providers"}, policies |-> {"policies"}]

OrnTables ==
  [users |-> {"users"}, groups |-> {"groups"},
   apps |-> {"applications", "api_services"}, devices |-> {"devices"},
   authorization_servers |-> {"authorization_servers"},
   identity_provider |-> {"identity_providers"}, policies |-> {"policies"}]

\* The kinds of single objects, in the order in which an ORN is searched.
OrnOrder ==
  <<"users", "groups", "apps", "devices", "authorization_servers",
    "identity_provider">>

\* Those that an ORN names before its last part, and the first of them.
Named(orn) == {k \in DOMAIN OrnOrder : \E i \in 1 .. Len(orn) - 1 : orn[i] = OrnOrder[k]}
FirstNamed(orn) == {k \in Named(orn) : \A j \in Named(orn) : k <= j}
TablesNamed(orn) == UNION {OrnTables[OrnOrder[k]] : k \in FirstNamed(orn)}

ResolveOrn(orn) ==
  LET last == Last(orn)
  IN IF orn = <<>> THEN {}
     ELSE IF ResourceMemberGroupId(NoUrl, orn) # None
       THEN GroupUserIds({ResourceMemberGroupId(NoUrl, orn)})
     ELSE IF last \in DOMAIN OrnTables THEN UNION {AllIds(t) : t \in OrnTables[last]}
     ELSE IF Len(orn) = 6 /\ orn[5] = "apps" THEN AppsAndIntegrationsByType(last)
     ELSE IF Len(orn) = 6 /\ orn[5] = "policies" THEN PoliciesOfType(last)
     ELSE UNION {ExistingIds(t, last) : t \in TablesNamed(orn)}

\* The URL of a resource counts, and its ORN only if there is none.
Resolve(resource) ==
  IF resource.url # NoUrl THEN ResolveUrl(resource.url) ELSE ResolveOrn(resource.orn)

ResourceSetMemberIds(set) ==
  UNION {Resolve(r) : r \in {s \in db["resources"] : s.set = set}}

\* The members of resource sets that are in a table.
ResourceSetIdsInTable(sets, t) ==
  AllIds(t) \cap UNION {ResourceSetMemberIds(set) : set \in sets}
=============================================================================
