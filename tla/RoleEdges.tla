----------------------------- MODULE RoleEdges -----------------------------
(***************************************************************************)
(* The edges of a role assignment (RoleAssignment in role_assignment.py),   *)
(* of a resource and of a resource set's binding.  The generators of an     *)
(* assignment run in a fixed order; one that reads a table that does not    *)
(* exist raises, and the edges of it and of those after it are lost.        *)
(*                                                                         *)
(* The target list of an assignment is a record: whether it was fetched     *)
(* (scope_groups, scope_apps are None otherwise) and what it holds.  The id *)
(* of a node is a tuple: of one id, or of the parts it is put together of.  *)
(***************************************************************************)
EXTENDS GraphKinds, Lookup

CONSTANT OrgId  \* org_id: of the organization

BuiltInRoles ==
  {"API_ACCESS_MANAGEMENT_ADMIN", "APP_ADMIN", "GROUP_MEMBERSHIP_ADMIN",
   "HELP_DESK_ADMIN", "MOBILE_ADMIN", "ORG_ADMIN", "READ_ONLY_ADMIN",
   "REPORT_ADMIN", "SUPER_ADMIN", "USER_ADMIN", "WORKFLOWS_ADMIN"}

SupportedTypes == BuiltInRoles \cup {"CUSTOM"}
GroupTargetedTypes == {"GROUP_MEMBERSHIP_ADMIN", "HELP_DESK_ADMIN", "USER_ADMIN"}
ResourceSetScopedTypes == {"WORKFLOWS_ADMIN"}

DirectType(from) ==
  CASE from = "user" -> "USER" [] from = "group" -> "GROUP"
    [] from = "client" -> "CLIENT"

AddMemberPermissions == {"okta.groups.manage", "okta.groups.members.manage"}
ManageAppPermissions == {"okta.apps.manage"}
ReadSecretPermissions == {"okta.apps.clientCredentials.read"}
ResetFactorsPermissions ==
  {"okta.users.credentials.resetFactors", "okta.users.credentials.manage",
   "okta.users.manage"}
ResetPasswordPermissions ==
  {"okta.users.credentials.resetPassword", "okta.users.credentials.manage",
   "okta.users.credentials.manageTemporaryAccessCode",
   "okta.users.credentials.expirePassword", "okta.users.manage"}

IsDirectActive(a) ==
  /\ a.status = "ACTIVE"
  /\ a.assignmentType = DirectType(a.from)
  /\ a.type \in SupportedTypes

-----------------------------------------------------------------------------
(* Nodes and edges. *)

Node(id) == <<id>>
AssignmentNode(id, source) == <<id, source>>
BuiltInRoleNode(type) == <<type, TenantDomain>>
ResourceSetNode(set) ==
  IF set = "WORKFLOWS_IAM_POLICY" /\ TenantDomain # None
    THEN <<set, TenantDomain>> ELSE Node(set)

Edge(kind, start, end) == [kind |-> kind, start |-> start, end |-> end]

\* Edges of an assignment's holder, or of the assignment, to some ids.
FromHolder(a, kind, ids) == {Edge(kind, Node(a.source), Node(id)) : id \in ids}
ScopedTo(a, ids) ==
  {Edge("SCOPED_TO", AssignmentNode(a.id, a.source), Node(id)) : id \in ids}

-----------------------------------------------------------------------------
(* Targets. *)

ScopedGroupIds(a) == {g \in a.groupScope.targets : g \in AllIds("groups")}

\* A target with an id is that application if it was collected; one without
\* stands for all the applications and integrations of its name.
TargetApps(target) ==
  IF target.id # None THEN {id \in {target.id} : id \in AllIds("applications")}
                      ELSE AppsAndIntegrationsByType(target.name)

ScopedAppIds(a) ==
  UNION {TargetApps(t) : t \in {s \in a.appScope.targets : s.status = "ACTIVE"}}

\* Wrong: administrators are not left out (AdminsAreNoTargets).
PermissionGroupIdsAll(a) ==
  IF ~a.groupScope.fetched THEN {}
  ELSE IF ScopedGroupIds(a) # {} THEN ScopedGroupIds(a) ELSE AllIds("groups")

\* A scope of which no group was collected counts as none at all.
PermissionGroupIds(a) ==
  IF ~a.groupScope.fetched THEN {}
  ELSE (IF ScopedGroupIds(a) # {} THEN ScopedGroupIds(a) ELSE AllIds("groups"))
         \cap AllIds("non_admin_groups")

\* Wrong: a scope that could not be fetched is taken for none
\* (OnlyWhatOktaGrants).
PermissionUserIdsUnfetched(a) ==
  (IF ScopedGroupIds(a) # {} THEN GroupUserIds(ScopedGroupIds(a)) ELSE AllIds("users"))
    \cap AllIds("non_admin_users")

PermissionUserIds(a) ==
  IF ~a.groupScope.fetched THEN {}
  ELSE (IF ScopedGroupIds(a) # {} THEN GroupUserIds(ScopedGroupIds(a))
                                  ELSE AllIds("users"))
         \cap AllIds("non_admin_users")

PermissionAppIds(a) ==
  IF ~a.appScope.fetched THEN {}
  ELSE (IF a.appScope.targets = {} THEN AllIds("applications") \cup AllIds("api_services")
                                   ELSE ScopedAppIds(a))
         \cap (AllIds("non_admin_apps") \cup AllIds("api_services"))

BoundSets(a) == RoleAssignmentResourceSetIds(a.id, a.source)
BoundApplicationIds(a) == ResourceSetIdsInTable(BoundSets(a), "applications")
BoundPlainApplicationIds(a) == BoundApplicationIds(a) \cap AllIds("non_admin_apps")
BoundPlainGroupIds(a) ==
  ResourceSetIdsInTable(BoundSets(a), "groups") \cap AllIds("non_admin_groups")
BoundPlainUserIds(a) ==
  ResourceSetIdsInTable(BoundSets(a), "users") \cap AllIds("non_admin_users")

-----------------------------------------------------------------------------
(* What a generator yields, and the tables without which it raises. *)

Nothing == [needs |-> {}, edges |-> {}]
Yields(edges) == [needs |-> {}, edges |-> edges]
YieldsFor(a, type, edges) == IF a.type = type THEN Yields(edges) ELSE Nothing

\* The resources of a bound set that list the members of a group need these.
MembersNeed(a) ==
  IF \E r \in db["resources"] :
       r.set \in BoundSets(a) /\ ResourceMemberGroupId(r.url, r.orn) # None
    THEN {"group_memberships"} ELSE {}

ScopedUsersNeed(a) ==
  IF a.groupScope.fetched /\ ScopedGroupIds(a) # {} THEN {"group_memberships"} ELSE {}

\* A generator of the permissions of a custom role, over its resource sets.
Custom(a, permissions, edges) ==
  IF a.type # "CUSTOM" \/ a.role = None THEN Nothing
  ELSE IF HasRolePermission(a.role, permissions)
    THEN [needs |-> {"custom_role_permissions"} \cup MembersNeed(a), edges |-> edges]
    ELSE [needs |-> {"custom_role_permissions"}, edges |-> {}]

OrgContains(a) ==
  Yields({Edge("CONTAINS", Node(OrgId), AssignmentNode(a.id, a.source))})

HasRoleAssignment(a) ==
  Yields({Edge("HAS_ROLE_ASSIGNMENT", Node(a.source), AssignmentNode(a.id, a.source))})

HasRole(a) ==
  Yields({Edge("HAS_ROLE", Node(a.source),
               IF a.type = "CUSTOM" THEN Node(a.role) ELSE BuiltInRoleNode(a.type))})

AppAdmin(a) ==
  YieldsFor(a, "APP_ADMIN", FromHolder(a, "APP_ADMIN", PermissionAppIds(a)))

\* Wrong: the kind of the role, which no edge has (GraphIsWellFormed).
GroupMembershipAdminMisnamed(a) ==
  YieldsFor(a, "GROUP_MEMBERSHIP_ADMIN",
            FromHolder(a, "GROUP_MEMBER_ADMIN", PermissionGroupIds(a)))

GroupMembershipAdmin(a) ==
  YieldsFor(a, "GROUP_MEMBERSHIP_ADMIN",
            FromHolder(a, "GROUP_MEMBERSHIP_ADMIN", PermissionGroupIds(a)))

HelpdeskAdmin(a) ==
  IF a.type # "HELP_DESK_ADMIN" THEN Nothing
  ELSE [needs |-> ScopedUsersNeed(a),
        edges |-> FromHolder(a, "HELPDESK_ADMIN", PermissionUserIds(a))]

MobileAdmin(a) ==
  YieldsFor(a, "MOBILE_ADMIN", FromHolder(a, "MOBILE_ADMIN", AllIds("devices")))

SuperAdmin(a) ==
  YieldsFor(a, "SUPER_ADMIN", FromHolder(a, "SUPER_ADMIN", {OrgId}))

OrgAdmin(a) ==
  YieldsFor(a, "ORG_ADMIN",
            FromHolder(a, "ORG_ADMIN", AllIds("non_admin_users")
                                         \cup AllIds("non_admin_groups")
                                         \cup AllIds("devices")))

UserAdmin(a) ==
  IF a.type # "USER_ADMIN" THEN Nothing
  ELSE [needs |-> ScopedUsersNeed(a),
        edges |-> FromHolder(a, "GROUP_ADMIN",
                             PermissionGroupIds(a) \cup PermissionUserIds(a))]

ManageApp(a) ==
  Custom(a, ManageAppPermissions,
         FromHolder(a, "MANAGE_APP", BoundPlainApplicationIds(a)))

ResetFactors(a) ==
  Custom(a, ResetFactorsPermissions,
         FromHolder(a, "RESET_FACTORS", BoundPlainUserIds(a)))

ResetPassword(a) ==
  Custom(a, ResetPasswordPermissions,
         FromHolder(a, "RESET_PASSWORD", BoundPlainUserIds(a)))

AddMember(a) ==
  Custom(a, AddMemberPermissions, FromHolder(a, "ADD_MEMBER", BoundPlainGroupIds(a)))

ScopedToApps(a) ==
  Yields(IF a.appScope.fetched THEN ScopedTo(a, ScopedAppIds(a)) ELSE {})

ScopedToGroups(a) ==
  Yields(IF a.groupScope.fetched THEN ScopedTo(a, ScopedGroupIds(a)) ELSE {})

\* Not for roles that are scoped otherwise, nor for scopes that are not known
\* or not empty.
IsOrgWide(a) ==
  /\ a.type # "CUSTOM" /\ a.type \notin ResourceSetScopedTypes
  /\ a.type = "APP_ADMIN" => a.appScope.fetched /\ a.appScope.targets = {}
  /\ a.type \in GroupTargetedTypes => a.groupScope.fetched /\ ScopedGroupIds(a) = {}

ScopedToOrg(a) == Yields(IF IsOrgWide(a) THEN ScopedTo(a, {OrgId}) ELSE {})

ReadSecrets(a, apps) ==
  FromHolder(a, "READ_CLIENT_SECRET", UNION {SecretsOf(app) : app \in apps})

ReadClientSecret(a) ==
  CASE a.type = "APP_ADMIN"
         -> Yields(IF ~a.appScope.fetched THEN {}
                   ELSE ReadSecrets(a, IF a.appScope.targets = {}
                                         THEN AllIds("applications")
                                         ELSE ScopedAppIds(a)))
    [] a.type \in {"API_ACCESS_MANAGEMENT_ADMIN", "READ_ONLY_ADMIN"}
         -> Yields(ReadSecrets(a, AllIds("applications")))
    [] OTHER -> Custom(a, ReadSecretPermissions, ReadSecrets(a, BoundApplicationIds(a)))

-----------------------------------------------------------------------------
(* The edges of the three assets, of resources and of bindings. *)

FirstStages(a) ==
  <<OrgContains(a), HasRoleAssignment(a), HasRole(a), AppAdmin(a),
    GroupMembershipAdmin(a), HelpdeskAdmin(a), MobileAdmin(a)>>

LastStages(a) ==
  <<ScopedToApps(a), ScopedToGroups(a), ScopedToOrg(a), ReadClientSecret(a),
    AddMember(a)>>

UserStages(a) ==
  FirstStages(a)
    \o <<SuperAdmin(a), OrgAdmin(a), UserAdmin(a), ManageApp(a), ResetFactors(a),
         ResetPassword(a)>>
    \o LastStages(a)

\* The assignments of groups and of clients.
OtherStages(a) ==
  FirstStages(a)
    \o <<UserAdmin(a), SuperAdmin(a), OrgAdmin(a), ResetPassword(a), ResetFactors(a),
         ManageApp(a)>>
    \o LastStages(a)

Stages(t, a) ==
  CASE ~IsDirectActive(a) -> <<>>
    [] IsDirectActive(a) /\ t = "user_role_assignments" -> UserStages(a)
    [] OTHER -> OtherStages(a)

\* Wrong: of a group's members, only the marker is given (CustomRolesAreExplained).
MarkerStages(r) ==
  LET group == ResourceMemberGroupId(r.url, r.orn)
      set == ResourceSetNode(r.set)
  IN <<Yields(IF group = None
                THEN {Edge("RESOURCE_SET_CONTAINS", set, Node(id)) : id \in Resolve(r)}
                ELSE {Edge("RESOURCE_SET_CONTAINS_MEMBERS_OF", set, Node(group))})>>

ResourceStages(r) ==
  LET group == ResourceMemberGroupId(r.url, r.orn)
      set == ResourceSetNode(r.set)
  IN IF group = None
       THEN <<Yields({Edge("RESOURCE_SET_CONTAINS", set, Node(id)) : id \in Resolve(r)})>>
       ELSE <<Yields({Edge("RESOURCE_SET_CONTAINS_MEMBERS_OF", set, Node(g)) :
                        g \in {group} \cap AllIds("groups")}),
              [needs |-> {"group_memberships"},
               edges |-> {Edge("RESOURCE_SET_CONTAINS_INDIRECT", set, Node(u)) :
                            u \in GroupUserIds({group})}]>>

BindingStages(b) ==
  <<Yields(IF RoleAssignmentExists(b.id, b.assignee)
             THEN {Edge("SCOPED_TO", AssignmentNode(b.id, b.assignee),
                        ResourceSetNode(b.set))}
             ELSE {})>>

StagesOf(t, row) ==
  CASE t \in RoleTables -> Stages(t, row)
    [] t = "resources" -> ResourceStages(row)
    [] t = "resource_set_role_assignments" -> BindingStages(row)

Converted == RoleTables \cup {"resources", "resource_set_role_assignments"}

Raises(stage) == \E t \in stage.needs : ~TableExists(t)

\* What the generators yield until one of them raises.
EdgesOf(t, row) ==
  LET stages == StagesOf(t, row)
  IN UNION {stages[i].edges : i \in {j \in DOMAIN stages :
                                       \A k \in 1 .. j : ~Raises(stages[k])}}

RowRaises(t, row) == \E i \in DOMAIN StagesOf(t, row) : Raises(StagesOf(t, row)[i])
=============================================================================
