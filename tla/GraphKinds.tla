----------------------------- MODULE GraphKinds -----------------------------
(***************************************************************************)
(* The vocabulary of the graph (kinds/nodes.py, kinds/edges.py), as far as  *)
(* roles and resource sets use it, and the edges that their assets declare  *)
(* with EdgeDef: sets of <<kind, kind of the start, kind of the end>>.      *)
(***************************************************************************)

Holders == {"USER", "GROUP", "APPLICATION"}

ResourceKinds ==
  {"USER", "GROUP", "APPLICATION", "INTEGRATION", "DEVICE", "AUTH_SERVER", "IDP",
   "POLICY"}

NodeKinds ==
  ResourceKinds \cup {"ORG", "ROLE_ASSIGNMENT", "ROLE", "CUSTOM_ROLE",
                      "RESOURCE_SET", "CLIENT_SECRET"}

\* The edges of an administrator to what the role lets them change or read.
PermissionKinds ==
  {"ADD_MEMBER", "APP_ADMIN", "GROUP_ADMIN", "GROUP_MEMBERSHIP_ADMIN",
   "HELPDESK_ADMIN", "MANAGE_APP", "MOBILE_ADMIN", "ORG_ADMIN",
   "READ_CLIENT_SECRET", "RESET_FACTORS", "RESET_PASSWORD", "SUPER_ADMIN"}

EdgeKinds ==
  PermissionKinds \cup {"CONTAINS", "HAS_ROLE", "HAS_ROLE_ASSIGNMENT", "SCOPED_TO",
                        "RESOURCE_SET_CONTAINS", "RESOURCE_SET_CONTAINS_INDIRECT",
                        "RESOURCE_SET_CONTAINS_MEMBERS_OF"}

Declare(kind, starts, ends) == {kind} \X starts \X ends

-----------------------------------------------------------------------------
\* What an assignment of one of these holders has, in each of the assets.
AssignmentDefs(holders) ==
  UNION {Declare("CONTAINS", {"ORG"}, {"ROLE_ASSIGNMENT"}),
         Declare("HAS_ROLE_ASSIGNMENT", holders, {"ROLE_ASSIGNMENT"}),
         Declare("HAS_ROLE", holders, {"ROLE", "CUSTOM_ROLE"})}

\* The permissions of the group and application administrators.
TargetDefs(holders) ==
  UNION {Declare("ADD_MEMBER", holders, {"GROUP"}),
         Declare("GROUP_ADMIN", holders, {"GROUP", "USER"}),
         Declare("APP_ADMIN", holders, {"APPLICATION", "INTEGRATION"})}

\* The permissions of the roles that name their own kind of target.
RoleDefs(holders) ==
  UNION {Declare("GROUP_MEMBERSHIP_ADMIN", holders, {"GROUP"}),
         Declare("HELPDESK_ADMIN", holders, {"USER"}),
         Declare("MOBILE_ADMIN", holders, {"DEVICE"})}

\* The permissions that reach the whole org.
OrgDefs(holders) ==
  UNION {Declare("ORG_ADMIN", holders, {"USER", "GROUP", "DEVICE"}),
         Declare("SUPER_ADMIN", holders, {"ORG"})}

ScopeDefs ==
  Declare("SCOPED_TO", {"ROLE_ASSIGNMENT"},
          {"GROUP", "ORG", "APPLICATION", "INTEGRATION"})

\* user_role_assignment.py: the asset also stands for the assignments of
\* groups, and declares the permissions of all three holders.
UserHeldDefs == AssignmentDefs({"USER", "GROUP"}) \cup TargetDefs(Holders)
UserRoleDefs ==
  RoleDefs(Holders) \cup Declare("READ_CLIENT_SECRET", {"USER"}, {"CLIENT_SECRET"})
UserOrgDefs == OrgDefs(Holders) \cup ScopeDefs
UserAssignmentDefs == UNION {UserHeldDefs, UserRoleDefs, UserOrgDefs}

\* The declarations of group_role_assignment.py and client_role_assignment.py,
\* with the kind of their holder.
SingleHolderDefs(holder) ==
  UNION {AssignmentDefs({holder}), TargetDefs({holder}), RoleDefs({holder}),
         OrgDefs({holder}), ScopeDefs,
         Declare("READ_CLIENT_SECRET", {holder}, {"CLIENT_SECRET"})}
GroupAssignmentDefs == SingleHolderDefs("GROUP")
ClientAssignmentDefs == SingleHolderDefs("APPLICATION")

ResourceDefs ==
  UNION {Declare("RESOURCE_SET_CONTAINS", {"RESOURCE_SET"}, ResourceKinds),
         Declare("RESOURCE_SET_CONTAINS_MEMBERS_OF", {"RESOURCE_SET"}, {"GROUP"}),
         Declare("RESOURCE_SET_CONTAINS_INDIRECT", {"RESOURCE_SET"}, {"USER"})}

BindingDefs == Declare("SCOPED_TO", {"ROLE_ASSIGNMENT"}, {"RESOURCE_SET"})
=============================================================================
