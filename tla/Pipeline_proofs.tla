-------------------------- MODULE Pipeline_proofs --------------------------
(***************************************************************************)
(* Proofs about Pipeline, for any org, any history of it and any number of  *)
(* requests that fail.                                                     *)
(*                                                                         *)
(*   Inv      the ids in the tables are of their kinds, and the transforms' *)
(*            tables are those of what they select from: nobody who has an  *)
(*            assignment is the target of an administrator.                 *)
(*   TellInv  every row tells of something that held (SeenInv), what was    *)
(*            collected without a loss is complete (CompleteInv), and a     *)
(*            stage is reached with all its resources behind it (StageInv). *)
(*                                                                         *)
(* Neither speaks of the edges, which one step makes: that these are sound  *)
(* and complete with respect to Entitlements, and join the kinds of nodes   *)
(* that the assets declare, is a matter of the tables that Convert finds,   *)
(* generator by generator, and of what URLs and ORNs mean.                  *)
(*                                                                         *)
(* The theorems, each behind the lemmas that it needs:                      *)
(*   NoAdminIsATarget, CustomRolesHaveReasons   from Inv;                   *)
(*   UrlsAndOrnsAgree                           of what the names mean;     *)
(*   OnlyGrantsAreFound, LastingGrantsAreFound  soundness, completeness;    *)
(*   GraphsAreWellFormed                        the kinds of the nodes.     *)
(***************************************************************************)
EXTENDS Pipeline, SequenceTheorems, FiniteSetTheorems, TLAPS

\* The ids of things that hold no roles.
OtherKinds == {"ORG", "INTEGRATION", "DEVICE", "POLICY", "IDP", "AUTH_SERVER"}
OtherIds == UNION {IdsOfKind[k] : k \in OtherKinds}

HolderIds == [user |-> UserIds, group |-> GroupIds, client |-> AppIds]

\* The rows of a table have ids of its kind.
IsKnown(t, r) ==
  /\ t \in {"users", "privileged_users"} => r.id \in UserIds
  /\ t = "groups" => r.id \in GroupIds
  /\ t \in {"applications", "client_applications"} => r.id \in AppIds
  /\ t = "api_services" => r.id \in OtherIds
  /\ t = "devices" => DeviceGraphId(r) \in OtherIds
  /\ t \in RoleTables => r.from = RoleHolder[t] /\ r.source \in HolderIds[RoleHolder[t]]

HistoryInv == history \in Histories /\ asOf \in Nat \ {0}
TablesAreKnown == DOMAIN db = Stored /\ \A t \in Stored : \A r \in db[t] : IsKnown(t, r)

\* The transforms' tables are those of the tables they were made from.
DerivedInv ==
  stage = "convert" =>
    /\ db["non_admin_users"] = NonAdmins("users", "user")
    /\ db["non_admin_groups"] = NonAdmins("groups", "group")
    /\ db["non_admin_apps"] = NonAdmins("applications", "client")

GraphInv == (stage \in {"collect", "convert"} => graph = {}) /\ AdminsAreNoTargets

Inv == HistoryInv /\ TablesAreKnown /\ DerivedInv /\ GraphInv

-----------------------------------------------------------------------------
(* The collection. *)

LEMMA OthersAre ==
  /\ OrgId \in OtherIds
  /\ \A v \in Orgs : /\ Ids(v.services) \cup Ids(v.policies) \cup v.idps \cup v.servers \subseteq OtherIds
                    /\ \A d \in v.devices : DeviceGraphId(d) \in OtherIds
<1>1. \A k \in OtherKinds : IdsOfKind[k] \subseteq OtherIds
  BY DEF OtherIds
<1>2. /\ IdsOfKind["ORG"] = {OrgId}
      /\ IdsOfKind["INTEGRATION"] = UNION {Ids(v.services) : v \in Orgs}
      /\ IdsOfKind["DEVICE"] = UNION {{DeviceGraphId(d) : d \in v.devices} : v \in Orgs}
      /\ IdsOfKind["POLICY"] = UNION {Ids(v.policies) : v \in Orgs}
      /\ IdsOfKind["IDP"] = UNION {v.idps : v \in Orgs}
      /\ IdsOfKind["AUTH_SERVER"] = UNION {v.servers : v \in Orgs}
  BY DEF IdsOfKind
<1>3. OtherKinds = {"ORG", "INTEGRATION", "DEVICE", "POLICY", "IDP", "AUTH_SERVER"}
  BY DEF OtherKinds
<1>4. OrgId \in OtherIds
  BY <1>1, <1>2, <1>3
<1>5. ASSUME NEW v \in Orgs
      PROVE  /\ Ids(v.services) \subseteq IdsOfKind["INTEGRATION"]
             /\ Ids(v.policies) \subseteq IdsOfKind["POLICY"]
             /\ v.idps \subseteq IdsOfKind["IDP"]
             /\ v.servers \subseteq IdsOfKind["AUTH_SERVER"]
             /\ \A d \in v.devices : DeviceGraphId(d) \in IdsOfKind["DEVICE"]
  BY <1>2
<1>6. QED
  BY <1>1, <1>3, <1>4, <1>5

LEMMA IdsAreApart ==
  /\ UserIds \cap (GroupIds \cup AppIds \cup OtherIds) = {}
  /\ GroupIds \cap (AppIds \cup OtherIds) = {}
  /\ AppIds \cap OtherIds = {}
<1>1. /\ IdsOfKind["USER"] = UserIds /\ IdsOfKind["GROUP"] = GroupIds
      /\ IdsOfKind["APPLICATION"] = AppIds
      /\ {"USER", "GROUP", "APPLICATION"} \cup OtherKinds \subseteq DOMAIN IdsOfKind
  BY DEF IdsOfKind, OtherKinds
<1>2. /\ \A k \in OtherKinds : k # "USER" /\ k # "GROUP" /\ k # "APPLICATION"
      /\ "USER" # "GROUP" /\ "USER" # "APPLICATION" /\ "GROUP" # "APPLICATION"
  BY DEF OtherKinds
<1>3. \A k, l \in DOMAIN IdsOfKind : k # l => IdsOfKind[k] \cap IdsOfKind[l] = {}
  BY IdsAssumption
<1>4. ASSUME NEW k \in {"USER", "GROUP", "APPLICATION"}
      PROVE  IdsOfKind[k] \cap OtherIds = {}
  BY <1>1, <1>2, <1>3 DEF OtherIds
<1>5. QED
  BY <1>1, <1>2, <1>3, <1>4

LEMMA VersionsAreOrgs ==
  ASSUME HistoryInv, NEW v \in 1 .. Len(history)
  PROVE  history[v] \in Orgs
BY IdsAssumption DEF HistoryInv

LEMMA OrderIsStored == ToSet(Order) \subseteq Stored
BY DEF Order, ToSet, Stored, Tables

LEMMA FullKeeps ==
  ASSUME TablesAreKnown, NEW t \in Stored, NEW rows, Full(t, rows),
         \A r \in rows : IsKnown(t, r)
  PROVE  TablesAreKnown'
BY DEF TablesAreKnown, Full, IsKnown

LEMMA PartialKeeps ==
  ASSUME TablesAreKnown, NEW t \in Stored, NEW rows, Partial(t, rows),
         \A r \in rows : IsKnown(t, r)
  PROVE  TablesAreKnown'
BY FullKeeps DEF Partial

LEMMA ListedRowsAreKnown ==
  ASSUME NEW t \in Listings, NEW v \in Orgs, NEW r \in ListedRows(t, v)
  PROVE  IsKnown(t, r)
<1>1. t \notin RoleTables
  BY DEF Listings, RoleTables, Parent
<1>2. CASE t \in {"users", "privileged_users"}
  BY <1>2 DEF IsKnown, ListedRows, UserIds, RoleTables
<1>3. CASE t = "groups"
  <2>1. r \in GroupRows(v)
    BY <1>3 DEF ListedRows
  <2>2. PICK g \in v.groups :
          r = [id |-> g, users |-> Cardinality({m \in v.members : m.group = g}),
               admin |-> RolesOf(v, "group", g) # {}]
    BY <2>1, Zenon DEF GroupRows
  <2>3. QED
    BY <1>3, <2>2, r.id = g DEF IsKnown, GroupIds, RoleTables
<1>4. CASE t \in {"applications", "client_applications"}
  BY <1>4 DEF IsKnown, ListedRows, AppIds, Ids, RoleTables
<1>5. CASE t \in {"api_services", "devices"}
  BY <1>5, OthersAre DEF IsKnown, ListedRows, Ids, RoleTables
<1>6. QED
  BY <1>1, <1>2, <1>3, <1>4, <1>5 DEF IsKnown

LEMMA ListingsKeep ==
  ASSUME Inv, NEW t \in Listings, CollectListing(t)
  PROVE  TablesAreKnown'
<1>1. t \in Stored
  BY OrderIsStored DEF Listings, ToSet
<1>2. PICK v \in Versions :
        Full(t, ListedRows(t, history[v])) \/ Partial(t, ListedRows(t, history[v]))
  BY DEF CollectListing
<1>3. \A r \in ListedRows(t, history[v]) : IsKnown(t, r)
  BY VersionsAreOrgs, ListedRowsAreKnown DEF Inv, Versions
<1>4. QED
  BY <1>1, <1>2, <1>3, FullKeeps, PartialKeeps DEF Inv

LEMMA ChildrenKeep ==
  ASSUME Inv, NEW t \in DOMAIN Parent \ RoleTables, CollectChildren(t)
  PROVE  TablesAreKnown'
<1>1. t \in Stored
  BY DEF Parent, Stored, Tables
<1>2. \A r : IsKnown(t, r)
  BY DEF Parent, IsKnown
<1>3. QED
  BY <1>1, <1>2, FullKeeps, PartialKeeps DEF CollectChildren, Collected, Inv

LEMMA SeenAreKnown ==
  ASSUME Inv, NEW t \in RoleTables, NEW v \in [db[Parent[t]] -> Later],
         NEW a \in AssignmentsSeen(t, v)
  PROVE  a.from = RoleHolder[t] /\ a.source \in HolderIds[RoleHolder[t]]
<1>1. PICK p \in db[Parent[t]] : a \in RolesOf(history[v[p]], RoleHolder[t], p.id)
  BY DEF AssignmentsSeen
<1>2. a.from = RoleHolder[t] /\ a.source = p.id
  BY <1>1 DEF RolesOf
<1>3. Parent[t] \in Stored /\ IsKnown(Parent[t], p)
  BY <1>1 DEF Inv, TablesAreKnown, RoleTables, Parent, Stored, Tables
<1>4. p.id \in HolderIds[RoleHolder[t]]
  BY <1>3 DEF RoleTables, Parent, IsKnown, RoleHolder, HolderIds
<1>5. QED
  BY <1>2, <1>4

LEMMA AssignmentsKeep ==
  ASSUME Inv, NEW t \in RoleTables, CollectAssignments(t)
  PROVE  TablesAreKnown'
<1>1. t \in Stored
  BY DEF RoleTables, Stored, Tables
<1>2. PICK v \in [db[Parent[t]] -> Later] :
        \/ \E w \in [AssignmentsSeen(t, v) -> Later],
              failed \in SUBSET {a \in AssignmentsSeen(t, v) : IsScoped(a)} :
             Full(t, {ScopedRow(a, history[w[a]], a \in failed) : a \in AssignmentsSeen(t, v)})
        \/ Partial(t, {ScopedRow(a, Last(history), FALSE) : a \in AssignmentsSeen(t, v)})
  BY DEF CollectAssignments
<1>3. ASSUME NEW a \in AssignmentsSeen(t, v), NEW org, NEW failed
      PROVE  IsKnown(t, ScopedRow(a, org, failed))
  <2>1. /\ ScopedRow(a, org, failed).from = a.from
        /\ ScopedRow(a, org, failed).source = a.source
    BY DEF ScopedRow, RoleRow
  <2>2. QED
    BY <2>1, SeenAreKnown DEF IsKnown, RoleTables
<1>4. CASE \E w \in [AssignmentsSeen(t, v) -> Later],
              failed \in SUBSET {a \in AssignmentsSeen(t, v) : IsScoped(a)} :
             Full(t, {ScopedRow(a, history[w[a]], a \in failed) : a \in AssignmentsSeen(t, v)})
  <2>1. PICK w, failed :
          Full(t, {ScopedRow(a, history[w[a]], a \in failed) : a \in AssignmentsSeen(t, v)})
    BY <1>4
  <2>2. \A r \in {ScopedRow(a, history[w[a]], a \in failed) : a \in AssignmentsSeen(t, v)} :
          IsKnown(t, r)
    BY <1>3, Zenon
  <2>3. QED
    BY <1>1, <2>1, <2>2, FullKeeps DEF Inv
<1>5. CASE Partial(t, {ScopedRow(a, Last(history), FALSE) : a \in AssignmentsSeen(t, v)})
  <2>1. \A r \in {ScopedRow(a, Last(history), FALSE) : a \in AssignmentsSeen(t, v)} :
          IsKnown(t, r)
    BY <1>3, Zenon
  <2>2. QED
    BY <1>1, <1>5, <2>1, PartialKeeps DEF Inv
<1>6. QED
  BY <1>2, <1>4, <1>5

-----------------------------------------------------------------------------
(* The edges of an assignment. *)

\* What an administrator may reach.
Unprotected ==
  UNION {AllIds("non_admin_users"), AllIds("non_admin_groups"), AllIds("non_admin_apps"),
         AllIds("api_services"), AllIds("devices"), {OrgId}}

TargetingKinds == PermissionKinds \ {"READ_CLIENT_SECRET"}

\* An assignment's edges begin at its holder and end at the unprotected.
IsSafe(a, e) ==
  /\ e.kind = "HAS_ROLE_ASSIGNMENT" => e.start = Node(a.source)
  /\ e.kind \in TargetingKinds => \E id \in Unprotected : e.end = Node(id)

AreSafe(a, stage_) == \A e \in stage_.edges : IsSafe(a, e)

LEMMA PermissionsAreSafe ==
  ASSUME NEW a, NEW kind, NEW ids, ids \subseteq Unprotected, kind # "HAS_ROLE_ASSIGNMENT"
  PROVE  \A e \in FromHolder(a, kind, ids) : IsSafe(a, e)
BY DEF FromHolder, Edge, IsSafe

LEMMA OthersAreSafe ==
  ASSUME NEW a, NEW e, e.kind \notin TargetingKinds, e.kind # "HAS_ROLE_ASSIGNMENT"
  PROVE  IsSafe(a, e)
BY DEF IsSafe

LEMMA TargetsAreUnprotected ==
  ASSUME NEW a
  PROVE  /\ PermissionAppIds(a) \subseteq Unprotected
         /\ PermissionGroupIds(a) \subseteq Unprotected
         /\ PermissionUserIds(a) \subseteq Unprotected
         /\ BoundPlainApplicationIds(a) \subseteq Unprotected
         /\ BoundPlainGroupIds(a) \subseteq Unprotected
         /\ BoundPlainUserIds(a) \subseteq Unprotected
<1>1. PermissionAppIds(a) \subseteq Unprotected
  BY DEF PermissionAppIds, Unprotected
<1>2. PermissionGroupIds(a) \subseteq Unprotected
  BY DEF PermissionGroupIds, Unprotected
<1>3. PermissionUserIds(a) \subseteq Unprotected
  BY DEF PermissionUserIds, Unprotected
<1>4. QED
  BY <1>1, <1>2, <1>3 DEF BoundPlainApplicationIds, BoundPlainGroupIds, BoundPlainUserIds,
     Unprotected

LEMMA CustomIsSafe ==
  ASSUME NEW a, NEW permissions, NEW edges, \A e \in edges : IsSafe(a, e)
  PROVE  AreSafe(a, Custom(a, permissions, edges))
BY DEF Custom, Nothing, AreSafe

LEMMA YieldsAreSafe ==
  ASSUME NEW a, NEW type, NEW edges, \A e \in edges : IsSafe(a, e)
  PROVE  AreSafe(a, Yields(edges)) /\ AreSafe(a, YieldsFor(a, type, edges))
BY DEF Yields, YieldsFor, Nothing, AreSafe

Generators(a) ==
  {OrgContains(a), HasRoleAssignment(a), HasRole(a), AppAdmin(a),
   GroupMembershipAdmin(a), HelpdeskAdmin(a), MobileAdmin(a), SuperAdmin(a),
   OrgAdmin(a), UserAdmin(a), ManageApp(a), ResetFactors(a), ResetPassword(a),
   ScopedToApps(a), ScopedToGroups(a), ScopedToOrg(a), ReadClientSecret(a), AddMember(a)}

LEMMA GeneratorsAreSafe ==
  ASSUME NEW a, NEW g \in Generators(a)
  PROVE  AreSafe(a, g)
<1>1. /\ AreSafe(a, OrgContains(a)) /\ AreSafe(a, HasRoleAssignment(a))
      /\ AreSafe(a, HasRole(a))
  BY DEF OrgContains, HasRoleAssignment, HasRole, Yields, Edge, AreSafe, IsSafe,
     TargetingKinds, PermissionKinds
<1>2. AreSafe(a, AppAdmin(a)) /\ AreSafe(a, GroupMembershipAdmin(a))
  BY TargetsAreUnprotected, PermissionsAreSafe, YieldsAreSafe
     DEF AppAdmin, GroupMembershipAdmin
<1>3. AreSafe(a, MobileAdmin(a)) /\ AreSafe(a, SuperAdmin(a)) /\ AreSafe(a, OrgAdmin(a))
  <2>1. /\ AllIds("devices") \subseteq Unprotected /\ {OrgId} \subseteq Unprotected
        /\ AllIds("non_admin_users") \cup AllIds("non_admin_groups") \cup AllIds("devices")
             \subseteq Unprotected
    BY DEF Unprotected
  <2>2. QED
    BY <2>1, PermissionsAreSafe, YieldsAreSafe DEF MobileAdmin, SuperAdmin, OrgAdmin
<1>4. AreSafe(a, HelpdeskAdmin(a)) /\ AreSafe(a, UserAdmin(a))
  <2>1. PermissionGroupIds(a) \cup PermissionUserIds(a) \subseteq Unprotected
    BY TargetsAreUnprotected
  <2>2. /\ \A e \in FromHolder(a, "HELPDESK_ADMIN", PermissionUserIds(a)) : IsSafe(a, e)
        /\ \A e \in FromHolder(a, "GROUP_ADMIN",
                               PermissionGroupIds(a) \cup PermissionUserIds(a)) : IsSafe(a, e)
    BY <2>1, TargetsAreUnprotected, PermissionsAreSafe
  <2>3. QED
    BY <2>2 DEF HelpdeskAdmin, UserAdmin, Nothing, AreSafe
<1>5. /\ AreSafe(a, ManageApp(a)) /\ AreSafe(a, AddMember(a))
      /\ AreSafe(a, ResetFactors(a)) /\ AreSafe(a, ResetPassword(a))
  BY TargetsAreUnprotected, PermissionsAreSafe, CustomIsSafe
     DEF ManageApp, AddMember, ResetFactors, ResetPassword
<1>6. /\ AreSafe(a, ScopedToApps(a)) /\ AreSafe(a, ScopedToGroups(a))
      /\ AreSafe(a, ScopedToOrg(a))
  <2>1. ASSUME NEW ids PROVE \A e \in ScopedTo(a, ids) : IsSafe(a, e)
    BY DEF ScopedTo, Edge, IsSafe, TargetingKinds, PermissionKinds
  <2>2. QED
    BY <2>1 DEF ScopedToApps, ScopedToGroups, ScopedToOrg, Yields, AreSafe
<1>7. AreSafe(a, ReadClientSecret(a))
  <2>1. ASSUME NEW apps PROVE \A e \in ReadSecrets(a, apps) : IsSafe(a, e)
    BY DEF ReadSecrets, FromHolder, Edge, IsSafe, TargetingKinds, PermissionKinds
  <2>2. AreSafe(a, Custom(a, ReadSecretPermissions, ReadSecrets(a, BoundApplicationIds(a))))
    BY <2>1, CustomIsSafe
  <2>3. QED
    BY <2>1, <2>2 DEF ReadClientSecret, Yields, AreSafe
<1>8. QED
  BY <1>1, <1>2, <1>3, <1>4, <1>5, <1>6, <1>7 DEF Generators

LEMMA StagesAreGenerators ==
  ASSUME NEW a, NEW t
  PROVE  Stages(t, a) \in Seq(Generators(a))
<1>1. FirstStages(a) \in Seq(Generators(a)) /\ LastStages(a) \in Seq(Generators(a))
  BY DEF FirstStages, LastStages, Generators
<1>2. <<SuperAdmin(a), OrgAdmin(a), UserAdmin(a), ManageApp(a), ResetFactors(a),
        ResetPassword(a)>> \in Seq(Generators(a))
  BY DEF Generators
<1>3. <<UserAdmin(a), SuperAdmin(a), OrgAdmin(a), ResetPassword(a), ResetFactors(a),
        ManageApp(a)>> \in Seq(Generators(a))
  BY DEF Generators
<1>4. UserStages(a) \in Seq(Generators(a)) /\ OtherStages(a) \in Seq(Generators(a))
  BY <1>1, <1>2, <1>3, ConcatProperties DEF UserStages, OtherStages
<1>5. QED
  BY <1>4 DEF Stages

\* Only the assignments that count have edges.
LEMMA AssignmentEdges ==
  ASSUME NEW t \in RoleTables, NEW a, NEW e \in EdgesOf(t, a)
  PROVE  IsDirectActive(a) /\ IsSafe(a, e)
<1>0. StagesOf(t, a) = Stages(t, a)
  BY DEF StagesOf, RoleTables
<1>1. PICK i \in DOMAIN Stages(t, a) : e \in Stages(t, a)[i].edges
  BY <1>0 DEF EdgesOf
<1>2. Stages(t, a)[i] \in Generators(a)
  BY <1>1, StagesAreGenerators, LenProperties, ElementOfSeq
<1>3. IsSafe(a, e)
  BY <1>1, <1>2, GeneratorsAreSafe DEF AreSafe
<1>4. Stages(t, a) # <<>>
  BY <1>1
<1>5. QED
  BY <1>3, <1>4 DEF Stages

LEMMA OtherEdges ==
  ASSUME NEW t \in {"resources", "resource_set_role_assignments"}, NEW r,
         NEW e \in EdgesOf(t, r)
  PROVE  e.kind \notin PermissionKinds \cup {"HAS_ROLE_ASSIGNMENT"}
<1>1. PICK i \in DOMAIN StagesOf(t, r) : e \in StagesOf(t, r)[i].edges
  BY DEF EdgesOf
<1>2. CASE t = "resources"
  BY <1>1, <1>2 DEF StagesOf, RoleTables, ResourceStages, Yields, Edge, PermissionKinds
<1>3. CASE t = "resource_set_role_assignments"
  BY <1>1, <1>3 DEF StagesOf, RoleTables, BindingStages, Yields, Edge, PermissionKinds
<1>4. QED
  BY <1>2, <1>3

-----------------------------------------------------------------------------
(* The conversion. *)

\* An assignment that counts makes its holder a principal with a role.
LEMMA HoldersArePrincipals ==
  ASSUME TablesAreKnown, NEW t \in RoleTables, NEW a \in db[t], IsDirectActive(a)
  PROVE  [id |-> a.source, type |-> a.from] \in PrincipalsWithAdminRoles
<1>1. a \in {b \in UNION {db[u] : u \in RoleTables} :
               b.status = "ACTIVE" /\ b.assignmentType = DirectType(b.from)}
  BY DEF IsDirectActive
<1>2. QED
  BY <1>1 DEF PrincipalsWithAdminRoles

LEMMA HoldersAreProtected ==
  ASSUME TablesAreKnown, stage = "convert", DerivedInv,
         NEW t \in RoleTables, NEW a \in db[t], IsDirectActive(a)
  PROVE  a.source \notin Unprotected
<1>1. [id |-> a.source, type |-> a.from] \in PrincipalsWithAdminRoles
  BY HoldersArePrincipals
<1>2. /\ a.from = RoleHolder[t] /\ a.source \in HolderIds[RoleHolder[t]]
      /\ RoleHolder[t] \in {"user", "group", "client"}
  BY DEF TablesAreKnown, IsKnown, RoleTables, RoleHolder, Stored, Tables
<1>3. a.source \in UserIds \cup GroupIds \cup AppIds
  BY <1>2 DEF HolderIds
<1>4. /\ \A r \in db["users"] : r.id \in UserIds
      /\ \A r \in db["groups"] : r.id \in GroupIds
      /\ \A r \in db["applications"] : r.id \in AppIds
      /\ \A r \in db["api_services"] : r.id \in OtherIds
      /\ \A r \in db["devices"] : DeviceGraphId(r) \in OtherIds
  BY DEF TablesAreKnown, IsKnown, Stored, Tables
<1>5. a.source \notin AllIds("non_admin_users")
  <2>1. SUFFICES ASSUME NEW r \in NonAdmins("users", "user"), r.id = a.source PROVE FALSE
    BY DEF AllIds, GraphId, DerivedInv
  <2>2. a.source \in UserIds /\ [id |-> a.source, type |-> "user"] \notin PrincipalsWithAdminRoles
    <3>1. PICK s \in db["users"] :
            r = [id |-> s.id] /\ [id |-> s.id, type |-> "user"] \notin PrincipalsWithAdminRoles
      BY <2>1, Zenon DEF NonAdmins
    <3>2. s.id = a.source
      BY <2>1, <3>1
    <3>3. QED
      BY <1>4, <3>1, <3>2
  <2>3. a.from = "user"
    BY <1>2, <2>2, IdsAreApart DEF HolderIds
  <2>4. QED
    BY <1>1, <2>2, <2>3
<1>6. a.source \notin AllIds("non_admin_groups")
  <2>1. SUFFICES ASSUME NEW r \in NonAdmins("groups", "group"), r.id = a.source PROVE FALSE
    BY DEF AllIds, GraphId, DerivedInv
  <2>2. a.source \in GroupIds /\ [id |-> a.source, type |-> "group"] \notin PrincipalsWithAdminRoles
    <3>1. PICK s \in db["groups"] :
            r = [id |-> s.id] /\ [id |-> s.id, type |-> "group"] \notin PrincipalsWithAdminRoles
      BY <2>1, Zenon DEF NonAdmins
    <3>2. s.id = a.source
      BY <2>1, <3>1
    <3>3. QED
      BY <1>4, <3>1, <3>2
  <2>3. a.from = "group"
    BY <1>2, <2>2, IdsAreApart DEF HolderIds
  <2>4. QED
    BY <1>1, <2>2, <2>3
<1>7. a.source \notin AllIds("non_admin_apps")
  <2>1. SUFFICES ASSUME NEW r \in NonAdmins("applications", "client"), r.id = a.source PROVE FALSE
    BY DEF AllIds, GraphId, DerivedInv
  <2>2. a.source \in AppIds /\ [id |-> a.source, type |-> "client"] \notin PrincipalsWithAdminRoles
    <3>1. PICK s \in db["applications"] :
            r = [id |-> s.id] /\ [id |-> s.id, type |-> "client"] \notin PrincipalsWithAdminRoles
      BY <2>1, Zenon DEF NonAdmins
    <3>2. s.id = a.source
      BY <2>1, <3>1
    <3>3. QED
      BY <1>4, <3>1, <3>2
  <2>3. a.from = "client"
    BY <1>2, <2>2, IdsAreApart DEF HolderIds
  <2>4. QED
    BY <1>1, <2>2, <2>3
<1>8. a.source \notin OtherIds
  BY <1>3, IdsAreApart
<1>9. AllIds("api_services") \cup AllIds("devices") \cup {OrgId} \subseteq OtherIds
  BY <1>4, OthersAre DEF AllIds, GraphId
<1>10. QED
  BY <1>5, <1>6, <1>7, <1>8, <1>9 DEF Unprotected

LEMMA ConvertIsSafe ==
  ASSUME Inv, Convert
  PROVE  AdminsAreNoTargets'
<1>1. SUFFICES ASSUME NEW e \in graph', NEW h \in graph', e.kind \in TargetingKinds,
                      h.kind = "HAS_ROLE_ASSIGNMENT", e.end = h.start
               PROVE  FALSE
  BY DEF AdminsAreNoTargets, PermissionEdges, TargetingKinds
<1>2. \A f \in graph' : \E x \in RowsToConvert : f \in EdgesOf(x[1], x[2])
  BY DEF Convert
<1>3. ASSUME NEW f \in graph', f.kind \in TargetingKinds \cup {"HAS_ROLE_ASSIGNMENT"}
      PROVE  \E t \in RoleTables : \E a \in db[t] : IsDirectActive(a) /\ IsSafe(a, f)
  <2>1. PICK t \in Converted : \E r \in db[t] : f \in EdgesOf(t, r)
    BY <1>2 DEF RowsToConvert
  <2>2. PICK r \in db[t] : f \in EdgesOf(t, r)
    BY <2>1
  <2>3. t \in RoleTables
    BY <1>3, <2>2, OtherEdges DEF Converted, TargetingKinds
  <2>4. QED
    BY <2>2, <2>3, AssignmentEdges
<1>4. PICK t \in RoleTables : \E a \in db[t] : IsDirectActive(a) /\ h.start = Node(a.source)
  BY <1>1, <1>3 DEF IsSafe
<1>5. PICK a \in db[t] : IsDirectActive(a) /\ h.start = Node(a.source)
  BY <1>4
<1>6. PICK id \in Unprotected : e.end = Node(id)
  BY <1>1, <1>3 DEF IsSafe
<1>7. id = a.source
  BY <1>1, <1>5, <1>6 DEF Node
<1>8. QED
  BY <1>5, <1>6, <1>7, HoldersAreProtected DEF Inv, Convert

LEMMA PreprocessKeeps ==
  ASSUME Inv, Preprocess
  PROVE  TablesAreKnown' /\ DerivedInv'
<1>1. CASE stage' = "convert"
  <2>1. db' = [db EXCEPT !["principals_with_admin_roles"] = PrincipalsWithAdminRoles,
                         !["non_admin_users"] = NonAdmins("users", "user"),
                         !["non_admin_groups"] = NonAdmins("groups", "group"),
                         !["non_admin_apps"] = NonAdmins("applications", "client")]
    BY <1>1 DEF Preprocess
  <2>2. DOMAIN db = Stored
    BY DEF Inv, TablesAreKnown
  <2>3. DOMAIN db' = Stored /\ \A t \in Stored \ DerivedTables : db'[t] = db[t]
    BY <2>1, <2>2 DEF DerivedTables
  <2>4. \A t \in DerivedTables : \A r : IsKnown(t, r)
    BY DEF IsKnown, DerivedTables, RoleTables
  <2>5. TablesAreKnown'
    BY <2>3, <2>4 DEF Inv, TablesAreKnown, IsKnown
  <2>6. /\ db'["users"] = db["users"] /\ db'["groups"] = db["groups"]
        /\ db'["applications"] = db["applications"]
        /\ db'["privileged_users"] = db["privileged_users"]
        /\ \A t \in RoleTables : db'[t] = db[t]
    BY <2>3 DEF Stored, Tables, DerivedTables, RoleTables
  <2>7. PrincipalsWithAdminRoles' = PrincipalsWithAdminRoles
    <3>1. UNION {db'[t] : t \in RoleTables} = UNION {db[t] : t \in RoleTables}
      BY <2>6
    <3>2. QED
      BY <2>6, <3>1 DEF PrincipalsWithAdminRoles
  <2>8. /\ NonAdmins("users", "user")' = NonAdmins("users", "user")
        /\ NonAdmins("groups", "group")' = NonAdmins("groups", "group")
        /\ NonAdmins("applications", "client")' = NonAdmins("applications", "client")
    BY <2>6, <2>7 DEF NonAdmins
  <2>9. /\ db'["non_admin_users"] = NonAdmins("users", "user")
        /\ db'["non_admin_groups"] = NonAdmins("groups", "group")
        /\ db'["non_admin_apps"] = NonAdmins("applications", "client")
    BY <2>1, <2>2 DEF Stored, DerivedTables
  <2>10. QED
    BY <2>5, <2>8, <2>9 DEF DerivedInv
<1>2. CASE stage' # "convert"
  BY <1>2 DEF Preprocess, Inv, TablesAreKnown, IsKnown, DerivedInv
<1>3. QED
  BY <1>1, <1>2

-----------------------------------------------------------------------------

LEMMA InvInit == Init => Inv
BY DEF Init, Inv, HistoryInv, TablesAreKnown, DerivedInv, GraphInv, AdminsAreNoTargets,
   PermissionEdges

LEMMA InvStep == Inv /\ [Next]_vars => Inv'
<1>1. SUFFICES ASSUME Inv, [Next]_vars PROVE Inv'
  OBVIOUS
<1>2. CASE \E t \in Listings : CollectListing(t)
  <2>1. PICK t \in Listings : CollectListing(t)
    BY <1>2
  <2>2. HistoryInv'
    BY <1>1, <2>1, IdsAssumption DEF CollectListing, Due, Inv, HistoryInv, Versions
  <2>3. DerivedInv' /\ GraphInv'
    BY <1>1, <2>1 DEF CollectListing, Due, Inv, DerivedInv, GraphInv, AdminsAreNoTargets,
       PermissionEdges
  <2>4. QED
    BY <1>1, <2>1, <2>2, <2>3, ListingsKeep DEF Inv
<1>3. CASE \E t \in DOMAIN Parent \ RoleTables : CollectChildren(t)
  <2>1. PICK t \in DOMAIN Parent \ RoleTables : CollectChildren(t)
    BY <1>3
  <2>2. HistoryInv' /\ DerivedInv' /\ GraphInv'
    BY <1>1, <2>1 DEF CollectChildren, Due, Inv, HistoryInv, DerivedInv, GraphInv,
       AdminsAreNoTargets, PermissionEdges
  <2>3. QED
    BY <1>1, <2>1, <2>2, ChildrenKeep DEF Inv
<1>4. CASE \E t \in RoleTables : CollectAssignments(t)
  <2>1. PICK t \in RoleTables : CollectAssignments(t)
    BY <1>4
  <2>2. HistoryInv' /\ DerivedInv' /\ GraphInv'
    BY <1>1, <2>1 DEF CollectAssignments, Due, Inv, HistoryInv, DerivedInv, GraphInv,
       AdminsAreNoTargets, PermissionEdges
  <2>3. QED
    BY <1>1, <2>1, <2>2, AssignmentsKeep DEF Inv
<1>5. CASE CollectionFails
  BY <1>1, <1>5 DEF CollectionFails, Inv, HistoryInv, TablesAreKnown, IsKnown, DerivedInv,
     GraphInv, AdminsAreNoTargets, PermissionEdges
<1>6. CASE Preprocess
  <2>1. HistoryInv' /\ GraphInv'
    BY <1>1, <1>6 DEF Preprocess, Inv, HistoryInv, GraphInv, AdminsAreNoTargets,
       PermissionEdges
  <2>2. QED
    BY <1>1, <1>6, <2>1, PreprocessKeeps DEF Inv
<1>7. CASE Convert
  <2>1. HistoryInv' /\ TablesAreKnown' /\ DerivedInv' /\ stage' \in {"done", "failed"}
    BY <1>1, <1>7 DEF Convert, Inv, HistoryInv, TablesAreKnown, IsKnown, DerivedInv
  <2>2. QED
    BY <1>1, <1>7, <2>1, ConvertIsSafe DEF Inv, GraphInv
<1>8. CASE Ended \/ UNCHANGED vars
  <2>1. UNCHANGED <<history, asOf, stage, graph, db>>
    BY <1>8 DEF Ended, vars
  <2>2. HistoryInv' /\ TablesAreKnown' /\ GraphInv'
    BY <1>1, <2>1 DEF Inv, HistoryInv, TablesAreKnown, IsKnown, GraphInv, AdminsAreNoTargets,
       PermissionEdges
  <2>3. DerivedInv'
    <3>1. PrincipalsWithAdminRoles' = PrincipalsWithAdminRoles
      BY <2>1 DEF PrincipalsWithAdminRoles
    <3>2. QED
      BY <1>1, <2>1, <3>1 DEF Inv, DerivedInv, NonAdmins
  <2>4. QED
    BY <2>2, <2>3 DEF Inv
<1>9. QED
  BY <1>1, <1>2, <1>3, <1>4, <1>5, <1>6, <1>7, <1>8 DEF Next

LEMMA InvHolds == Spec => []Inv
<1>1. QED
  BY InvInit, InvStep, PTL DEF Spec

\* "It manages all users and groups without role assignments"
\* (role_assignment.py:411): in the graph of any org, whatever changes while it
\* is collected, whatever fails and whatever rows are lost, nobody who is shown
\* with an assignment is the target of an administrator.
THEOREM NoAdminIsATarget == Spec => []AdminsAreNoTargets
<1>1. Inv => AdminsAreNoTargets
  BY DEF Inv, GraphInv
<1>2. QED
  BY <1>1, InvHolds, PTL

-----------------------------------------------------------------------------
(* What explains the permissions of a custom role. *)

CustomEdges(a, e) ==
  /\ e.start = Node(a.source)
  /\ \E id : Node(id) \in InReach(e)
              /\ \E set \in BoundSets(a) : id \in ResourceSetMemberIds(set)

\* The secrets that a built-in role shows.
BuiltInEdges(a, e) ==
  /\ a.type \in SecretReaders /\ e.kind = "READ_CLIENT_SECRET"
  /\ e.start = Node(a.source)

\* Only the generators of a custom role yield edges of its kinds, and these go
\* from the holder to what its resource sets contain, or to the secrets of it;
\* three of the built-in roles read secrets, too.
LEMMA GeneratorsOfCustomEdges ==
  ASSUME NEW a, NEW g \in Generators(a), NEW e \in g.edges, e.kind \in CustomKinds
  PROVE  CustomEdges(a, e) \/ BuiltInEdges(a, e)
<1>1. ASSUME NEW kind, kind \notin CustomKinds, NEW ids, e \in FromHolder(a, kind, ids)
      PROVE  FALSE
  BY <1>1 DEF FromHolder, Edge
<1>2. ASSUME NEW ids, e \in ScopedTo(a, ids)
      PROVE  FALSE
  BY <1>2 DEF ScopedTo, Edge, CustomKinds
<1>3. ASSUME NEW kind \in CustomKinds \ {"READ_CLIENT_SECRET"}, NEW ids, NEW t,
             ids \subseteq ResourceSetIdsInTable(BoundSets(a), t),
             e \in FromHolder(a, kind, ids)
      PROVE  CustomEdges(a, e)
  <2>1. PICK id \in ids : e = Edge(kind, Node(a.source), Node(id))
    BY <1>3, Zenon DEF FromHolder
  <2>2. \E set \in BoundSets(a) : id \in ResourceSetMemberIds(set)
    <3>1. id \in UNION {ResourceSetMemberIds(set) : set \in BoundSets(a)}
      BY <1>3 DEF ResourceSetIdsInTable
    <3>2. QED
      BY <3>1, Zenon
  <2>3. QED
    BY <2>1, <2>2 DEF CustomEdges, Edge, InReach
<1>4. ASSUME NEW permissions, NEW edges, e \in Custom(a, permissions, edges).edges
      PROVE  e \in edges
  BY <1>4 DEF Custom, Nothing
<1>5. ASSUME NEW type, NEW edges, e \in YieldsFor(a, type, edges).edges
      PROVE  e \in edges
  BY <1>5 DEF YieldsFor, Yields, Nothing
<1>6. CASE g \in {OrgContains(a), HasRoleAssignment(a), HasRole(a)}
  BY <1>6 DEF OrgContains, HasRoleAssignment, HasRole, Yields, Edge, CustomKinds
<1>7. CASE g \in {AppAdmin(a), GroupMembershipAdmin(a), MobileAdmin(a), SuperAdmin(a),
                  OrgAdmin(a)}
  BY <1>1, <1>5, <1>7 DEF AppAdmin, GroupMembershipAdmin, MobileAdmin, SuperAdmin, OrgAdmin,
     CustomKinds
<1>8. CASE g \in {HelpdeskAdmin(a), UserAdmin(a)}
  BY <1>1, <1>8 DEF HelpdeskAdmin, UserAdmin, Nothing, CustomKinds
<1>9. CASE g \in {ScopedToApps(a), ScopedToGroups(a), ScopedToOrg(a)}
  BY <1>2, <1>9 DEF ScopedToApps, ScopedToGroups, ScopedToOrg, Yields
<1>10. CASE g = ReadClientSecret(a)
  <2>1. ASSUME NEW apps, e \in ReadSecrets(a, apps)
        PROVE  /\ e.kind = "READ_CLIENT_SECRET" /\ e.start = Node(a.source)
               /\ \E app \in apps : \E id \in SecretsOf(app) : e.end = Node(id)
    <3>1. PICK id \in UNION {SecretsOf(app) : app \in apps} :
            e = Edge("READ_CLIENT_SECRET", Node(a.source), Node(id))
      BY <2>1, Zenon DEF ReadSecrets, FromHolder
    <3>2. PICK app \in apps : id \in SecretsOf(app)
      BY <3>1, Zenon
    <3>3. QED
      BY <3>1, <3>2 DEF Edge
  <2>2. ASSUME NEW edges, e \in Yields(edges).edges
        PROVE  e \in edges
    BY <2>2 DEF Yields
  <2>3. CASE a.type = "APP_ADMIN"
    <3>1. \E apps : e \in ReadSecrets(a, apps)
      BY <1>10, <2>2, <2>3 DEF ReadClientSecret
    <3>2. QED
      BY <2>1, <2>3, <3>1 DEF BuiltInEdges, SecretReaders
  <2>4. CASE a.type \in {"API_ACCESS_MANAGEMENT_ADMIN", "READ_ONLY_ADMIN"}
    <3>1. e \in ReadSecrets(a, AllIds("applications"))
      BY <1>10, <2>2, <2>4 DEF ReadClientSecret
    <3>2. QED
      BY <2>1, <2>4, <3>1 DEF BuiltInEdges, SecretReaders
  <2>5. CASE a.type \notin {"APP_ADMIN", "API_ACCESS_MANAGEMENT_ADMIN", "READ_ONLY_ADMIN"}
    <3>1. e \in ReadSecrets(a, BoundApplicationIds(a))
      BY <1>4, <1>10, <2>5 DEF ReadClientSecret
    <3>2. PICK app \in BoundApplicationIds(a) : \E id \in SecretsOf(app) : e.end = Node(id)
      BY <2>1, <3>1
    <3>3. e.end[1] \in SecretsOf(app) /\ e.kind = "READ_CLIENT_SECRET"
      BY <2>1, <3>1, <3>2 DEF Node
    <3>4. app \in AllIds("applications")
      BY <3>2 DEF BoundApplicationIds, ResourceSetIdsInTable
    <3>5. \E set \in BoundSets(a) : app \in ResourceSetMemberIds(set)
      <4>1. app \in UNION {ResourceSetMemberIds(set) : set \in BoundSets(a)}
        BY <3>2 DEF BoundApplicationIds, ResourceSetIdsInTable
      <4>2. QED
        BY <4>1, Zenon
    <3>6. Node(app) \in InReach(e)
      BY <3>3, <3>4 DEF InReach
    <3>7. QED
      BY <2>1, <3>1, <3>5, <3>6 DEF CustomEdges
  <2>6. QED
    BY <2>3, <2>4, <2>5
<1>11. CASE g = ManageApp(a)
  <2>1. e \in FromHolder(a, "MANAGE_APP", BoundPlainApplicationIds(a))
    BY <1>4, <1>11 DEF ManageApp
  <2>2. QED
    BY <1>3, <2>1 DEF CustomKinds, BoundPlainApplicationIds, BoundApplicationIds
<1>12. CASE g \in {ResetFactors(a), ResetPassword(a)}
  <2>1. PICK kind \in CustomKinds \ {"READ_CLIENT_SECRET"} :
          e \in FromHolder(a, kind, BoundPlainUserIds(a))
    BY <1>4, <1>12 DEF ResetFactors, ResetPassword, CustomKinds
  <2>2. QED
    BY <1>3, <2>1 DEF BoundPlainUserIds
<1>13. CASE g = AddMember(a)
  <2>1. e \in FromHolder(a, "ADD_MEMBER", BoundPlainGroupIds(a))
    BY <1>4, <1>13 DEF AddMember
  <2>2. QED
    BY <1>3, <2>1 DEF CustomKinds, BoundPlainGroupIds
<1>14. QED
  BY <1>6, <1>7, <1>8, <1>9, <1>10, <1>11, <1>12, <1>13 DEF Generators

\* An edge is yielded by a generator that does not raise, nor does one before it.
LEMMA YieldedBy ==
  ASSUME NEW t, NEW r, NEW e \in EdgesOf(t, r)
  PROVE  \E i \in DOMAIN StagesOf(t, r) :
           /\ e \in StagesOf(t, r)[i].edges
           /\ \A k \in 1 .. i : ~Raises(StagesOf(t, r)[k])
BY DEF EdgesOf

\* The second generator yields the edge from the holder to its assignment, the
\* third the one to its role.
LEMMA StagesBegin ==
  ASSUME NEW t \in RoleTables, NEW a, IsDirectActive(a)
  PROVE  /\ 3 \in DOMAIN StagesOf(t, a)
         /\ StagesOf(t, a)[1] = OrgContains(a) /\ StagesOf(t, a)[2] = HasRoleAssignment(a)
         /\ StagesOf(t, a)[3] = HasRole(a)
<1>1. StagesOf(t, a) \in {UserStages(a), OtherStages(a)}
  BY DEF StagesOf, Stages, RoleTables
<1>2. ASSUME NEW middle \in Seq(Generators(a))
      PROVE  /\ 3 \in DOMAIN (FirstStages(a) \o middle \o LastStages(a))
             /\ (FirstStages(a) \o middle \o LastStages(a))[1] = OrgContains(a)
             /\ (FirstStages(a) \o middle \o LastStages(a))[2] = HasRoleAssignment(a)
             /\ (FirstStages(a) \o middle \o LastStages(a))[3] = HasRole(a)
  <2>1. FirstStages(a) \in Seq(Generators(a)) /\ LastStages(a) \in Seq(Generators(a))
    BY DEF FirstStages, LastStages, Generators
  <2>2. Len(FirstStages(a)) = 7 /\ FirstStages(a)[1] = OrgContains(a)
        /\ FirstStages(a)[2] = HasRoleAssignment(a) /\ FirstStages(a)[3] = HasRole(a)
    BY DEF FirstStages
  <2>3. /\ FirstStages(a) \o middle \in Seq(Generators(a))
        /\ Len(FirstStages(a) \o middle) = 7 + Len(middle) /\ Len(middle) \in Nat
        /\ \A i \in 1 .. 7 : (FirstStages(a) \o middle)[i] = FirstStages(a)[i]
    <3> DEFINE S == Generators(a)
               first == FirstStages(a)
    <3>1. first \in Seq(S) /\ middle \in Seq(S) /\ Len(first) = 7
      BY <2>1, <2>2
    <3> HIDE DEF S, first
    <3>2. /\ first \o middle \in Seq(S) /\ Len(first \o middle) = Len(first) + Len(middle)
          /\ \A i \in 1 .. Len(first) + Len(middle) :
               (first \o middle)[i] = IF i <= Len(first) THEN first[i]
                                      ELSE middle[i - Len(first)]
      BY <3>1, ConcatProperties, Zenon
    <3>3. Len(middle) \in Nat
      BY <3>1, LenProperties
    <3>4. \A i \in 1 .. 7 : (first \o middle)[i] = first[i]
      BY <3>1, <3>2, <3>3
    <3>5. QED
      BY <3>1, <3>2, <3>3, <3>4 DEF S, first
  <2>4. /\ Len(FirstStages(a) \o middle \o LastStages(a)) >= 3
        /\ FirstStages(a) \o middle \o LastStages(a) \in Seq(Generators(a))
        /\ (FirstStages(a) \o middle \o LastStages(a))[1] = OrgContains(a)
        /\ (FirstStages(a) \o middle \o LastStages(a))[2] = HasRoleAssignment(a)
        /\ (FirstStages(a) \o middle \o LastStages(a))[3] = HasRole(a)
    BY <2>1, <2>2, <2>3, ConcatProperties, LenProperties
  <2>5. QED
    BY <2>4, LenProperties
<1>3. <<SuperAdmin(a), OrgAdmin(a), UserAdmin(a), ManageApp(a), ResetFactors(a),
        ResetPassword(a)>> \in Seq(Generators(a))
  BY DEF Generators
<1>4. <<UserAdmin(a), SuperAdmin(a), OrgAdmin(a), ResetPassword(a), ResetFactors(a),
        ManageApp(a)>> \in Seq(Generators(a))
  BY DEF Generators
<1>5. QED
  BY <1>1, <1>2, <1>3, <1>4 DEF UserStages, OtherStages

LEMMA HolderIsLinked ==
  ASSUME NEW t \in RoleTables, NEW a, IsDirectActive(a)
  PROVE  /\ HasRoleAssignment(a).edges \subseteq EdgesOf(t, a)
         /\ HasRole(a).edges \subseteq EdgesOf(t, a)
<1>1. ~Raises(OrgContains(a)) /\ ~Raises(HasRoleAssignment(a)) /\ ~Raises(HasRole(a))
  BY DEF OrgContains, HasRoleAssignment, HasRole, Yields, Raises
<1>2. \A k \in 1 .. 3 : ~Raises(StagesOf(t, a)[k])
  <2>1. \A k \in 1 .. 3 : k = 1 \/ k = 2 \/ k = 3
    OBVIOUS
  <2>2. QED
    BY <1>1, <2>1, StagesBegin
<1>3. {2, 3} \subseteq DOMAIN StagesOf(t, a)
  <2>1. StagesOf(t, a) \in Seq(Generators(a))
    BY StagesAreGenerators DEF StagesOf, RoleTables
  <2>2. QED
    BY <2>1, StagesBegin, LenProperties
<1>4. \A i \in {2, 3} : \A k \in 1 .. i : ~Raises(StagesOf(t, a)[k])
  BY <1>2
<1>5. QED
  BY <1>3, <1>4, StagesBegin DEF EdgesOf

\* The binding of an assignment that was collected has its edge.
LEMMA BindingIsLinked ==
  ASSUME NEW b, RoleAssignmentExists(b.id, b.assignee)
  PROVE  Edge("SCOPED_TO", AssignmentNode(b.id, b.assignee), ResourceSetNode(b.set))
           \in EdgesOf("resource_set_role_assignments", b)
<1> DEFINE edge == Edge("SCOPED_TO", AssignmentNode(b.id, b.assignee), ResourceSetNode(b.set))
<1>1. StagesOf("resource_set_role_assignments", b) = <<Yields({edge})>>
  BY DEF StagesOf, RoleTables, BindingStages
<1> HIDE DEF edge
<1>2. edge \in Yields({edge}).edges /\ ~Raises(Yields({edge}))
  BY DEF Yields, Raises
<1>3. DOMAIN <<Yields({edge})>> = {1} /\ <<Yields({edge})>>[1] = Yields({edge})
  OBVIOUS
<1>4. \A k \in 1 .. 1 : ~Raises(<<Yields({edge})>>[k])
  BY <1>2, <1>3
<1>5. edge \in EdgesOf("resource_set_role_assignments", b)
  BY <1>1, <1>2, <1>3, <1>4 DEF EdgesOf
<1>6. QED
  BY <1>5 DEF edge

\* A resource of the members of a group resolves to these.
LEMMA MembersResolve ==
  ASSUME NEW r, ResourceMemberGroupId(r.url, r.orn) # None
  PROVE  Resolve(r) = GroupUserIds({ResourceMemberGroupId(r.url, r.orn)})
<1>1. CASE r.url # NoUrl
  <2>1. /\ Len(r.url.path) = 3 /\ r.url.path[1] = "groups" /\ r.url.path[3] = "users"
        /\ ResourceMemberGroupId(r.url, r.orn) = r.url.path[2]
    BY <1>1 DEF ResourceMemberGroupId
  <2>2. Last(r.url.path) = "users" /\ r.url.path[Len(r.url.path) - 1] = r.url.path[2]
    BY <2>1 DEF Last
  <2>3. r.url.path # <<"apps">> /\ r.url.path # <<"policies">>
    BY <2>1
  <2>4. Len(r.url.path) > 1 /\ Len(r.url.path) # 1
    BY <2>1
  <2>5. ResolveUrl(r.url) = GroupUserIds({r.url.path[2]})
    BY <2>1, <2>2, <2>3, <2>4 DEF ResolveUrl
  <2>6. QED
    BY <1>1, <2>1, <2>5 DEF Resolve
<1>2. CASE r.url = NoUrl
  <2>1. ResourceMemberGroupId(NoUrl, r.orn) # None
    BY <1>2
  <2>2. r.orn # <<>>
    <3>1. Len(r.orn) >= 3
      BY <2>1 DEF ResourceMemberGroupId
    <3>2. QED
      BY <3>1
  <2>3. QED
    BY <1>2, <2>1, <2>2, Zenon DEF Resolve, ResolveOrn
<1>3. QED
  BY <1>1, <1>2

\* What a resource stands for has an edge from its set, of one kind or another.
LEMMA MembersAreLinked ==
  ASSUME NEW r, NEW id \in Resolve(r)
  PROVE  \E kind \in {"RESOURCE_SET_CONTAINS", "RESOURCE_SET_CONTAINS_INDIRECT"} :
           Edge(kind, ResourceSetNode(r.set), Node(id)) \in EdgesOf("resources", r)
<1> DEFINE group == ResourceMemberGroupId(r.url, r.orn)
           set == ResourceSetNode(r.set)
           direct == {Edge("RESOURCE_SET_CONTAINS", set, Node(i)) : i \in Resolve(r)}
           marker == {Edge("RESOURCE_SET_CONTAINS_MEMBERS_OF", set, Node(g)) :
                        g \in {group} \cap AllIds("groups")}
           members == {Edge("RESOURCE_SET_CONTAINS_INDIRECT", set, Node(u)) :
                         u \in GroupUserIds({group})}
           ofMembers == [needs |-> {"group_memberships"}, edges |-> members]
<1>1. StagesOf("resources", r) = ResourceStages(r)
  BY DEF StagesOf, RoleTables
<1>2. ResourceStages(r) = IF group = None THEN <<Yields(direct)>>
                          ELSE <<Yields(marker), ofMembers>>
  BY DEF ResourceStages
<1>3. Edge("RESOURCE_SET_CONTAINS", set, Node(id)) \in direct
  OBVIOUS
<1>4. id \in GroupUserIds({group}) =>
        Edge("RESOURCE_SET_CONTAINS_INDIRECT", set, Node(id)) \in members
  OBVIOUS
<1>5. ofMembers.edges = members /\ ofMembers.needs = {"group_memberships"}
  OBVIOUS
<1>6. id \in GroupUserIds({group}) => TableExists("group_memberships")
  BY DEF GroupUserIds, TableExists
<1>7. group # None => id \in GroupUserIds({group})
  BY MembersResolve
<1> HIDE DEF group, set, direct, marker, members, ofMembers
<1>8. CASE group = None
  <2>1. StagesOf("resources", r) = <<Yields(direct)>>
    BY <1>1, <1>2, <1>8
  <2>2. Yields(direct).edges = direct /\ ~Raises(Yields(direct))
    BY DEF Yields, Raises
  <2>3. DOMAIN <<Yields(direct)>> = {1} /\ \A k \in 1 .. 1 : <<Yields(direct)>>[k] = Yields(direct)
    OBVIOUS
  <2>4. Edge("RESOURCE_SET_CONTAINS", set, Node(id)) \in EdgesOf("resources", r)
    BY <1>3, <2>1, <2>2, <2>3 DEF EdgesOf
  <2>5. QED
    BY <2>4 DEF set
<1>9. CASE group # None
  <2>1. StagesOf("resources", r) = <<Yields(marker), ofMembers>>
    BY <1>1, <1>2, <1>9
  <2>2. ~Raises(Yields(marker)) /\ ~Raises(ofMembers)
    BY <1>5, <1>6, <1>7, <1>9 DEF Yields, Raises
  <2>3. /\ DOMAIN <<Yields(marker), ofMembers>> = {1, 2}
        /\ <<Yields(marker), ofMembers>>[2] = ofMembers
        /\ \A k \in 1 .. 2 : <<Yields(marker), ofMembers>>[k] \in {Yields(marker), ofMembers}
    OBVIOUS
  <2>4. Edge("RESOURCE_SET_CONTAINS_INDIRECT", set, Node(id)) \in ofMembers.edges
    BY <1>4, <1>5, <1>7, <1>9
  <2>5. Edge("RESOURCE_SET_CONTAINS_INDIRECT", set, Node(id)) \in EdgesOf("resources", r)
    BY <2>1, <2>2, <2>3, <2>4 DEF EdgesOf
  <2>6. QED
    BY <2>5 DEF set
<1>10. QED
  BY <1>8, <1>9

LEMMA ConvertExplains ==
  ASSUME Inv, Convert
  PROVE  CustomRolesAreExplained'
<1>1. SUFFICES ASSUME NEW e \in graph', e.kind \in CustomKinds,
                      ~IsOfBuiltInRole(e)'
               PROVE  \E h \in graph', s \in graph', c \in graph' :
                        /\ h.kind = "HAS_ROLE_ASSIGNMENT" /\ s.kind = "SCOPED_TO"
                        /\ c.kind \in {"RESOURCE_SET_CONTAINS", "RESOURCE_SET_CONTAINS_INDIRECT"}
                        /\ h.start = e.start /\ s.start = h.end
                        /\ c.start = s.end /\ c.end \in InReach(e)
  <2>1. \A f : InReach(f)' = InReach(f)
    BY DEF Convert, InReach, AllIds, SecretsOf
  <2>2. QED
    BY <2>1 DEF CustomRolesAreExplained, Within, Containers, PermissionEdges
<1>2. ASSUME NEW t \in Converted, NEW r \in db[t], NEW f \in EdgesOf(t, r)
      PROVE  f \in graph'
  <2>1. <<t, r>> \in RowsToConvert
    BY DEF RowsToConvert
  <2>2. QED
    BY <2>1 DEF Convert
<1>3. PICK x \in RowsToConvert : e \in EdgesOf(x[1], x[2])
  BY DEF Convert
<1>4. PICK t \in Converted : \E r \in db[t] : x = <<t, r>>
  BY <1>3 DEF RowsToConvert
<1>5. PICK a \in db[t] : e \in EdgesOf(t, a)
  BY <1>3, <1>4
<1>6. t \in RoleTables
  BY <1>1, <1>5, OtherEdges DEF Converted, CustomKinds, PermissionKinds
<1>7. IsDirectActive(a) /\ CustomEdges(a, e)
  <2>1. IsDirectActive(a)
    BY <1>5, <1>6, AssignmentEdges
  <2>2. PICK i \in DOMAIN StagesOf(t, a) : e \in StagesOf(t, a)[i].edges
    BY <1>5, YieldedBy
  <2>3. StagesOf(t, a) \in Seq(Generators(a))
    BY <1>6, StagesAreGenerators DEF StagesOf, RoleTables
  <2>4. StagesOf(t, a)[i] \in Generators(a)
    BY <2>2, <2>3, LenProperties, ElementOfSeq
  <2>5. QED
    <3>1. ~BuiltInEdges(a, e)
      <4>1. SUFFICES ASSUME BuiltInEdges(a, e)
                     PROVE  FALSE
        OBVIOUS
      <4>2. HasRole(a).edges = {Edge("HAS_ROLE", e.start, BuiltInRoleNode(a.type))}
        BY <4>1 DEF BuiltInEdges, SecretReaders, HasRole, Yields
      <4>3. Edge("HAS_ROLE", e.start, BuiltInRoleNode(a.type)) \in graph'
        BY <1>2, <1>6, <2>1, <4>2, HolderIsLinked DEF Converted
      <4>4. IsOfBuiltInRole(e)'
        BY <4>1, <4>3 DEF IsOfBuiltInRole, BuiltInEdges, Within, Edge
      <4>5. QED
        BY <1>1, <4>4
    <3>2. QED
      BY <1>1, <2>1, <2>2, <2>4, <3>1, GeneratorsOfCustomEdges
<1>8. PICK id : /\ Node(id) \in InReach(e)
                /\ \E set \in BoundSets(a) : id \in ResourceSetMemberIds(set)
  BY <1>7 DEF CustomEdges
<1>9. PICK set \in BoundSets(a) : id \in ResourceSetMemberIds(set)
  BY <1>8
<1>10. PICK b \in db["resource_set_role_assignments"] :
         b.id = a.id /\ b.assignee = a.source /\ b.set = set
  BY <1>9 DEF BoundSets, RoleAssignmentResourceSetIds
<1>11. PICK r \in db["resources"] : r.set = set /\ id \in Resolve(r)
  BY <1>9 DEF ResourceSetMemberIds
<1>12. RoleAssignmentExists(b.id, b.assignee)
  BY <1>6, <1>10 DEF RoleAssignmentExists
<1>13. PICK kind \in {"RESOURCE_SET_CONTAINS", "RESOURCE_SET_CONTAINS_INDIRECT"} :
         Edge(kind, ResourceSetNode(r.set), Node(id)) \in EdgesOf("resources", r)
  BY <1>11, MembersAreLinked
<1> DEFINE h == Edge("HAS_ROLE_ASSIGNMENT", Node(a.source), AssignmentNode(a.id, a.source))
           s == Edge("SCOPED_TO", AssignmentNode(b.id, b.assignee), ResourceSetNode(b.set))
           c == Edge(kind, ResourceSetNode(r.set), Node(id))
<1>14. h \in graph' /\ s \in graph' /\ c \in graph'
  <2>1. h \in HasRoleAssignment(a).edges
    BY DEF HasRoleAssignment, Yields
  <2> HIDE DEF h
  <2>2. h \in graph'
    BY <1>2, <1>6, <1>7, <2>1, HolderIsLinked DEF Converted
  <2>3. QED
    BY <2>2, <1>2, <1>6, <1>7, <1>10, <1>11, <1>12, <1>13, HolderIsLinked, BindingIsLinked
     DEF Converted
<1>15. /\ h.kind = "HAS_ROLE_ASSIGNMENT" /\ h.start = Node(a.source)
       /\ h.end = AssignmentNode(a.id, a.source)
       /\ s.kind = "SCOPED_TO" /\ s.start = AssignmentNode(b.id, b.assignee)
       /\ s.end = ResourceSetNode(b.set)
       /\ c.kind = kind /\ c.start = ResourceSetNode(r.set) /\ c.end = Node(id)
  BY DEF Edge
<1>16. e.start = Node(a.source)
  BY <1>7 DEF CustomEdges
<1> HIDE DEF h, s, c
<1>17. QED
  BY <1>8, <1>10, <1>11, <1>14, <1>15, <1>16

\* The graph is made in one step.
LEMMA GraphIsMade ==
  ASSUME [Next]_vars
  PROVE  UNCHANGED graph \/ Convert
BY DEF Next, CollectListing, CollectChildren, CollectAssignments, CollectionFails,
   Preprocess, Due, Ended, vars

\* "SCOPED_TO" and "RESOURCE_SET_CONTAINS" explain the permissions of a custom
\* role: in the graph of any org, whatever rows were lost on the way, a path
\* leads from the holder over the assignment and its resource set to the target.
THEOREM CustomRolesHaveReasons == Spec => []CustomRolesAreExplained
<1>1. Init => CustomRolesAreExplained
  BY DEF Init, CustomRolesAreExplained, PermissionEdges
<1>2. Inv /\ CustomRolesAreExplained /\ [Next]_vars => CustomRolesAreExplained'
  <2>1. ASSUME Inv, CustomRolesAreExplained, [Next]_vars, UNCHANGED graph
        PROVE  CustomRolesAreExplained'
    <3>1. CASE graph = {}
      BY <2>1, <3>1 DEF CustomRolesAreExplained, PermissionEdges
    <3>2. CASE graph # {}
      <4>1. UNCHANGED db
        BY <2>1, <3>2 DEF Inv, GraphInv, Next, CollectListing, CollectChildren,
           CollectAssignments, CollectionFails, Preprocess, Convert, Due, Ended, vars
      <4>2. \A e : InReach(e)' = InReach(e)
        BY <4>1 DEF InReach, AllIds, SecretsOf
      <4>3. QED
        BY <2>1, <4>2 DEF CustomRolesAreExplained, PermissionEdges, Within, Containers,
           IsOfBuiltInRole
    <3>3. QED
      BY <3>1, <3>2
  <2>2. QED
    BY <2>1, ConvertExplains, GraphIsMade
<1>3. QED
  BY <1>1, <1>2, InvHolds, PTL DEF Spec

-----------------------------------------------------------------------------
(* What the tables say of the org. *)

\* The facts that held at some time of a history.
Known(h) == Okta!Ever(ToSet(h))

\* An assignment was seen, and its scope, if it was fetched.
AssignmentIsSeen(F, a) ==
  /\ IsDirectActive(a) /\ Okta!Role(a) \in F.roles
  /\ a.appScope.fetched => \E s \in Okta!ScopesOf(F, a) : s.apps = a.appScope.targets
  /\ a.groupScope.fetched => \E s \in Okta!ScopesOf(F, a) : s.groups = a.groupScope.targets

\* A row tells of something that held; that a group has no privileges, too.
IsSeen(h, t, r) ==
  LET F == Known(h)
  IN /\ t = "users" => r.id \in F.users
     /\ t = "groups" =>
          r.id \in F.groups /\ (~r.admin => \E v \in ToSet(h) : RolesOf(v, "group", r.id) = {})
     /\ t = "applications" => r \in F.apps
     /\ t = "api_services" => r \in F.services
     /\ t = "devices" => DeviceGraphId(r) \in F.devices
     /\ t = "group_memberships" => r \in F.members
     /\ t \in {"application_secrets", "api_service_secrets"} => r \in F.secrets
     /\ t = "custom_role_permissions" => r \in F.permissions
     /\ t = "resources" => r \in F.resources
     /\ t = "resource_set_role_assignments" => r \in F.bindings
     /\ t = "policies" => r.id \in IdsOfKind["POLICY"]
     /\ t = "identity_providers" => r.id \in IdsOfKind["IDP"]
     /\ t = "authorization_servers" => r.id \in IdsOfKind["AUTH_SERVER"]
     /\ t = "resource_sets" => r.id \in IdsOfKind["RESOURCE_SET"]
     /\ t = "custom_roles" => r.id \in IdsOfKind["CUSTOM_ROLE"]
     /\ t \in RoleTables => AssignmentIsSeen(F, r)

SeenInv == \A t \in Stored : \A r \in db[t] : IsSeen(history, t, r)

\* What has been collected without a loss is complete, each request as of the
\* version that it saw.
Done(t) == \E i \in 1 .. turn : Order[i] = t

ListingIsComplete(t) == \E v \in SeenVersions : db[t] = ListedRows(t, v)

ChildrenAreComplete(t) ==
  \A p \in db[Parent[t]] : \E v \in SeenVersions : ChildRows(t, p, v) \subseteq db[t]

AssignmentsAreComplete(t) ==
  \A p \in {q \in db[Parent[t]] : IsAsked(t, q)} :
    \E v \in SeenVersions : \A a \in RolesOf(v, RoleHolder[t], p.id) :
      IsDirectActive(a) =>
        \E w \in SeenVersions, failed \in BOOLEAN :
          ScopedRow(a, w, failed) \in db[t] /\ (failed => faults > 0)

CompleteInv ==
  \A t \in ToSet(Order) : Done(t) /\ t \notin lost =>
    /\ t \in Listings => ListingIsComplete(t)
    /\ t \in DOMAIN Parent \ RoleTables => ChildrenAreComplete(t)
    /\ t \in RoleTables => AssignmentsAreComplete(t)

StageInv == /\ stage \in {"collect", "convert", "done", "failed"}
            /\ stage \in {"convert", "done"} => turn = Len(Order)
            /\ turn \in 0 .. Len(Order) /\ faults \in Nat
            /\ faults = 0 => lost = {}

LEMMA SometimesIsKnown ==
  ASSUME NEW h, NEW n \in Okta!FactNames \ Okta!Exclusions
  PROVE  Known(h)[n] = Okta!Sometimes(n, ToSet(h))
BY DEF Known, Okta!Ever

LEMMA FactIsKnown ==
  ASSUME NEW h, NEW n \in Okta!FactNames \ Okta!Exclusions, NEW v \in ToSet(h)
  PROVE  Okta!Facts(v)[n] \subseteq Known(h)[n]
BY SometimesIsKnown, ZenonT(30) DEF Okta!Sometimes

LEMMA FactsAreKnown ==
  ASSUME NEW h, NEW v \in ToSet(h)
  PROVE  /\ v.users \subseteq Known(h).users /\ v.groups \subseteq Known(h).groups
         /\ v.apps \subseteq Known(h).apps /\ v.services \subseteq Known(h).services
         /\ v.members \subseteq Known(h).members /\ v.secrets \subseteq Known(h).secrets
         /\ v.permissions \subseteq Known(h).permissions
         /\ v.resources \subseteq Known(h).resources
         /\ v.bindings \subseteq Known(h).bindings
         /\ \A d \in v.devices : DeviceGraphId(d) \in Known(h).devices
         /\ \A a \in Okta!Held(v) : Okta!Role(a) \in Known(h).roles
         /\ \A a \in v.roles : Okta!Scope(a) \in Known(h).scopes
<1>1. {"users", "groups", "apps", "services", "members", "secrets", "permissions",
       "resources", "bindings", "devices", "roles", "scopes"}
        \subseteq Okta!FactNames \ Okta!Exclusions
  BY DEF Okta!FactNames, Okta!Exclusions
<1>2. /\ Okta!Facts(v).users = v.users /\ Okta!Facts(v).groups = v.groups
      /\ Okta!Facts(v).apps = v.apps /\ Okta!Facts(v).services = v.services
      /\ Okta!Facts(v).members = v.members /\ Okta!Facts(v).secrets = v.secrets
      /\ Okta!Facts(v).permissions = v.permissions
      /\ Okta!Facts(v).resources = v.resources /\ Okta!Facts(v).bindings = v.bindings
      /\ Okta!Facts(v).devices = {DeviceGraphId(d) : d \in v.devices}
      /\ Okta!Facts(v).roles = {Okta!Role(a) : a \in Okta!Held(v)}
      /\ Okta!Facts(v).scopes = {Okta!Scope(a) : a \in v.roles}
  BY DEF Okta!Facts
<1>3. /\ Okta!Facts(v).devices \subseteq Known(h).devices
      /\ Okta!Facts(v).roles \subseteq Known(h).roles
      /\ Okta!Facts(v).scopes \subseteq Known(h).scopes
  BY <1>1, FactIsKnown
<1>4. \A d \in v.devices : DeviceGraphId(d) \in Known(h).devices
  BY <1>2, <1>3, Zenon
<1>5. \A a \in Okta!Held(v) : Okta!Role(a) \in Known(h).roles
  BY <1>2, <1>3, Zenon
<1>6. \A a \in v.roles : Okta!Scope(a) \in Known(h).scopes
  BY <1>2, <1>3, Zenon
<1>7. QED
  BY <1>1, <1>2, <1>4, <1>5, <1>6, FactIsKnown

\* Who is once seen without a role is among the targets of administrators.
LEMMA PlainIsKnown ==
  ASSUME NEW h, NEW v \in ToSet(h), NEW id
  PROVE  /\ id \in Known(h).users /\ id \notin PrivilegedIds(v) => id \in Okta!PlainUsers(Known(h))
         /\ id \in Known(h).groups /\ id \notin Okta!HeldBy(v, "group")
              => id \in Okta!PlainGroups(Known(h))
         /\ id \in Okta!Ids(Known(h).apps) /\ id \notin Okta!HeldBy(v, "client")
              => id \in Okta!PlainApps(Known(h))
<1>1. ASSUME NEW n \in Okta!Exclusions
      PROVE  Known(h)[n] \subseteq Okta!Facts(v)[n]
  <2>1. Known(h)[n] = Okta!Throughout(n, ToSet(h))
    BY DEF Known, Okta!Ever, Okta!Exclusions, Okta!FactNames
  <2>2. QED
    BY <2>1, Zenon DEF Okta!Throughout
<1>2. /\ Known(h).adminUsers \subseteq Okta!Facts(v).adminUsers
      /\ Known(h).adminGroups \subseteq Okta!Facts(v).adminGroups
      /\ Known(h).adminApps \subseteq Okta!Facts(v).adminApps
  BY <1>1 DEF Okta!Exclusions
<1>3. /\ Okta!Facts(v).adminUsers = Okta!AdminUsers(v)
      /\ Okta!Facts(v).adminGroups = Okta!HeldBy(v, "group")
      /\ Okta!Facts(v).adminApps = Okta!HeldBy(v, "client")
  BY DEF Okta!Facts
<1>4. Okta!AdminUsers(v) \subseteq PrivilegedIds(v)
  BY DEF Okta!AdminUsers, PrivilegedIds, RolesOf
<1>5. QED
  BY <1>2, <1>3, <1>4 DEF Okta!PlainUsers, Okta!PlainGroups, Okta!PlainApps


LEMMA HeldIsDirectActive ==
  ASSUME NEW a, a.from \in {"user", "group", "client"}
  PROVE  Okta!IsHeld(a) <=> IsDirectActive(a)
BY DEF Okta!IsHeld, IsDirectActive, DirectType

\* The ids in a version are of their kinds.
LEMMA IdsAreOfKinds ==
  ASSUME NEW v \in Orgs
  PROVE  /\ Ids(v.services) \subseteq IdsOfKind["INTEGRATION"]
         /\ Ids(v.policies) \subseteq IdsOfKind["POLICY"]
         /\ v.idps \subseteq IdsOfKind["IDP"] /\ v.servers \subseteq IdsOfKind["AUTH_SERVER"]
         /\ Ids(v.secrets) \subseteq IdsOfKind["CLIENT_SECRET"]
         /\ \A d \in v.devices : DeviceGraphId(d) \in IdsOfKind["DEVICE"]
         /\ \A m \in v.members : m.id \in IdsOfKind["USER"]
         /\ \A r \in v.resources : r.set \in IdsOfKind["RESOURCE_SET"]
         /\ \A b \in v.bindings : b.set \in IdsOfKind["RESOURCE_SET"]
         /\ \A p \in v.permissions : p.role \in IdsOfKind["CUSTOM_ROLE"]
         /\ \A a \in v.roles : a.type = "CUSTOM" => a.role \in IdsOfKind["CUSTOM_ROLE"]
<1>1. /\ IdsOfKind["INTEGRATION"] = UNION {Ids(w.services) : w \in Orgs}
      /\ IdsOfKind["POLICY"] = UNION {Ids(w.policies) : w \in Orgs}
      /\ IdsOfKind["IDP"] = UNION {w.idps : w \in Orgs}
      /\ IdsOfKind["AUTH_SERVER"] = UNION {w.servers : w \in Orgs}
      /\ IdsOfKind["CLIENT_SECRET"] = UNION {Ids(w.secrets) : w \in Orgs}
      /\ IdsOfKind["DEVICE"] = UNION {{DeviceGraphId(d) : d \in w.devices} : w \in Orgs}
      /\ IdsOfKind["USER"] = UserIds
  BY DEF IdsOfKind
<1>2. /\ IdsOfKind["RESOURCE_SET"] = UNION {{r.set : r \in w.resources} \cup {b.set : b \in w.bindings} :
                                             w \in Orgs}
      /\ IdsOfKind["CUSTOM_ROLE"] =
           UNION {{p.role : p \in w.permissions}
                    \cup {a.role : a \in {b \in w.roles : b.type = "CUSTOM"}} : w \in Orgs}
  BY DEF IdsOfKind
<1>3. \A m \in v.members : m.id \in IdsOfKind["USER"]
  BY <1>1 DEF UserIds, Ids
<1>4. /\ \A r \in v.resources : r.set \in IdsOfKind["RESOURCE_SET"]
      /\ \A b \in v.bindings : b.set \in IdsOfKind["RESOURCE_SET"]
  BY <1>2
<1>5. /\ \A p \in v.permissions : p.role \in IdsOfKind["CUSTOM_ROLE"]
      /\ \A a \in v.roles : a.type = "CUSTOM" => a.role \in IdsOfKind["CUSTOM_ROLE"]
  BY <1>2
<1>6. QED
  BY <1>1, <1>3, <1>4, <1>5

LEMMA ListedRowsAreSeen ==
  ASSUME NEW h \in Seq(Orgs), NEW v \in ToSet(h), NEW t \in Listings,
         NEW r \in ListedRows(t, v)
  PROVE  IsSeen(h, t, r)
<1> USE DEF IsSeen
<1>1. t \notin RoleTables /\ t \in ToSet(Order)
      /\ t \notin {"group_memberships", "application_secrets", "api_service_secrets",
                   "custom_role_permissions", "resources", "resource_set_role_assignments"}
  BY DEF Listings, RoleTables, Parent, ToSet
<1>2. v \in Orgs
  BY DEF ToSet
<1>3. CASE t = "users"
  BY <1>1, <1>3, FactsAreKnown DEF ListedRows
<1>4. CASE t = "groups"
  <2>1. r \in GroupRows(v)
    BY <1>4 DEF ListedRows
  <2>2. PICK g \in v.groups :
          r = [id |-> g, users |-> Cardinality({m \in v.members : m.group = g}),
               admin |-> RolesOf(v, "group", g) # {}]
    BY <2>1, Zenon DEF GroupRows
  <2>3. r.id = g /\ (~r.admin => RolesOf(v, "group", g) = {})
    BY <2>2
  <2>4. QED
    BY <1>1, <1>4, <2>3, FactsAreKnown
<1>5. CASE t \in {"applications", "api_services", "devices"}
  BY <1>1, <1>5, FactsAreKnown DEF ListedRows
<1>6. CASE t \in {"policies", "identity_providers", "authorization_servers"}
  <2>1. /\ Ids(v.policies) \subseteq IdsOfKind["POLICY"] /\ v.idps \subseteq IdsOfKind["IDP"]
        /\ v.servers \subseteq IdsOfKind["AUTH_SERVER"]
    BY <1>2, IdsAreOfKinds
  <2>2. QED
    BY <1>1, <1>6, <2>1 DEF ListedRows, Ids
<1>7. CASE t \in {"resource_sets", "custom_roles"}
  <2>1. /\ \A x \in v.resources : x.set \in IdsOfKind["RESOURCE_SET"]
        /\ \A p \in v.permissions : p.role \in IdsOfKind["CUSTOM_ROLE"]
    BY <1>2, IdsAreOfKinds
  <2>2. QED
    BY <1>1, <1>7, <2>1 DEF ListedRows
<1>8. CASE t \notin {"users", "groups", "applications", "api_services", "devices", "policies",
                     "identity_providers", "authorization_servers", "resource_sets",
                     "custom_roles"}
  BY <1>1, <1>8
<1>9. QED
  BY <1>3, <1>4, <1>5, <1>6, <1>7, <1>8

LEMMA ChildRowsAreSeen ==
  ASSUME NEW h \in Seq(Orgs), NEW v \in ToSet(h), NEW t \in DOMAIN Parent \ RoleTables,
         NEW p, NEW r \in ChildRows(t, p, v)
  PROVE  IsSeen(h, t, r)
<1> USE DEF IsSeen
<1>1. t \in {"group_memberships", "application_secrets", "api_service_secrets",
             "custom_role_permissions", "resources", "resource_set_role_assignments"}
  BY DEF RoleTables, Parent
<1>2. CASE t = "group_memberships"
  BY <1>2, FactsAreKnown DEF ChildRows, Memberships, RoleTables
<1>3. CASE t \in {"application_secrets", "api_service_secrets"}
  BY <1>3, FactsAreKnown DEF ChildRows, Secrets, RoleTables
<1>4. CASE t = "custom_role_permissions"
  BY <1>4, FactsAreKnown DEF ChildRows, PermissionsOf, RoleTables
<1>5. CASE t = "resources"
  BY <1>5, FactsAreKnown DEF ChildRows, Resources, RoleTables
<1>6. CASE t = "resource_set_role_assignments"
  BY <1>6, FactsAreKnown DEF ChildRows, Bindings, RoleTables
<1>7. QED
  BY <1>1, <1>2, <1>3, <1>4, <1>5, <1>6

\* The targets of an assignment are those that a version says, if they were fetched.
LEMMA FetchedTargets ==
  ASSUME NEW w \in Orgs, NEW a
  PROVE  /\ Fetch(a, w, Apps).fetched =>
              \E b \in w.roles : b.id = a.id /\ b.source = a.source
                                   /\ Fetch(a, w, Apps).targets = b.appTargets
         /\ Fetch(a, w, Groups).fetched =>
              \E b \in w.roles : b.id = a.id /\ b.source = a.source
                                   /\ Fetch(a, w, Groups).targets = b.groupTargets
<1>1. CASE \E b \in w.roles : b.id = a.id /\ b.source = a.source
  <2>1. PICK b \in w.roles : b.id = a.id /\ b.source = a.source
    BY <1>1
  <2>2. {c \in w.roles : c.id = a.id /\ c.source = a.source} = {b}
    BY <2>1, RolesAssumption
  <2>3. /\ Fetch(a, w, Apps) = [fetched |-> TRUE, targets |-> UNION {Apps(c) : c \in {b}}]
        /\ Fetch(a, w, Groups) = [fetched |-> TRUE, targets |-> UNION {Groups(c) : c \in {b}}]
    BY <1>1, <2>2 DEF Fetch
  <2>4. UNION {Apps(c) : c \in {b}} = b.appTargets /\ UNION {Groups(c) : c \in {b}} = b.groupTargets
    BY DEF Apps, Groups
  <2>5. QED
    BY <2>1, <2>3, <2>4
<1>2. CASE ~\E b \in w.roles : b.id = a.id /\ b.source = a.source
  BY <1>2 DEF Fetch, Unfetched
<1>3. QED
  BY <1>1, <1>2

LEMMA ScopedRowIs ==
  ASSUME NEW a, NEW w, NEW failed
  PROVE  /\ ScopedRow(a, w, failed).id = a.id
         /\ ScopedRow(a, w, failed).from = a.from
         /\ ScopedRow(a, w, failed).source = a.source
         /\ ScopedRow(a, w, failed).status = a.status
         /\ ScopedRow(a, w, failed).assignmentType = a.assignmentType
         /\ ScopedRow(a, w, failed).type = a.type
         /\ ScopedRow(a, w, failed).role = a.role
         /\ ScopedRow(a, w, failed).appScope \in {Fetch(a, w, Apps), Unfetched}
         /\ ScopedRow(a, w, failed).groupScope \in {Fetch(a, w, Groups), Unfetched}
BY DEF ScopedRow, RoleRow

LEMMA ScopedRowsAreSeen ==
  ASSUME NEW h \in Seq(Orgs), NEW v \in ToSet(h), NEW w \in ToSet(h), NEW a \in v.roles,
         IsDirectActive(a), a.from \in {"user", "group", "client"}, NEW failed
  PROVE  AssignmentIsSeen(Known(h), ScopedRow(a, w, failed))
<1> DEFINE r == ScopedRow(a, w, failed)
<1>1. w \in Orgs
  BY DEF ToSet
<1>2. /\ r.id = a.id /\ r.from = a.from /\ r.source = a.source /\ r.status = a.status
      /\ r.assignmentType = a.assignmentType /\ r.type = a.type /\ r.role = a.role
      /\ r.appScope \in {Fetch(a, w, Apps), Unfetched}
      /\ r.groupScope \in {Fetch(a, w, Groups), Unfetched}
  BY ScopedRowIs
<1> HIDE DEF r
<1>3. a \in Okta!Held(v)
  BY HeldIsDirectActive DEF Okta!Held
<1>4. Okta!Role(r) = Okta!Role(a) /\ IsDirectActive(r)
  BY <1>2 DEF Okta!Role, IsDirectActive
<1>5. Okta!Role(r) \in Known(h).roles
  BY <1>3, <1>4, FactsAreKnown
<1>6. ASSUME NEW b \in w.roles, b.id = a.id, b.source = a.source
      PROVE  \E s \in Okta!ScopesOf(Known(h), r) :
               s.apps = b.appTargets /\ s.groups = b.groupTargets
  <2>1. Okta!Scope(b) \in Known(h).scopes
    BY FactsAreKnown
  <2>2. /\ Okta!Scope(b).id = r.id /\ Okta!Scope(b).source = r.source
        /\ Okta!Scope(b).apps = b.appTargets /\ Okta!Scope(b).groups = b.groupTargets
    BY <1>2, <1>6 DEF Okta!Scope
  <2>3. QED
    BY <2>1, <2>2 DEF Okta!ScopesOf
<1>7. r.appScope.fetched => \E s \in Okta!ScopesOf(Known(h), r) : s.apps = r.appScope.targets
  <2>1. SUFFICES ASSUME r.appScope.fetched
                 PROVE  \E s \in Okta!ScopesOf(Known(h), r) : s.apps = r.appScope.targets
    OBVIOUS
  <2>2. r.appScope = Fetch(a, w, Apps)
    BY <1>2, <2>1 DEF Unfetched
  <2>3. PICK b \in w.roles : b.id = a.id /\ b.source = a.source
                               /\ r.appScope.targets = b.appTargets
    BY <1>1, <2>1, <2>2, FetchedTargets
  <2>4. QED
    BY <1>6, <2>3
<1>8. r.groupScope.fetched =>
        \E s \in Okta!ScopesOf(Known(h), r) : s.groups = r.groupScope.targets
  <2>1. SUFFICES ASSUME r.groupScope.fetched
                 PROVE  \E s \in Okta!ScopesOf(Known(h), r) : s.groups = r.groupScope.targets
    OBVIOUS
  <2>2. r.groupScope = Fetch(a, w, Groups)
    BY <1>2, <2>1 DEF Unfetched
  <2>3. PICK b \in w.roles : b.id = a.id /\ b.source = a.source
                               /\ r.groupScope.targets = b.groupTargets
    BY <1>1, <2>1, <2>2, FetchedTargets
  <2>4. QED
    BY <1>6, <2>3
<1>9. QED
  BY <1>4, <1>5, <1>7, <1>8 DEF AssignmentIsSeen, r


\* The place of each resource in the order.
Position ==
  [users |-> 1, groups |-> 2, group_memberships |-> 3, group_role_assignments |-> 4,
   client_applications |-> 5, client_role_assignments |-> 6, applications |-> 7,
   application_secrets |-> 8, devices |-> 9, policies |-> 10, identity_providers |-> 11,
   authorization_servers |-> 12, resource_sets |-> 13, resources |-> 14,
   resource_set_role_assignments |-> 15, custom_roles |-> 16,
   custom_role_permissions |-> 17, api_services |-> 18, api_service_secrets |-> 19,
   privileged_users |-> 20, user_role_assignments |-> 21]

LEMMA Positions ==
  /\ Len(Order) = 21 /\ ToSet(Order) = DOMAIN Position
  /\ \A i \in 1 .. 21 : Order[i] \in DOMAIN Position /\ Position[Order[i]] = i
  /\ \A t \in DOMAIN Position : Position[t] \in 1 .. 21 /\ Order[Position[t]] = t
  /\ \A t \in DOMAIN Parent : /\ t \in DOMAIN Position /\ Parent[t] \in DOMAIN Position
                              /\ Position[Parent[t]] < Position[t]
<1>1. Len(Order) = 21
  BY DEF Order
<1>2. \A i \in 1 .. 21 : Order[i] \in DOMAIN Position /\ Position[Order[i]] = i
  BY DEF Order, Position
<1>3. \A t \in DOMAIN Position : Position[t] \in 1 .. 21 /\ Order[Position[t]] = t
  BY DEF Order, Position
<1>4. ToSet(Order) = DOMAIN Position
  <2>1. DOMAIN Order = 1 .. 21
    BY DEF Order
  <2>2. QED
    BY <1>2, <1>3, <2>1 DEF ToSet
<1>5. \A t \in DOMAIN Parent : /\ t \in DOMAIN Position /\ Parent[t] \in DOMAIN Position
                               /\ Position[Parent[t]] < Position[t]
  BY DEF Parent, Position
<1>6. QED
  BY <1>1, <1>2, <1>3, <1>4, <1>5

LEMMA DoneIsBehind ==
  ASSUME StageInv, NEW t \in ToSet(Order)
  PROVE  Done(t) <=> Position[t] <= turn
BY Positions DEF StageInv, Done

\* What the step that collects s leaves alone.
Leaves(s) ==
  /\ \A u \in Stored \ {s} : db'[u] = db[u]
  /\ lost \subseteq lost' /\ faults' \in Nat /\ faults' >= faults
  /\ lost' \subseteq lost \cup {s} /\ (faults' = 0 => lost' = {})
  /\ history' = history

LEMMA OthersStayComplete ==
  ASSUME CompleteInv, StageInv, NEW s \in ToSet(Order), Due(s), Leaves(s),
         NEW t \in ToSet(Order), t # s, Done(t)', t \notin lost'
  PROVE  /\ t \in Listings => ListingIsComplete(t)'
         /\ t \in DOMAIN Parent \ RoleTables => ChildrenAreComplete(t)'
         /\ t \in RoleTables => AssignmentsAreComplete(t)'
<1>1. turn + 1 = Position[s] /\ turn' = turn + 1 /\ turn \in Nat
  BY Positions DEF Due, StageInv
<1>2. StageInv'
  BY <1>1, Positions DEF StageInv, Due, Leaves
<1>3. Position[t] <= turn' /\ Position[t] # Position[s] /\ Position[t] \in Nat
  <2>1. Position[t] <= turn'
    BY <1>1, Positions DEF Done, StageInv, Due
  <2>2. QED
    BY <2>1, Positions
<1>4. Position[t] <= turn
  BY <1>1, <1>3
<1>5. Done(t) /\ t \notin lost
  BY <1>4, DoneIsBehind DEF Leaves
<1>6. t \in Stored /\ db'[t] = db[t]
  BY OrderIsStored DEF Leaves
<1>7. ASSUME t \in DOMAIN Parent
      PROVE  db'[Parent[t]] = db[Parent[t]]
  <2>1. Parent[t] \in ToSet(Order) /\ Position[Parent[t]] < Position[t]
    BY <1>7, Positions
  <2>2. Parent[t] # s
    BY <1>1, <1>4, <2>1, Positions
  <2>3. QED
    BY <2>1, <2>2, OrderIsStored DEF Leaves
<1>8. t \in Listings => ListingIsComplete(t)'
  BY <1>5, <1>6 DEF CompleteInv, ListingIsComplete, SeenVersions, Leaves
<1>9. t \in DOMAIN Parent \ RoleTables => ChildrenAreComplete(t)'
  BY <1>5, <1>6, <1>7 DEF CompleteInv, ChildrenAreComplete, SeenVersions, Leaves
<1>10. t \in RoleTables => AssignmentsAreComplete(t)'
  <2>1. SUFFICES ASSUME t \in RoleTables
                 PROVE  AssignmentsAreComplete(t)'
    OBVIOUS
  <2>2. AssignmentsAreComplete(t) /\ db'[Parent[t]] = db[Parent[t]]
    BY <1>5, <1>7, <2>1 DEF CompleteInv, RoleTables, Parent
  <2>3. faults > 0 => faults' > 0
    BY DEF Leaves, StageInv
  <2>4. QED
    BY <1>6, <2>2, <2>3 DEF AssignmentsAreComplete, SeenVersions, Leaves
<1>11. QED
  BY <1>8, <1>9, <1>10

LEMMA CollectingKeeps ==
  ASSUME CompleteInv, StageInv, NEW s \in ToSet(Order), Due(s), Leaves(s),
         s \in Listings /\ s \notin lost' => ListingIsComplete(s)',
         s \in DOMAIN Parent \ RoleTables /\ s \notin lost' => ChildrenAreComplete(s)',
         s \in RoleTables /\ s \notin lost' => AssignmentsAreComplete(s)'
  PROVE  CompleteInv' /\ StageInv'
<1>1. StageInv'
  BY Positions DEF StageInv, Due, Leaves
<1>2. CompleteInv'
  BY OthersStayComplete DEF CompleteInv
<1>3. QED
  BY <1>1, <1>2

LEMMA FullLeaves ==
  ASSUME StageInv, NEW s, Due(s), NEW rows, Full(s, rows), UNCHANGED <<faults, lost>>,
         DOMAIN db = Stored
  PROVE  Leaves(s)
BY DEF StageInv, Due, Full, Leaves

LEMMA PartialLeaves ==
  ASSUME StageInv, NEW s, Due(s), NEW rows, Partial(s, rows), DOMAIN db = Stored
  PROVE  Leaves(s) /\ s \in lost'
BY DEF StageInv, Due, Partial, Full, Leaves

LEMMA FullSees ==
  ASSUME SeenInv, NEW t \in Stored, NEW rows, Full(t, rows), history' = history,
         DOMAIN db = Stored, \A r \in rows : IsSeen(history, t, r)
  PROVE  SeenInv' /\ db'[t] = rows
BY DEF SeenInv, Full

LEMMA PartialSees ==
  ASSUME SeenInv, NEW t \in Stored, NEW rows, Partial(t, rows), history' = history,
         DOMAIN db = Stored, \A r \in rows : IsSeen(history, t, r)
  PROVE  SeenInv'
BY FullSees DEF Partial


LEMMA VersionsAreSeen ==
  ASSUME HistoryInv
  PROVE  /\ history \in Seq(Orgs)
         /\ \A i \in Versions : history[i] \in SeenVersions /\ history[i] \in Orgs
         /\ Later \subseteq Versions
         /\ asOf \in Versions => Last(history) \in SeenVersions
<1>1. history \in Seq(Orgs)
  BY IdsAssumption DEF HistoryInv
<1>2. DOMAIN history = 1 .. Len(history) /\ Len(history) \in Nat
  BY <1>1, LenProperties
<1>3. \A i \in Versions : history[i] \in SeenVersions /\ history[i] \in Orgs
  BY <1>1, <1>2 DEF Versions, SeenVersions, ToSet
<1>4. Later \subseteq Versions
  BY <1>2 DEF HistoryInv, Later, Versions
<1>5. asOf \in Versions => Last(history) \in SeenVersions
  BY <1>2, <1>3 DEF Versions, Last
<1>6. QED
  BY <1>1, <1>3, <1>4, <1>5

LEMMA ListingsTell ==
  ASSUME Inv, SeenInv, CompleteInv, StageInv, NEW t \in Listings, CollectListing(t)
  PROVE  SeenInv' /\ CompleteInv' /\ StageInv'
<1>1. t \in ToSet(Order) /\ t \in Stored /\ t \notin DOMAIN Parent /\ t \notin RoleTables
  BY OrderIsStored DEF Listings, ToSet, RoleTables, Parent
<1>2. Due(t) /\ history' = history /\ DOMAIN db = Stored /\ HistoryInv
  BY DEF CollectListing, Due, Inv, TablesAreKnown
<1>3. PICK v \in Versions :
        \/ Full(t, ListedRows(t, history[v])) /\ UNCHANGED <<faults, lost>>
        \/ Partial(t, ListedRows(t, history[v]))
  BY DEF CollectListing
<1>4. history[v] \in SeenVersions /\ history \in Seq(Orgs)
  BY <1>2, VersionsAreSeen
<1>5. \A r \in ListedRows(t, history[v]) : IsSeen(history, t, r)
  BY <1>4, ListedRowsAreSeen DEF SeenVersions
<1>6. CASE Full(t, ListedRows(t, history[v])) /\ UNCHANGED <<faults, lost>>
  <2>1. SeenInv' /\ db'[t] = ListedRows(t, history[v])
    BY <1>1, <1>2, <1>5, <1>6, FullSees
  <2>2. Leaves(t)
    BY <1>2, <1>6, FullLeaves
  <2>3. ListingIsComplete(t)'
    BY <1>2, <1>4, <2>1 DEF ListingIsComplete, SeenVersions
  <2>4. QED
    BY <1>1, <1>2, <2>1, <2>2, <2>3, CollectingKeeps
<1>7. CASE Partial(t, ListedRows(t, history[v]))
  <2>1. SeenInv'
    BY <1>1, <1>2, <1>5, <1>7, PartialSees
  <2>2. Leaves(t) /\ t \in lost'
    BY <1>2, <1>7, PartialLeaves
  <2>3. QED
    BY <1>1, <1>2, <2>1, <2>2, CollectingKeeps
<1>8. QED
  BY <1>3, <1>6, <1>7

LEMMA ParentsAreOthers ==
  ASSUME NEW t \in DOMAIN Parent
  PROVE  t \in ToSet(Order) /\ t \in Stored /\ t \notin Listings
         /\ Parent[t] \in Stored /\ Parent[t] # t
<1>1. Position[Parent[t]] # Position[t] /\ {t, Parent[t]} \subseteq ToSet(Order)
  BY Positions
<1>2. QED
  BY <1>1, OrderIsStored DEF Listings

LEMMA ChildrenTell ==
  ASSUME Inv, SeenInv, CompleteInv, StageInv, NEW t \in DOMAIN Parent \ RoleTables,
         CollectChildren(t)
  PROVE  SeenInv' /\ CompleteInv' /\ StageInv'
<1>1. t \in ToSet(Order) /\ t \in Stored /\ t \notin Listings
      /\ Parent[t] \in Stored /\ Parent[t] # t
  BY ParentsAreOthers
<1>2. Due(t) /\ history' = history /\ DOMAIN db = Stored /\ HistoryInv
  BY DEF CollectChildren, Due, Inv, TablesAreKnown
<1>3. PICK v \in [db[Parent[t]] -> Later] :
        Collected(t, UNION {ChildRows(t, p, history[v[p]]) : p \in DOMAIN v})
  BY DEF CollectChildren
<1> DEFINE rows == UNION {ChildRows(t, p, history[v[p]]) : p \in DOMAIN v}
<1>4. \A p \in db[Parent[t]] : history[v[p]] \in SeenVersions
  BY <1>2, VersionsAreSeen
<1>5. \A p \in db[Parent[t]] : ChildRows(t, p, history[v[p]]) \subseteq rows
  OBVIOUS
<1>6. \A r \in rows : IsSeen(history, t, r)
  <2>1. SUFFICES ASSUME NEW r \in rows PROVE IsSeen(history, t, r)
    OBVIOUS
  <2>2. PICK p \in DOMAIN v : r \in ChildRows(t, p, history[v[p]])
    BY <2>1
  <2>3. history[v[p]] \in ToSet(history) /\ history \in Seq(Orgs)
    BY <1>2, <1>4, VersionsAreSeen DEF SeenVersions
  <2>4. QED
    BY <2>2, <2>3, ChildRowsAreSeen
<1> HIDE DEF rows
<1>7. CASE Full(t, rows) /\ UNCHANGED <<faults, lost>>
  <2>1. SeenInv' /\ db'[t] = rows
    BY <1>1, <1>2, <1>6, <1>7, FullSees
  <2>2. Leaves(t)
    BY <1>2, <1>7, FullLeaves
  <2>3. db'[Parent[t]] = db[Parent[t]]
    BY <1>1, <2>2 DEF Leaves
  <2>4. ChildrenAreComplete(t)'
    BY <1>2, <1>4, <1>5, <2>1, <2>3 DEF ChildrenAreComplete, SeenVersions
  <2>5. QED
    BY <1>1, <1>2, <2>1, <2>2, <2>4, CollectingKeeps
<1>8. CASE Partial(t, rows)
  <2>1. SeenInv'
    BY <1>1, <1>2, <1>6, <1>8, PartialSees
  <2>2. Leaves(t) /\ t \in lost'
    BY <1>2, <1>8, PartialLeaves
  <2>3. QED
    BY <1>1, <1>2, <2>1, <2>2, CollectingKeeps
<1>9. QED
  BY <1>3, <1>7, <1>8 DEF Collected, rows


LEMMA AssignmentsTell ==
  ASSUME Inv, SeenInv, CompleteInv, StageInv, asOf \in Versions,
         NEW t \in RoleTables, CollectAssignments(t)
  PROVE  SeenInv' /\ CompleteInv' /\ StageInv'
<1>1. t \in ToSet(Order) /\ t \in Stored /\ t \notin Listings
      /\ Parent[t] \in Stored /\ Parent[t] # t
  BY ParentsAreOthers DEF RoleTables, Parent
<1>2. Due(t) /\ history' = history /\ DOMAIN db = Stored /\ HistoryInv
  BY DEF CollectAssignments, Due, Inv, TablesAreKnown
<1>3. PICK v \in [db[Parent[t]] -> Later] :
        \/ \E w \in [AssignmentsSeen(t, v) -> Later],
              failed \in SUBSET {a \in AssignmentsSeen(t, v) : IsScoped(a)} :
             /\ faults' = faults + Cardinality(failed) /\ UNCHANGED lost
             /\ Full(t, {ScopedRow(a, history[w[a]], a \in failed) : a \in AssignmentsSeen(t, v)})
        \/ Partial(t, {ScopedRow(a, Last(history), FALSE) : a \in AssignmentsSeen(t, v)})
  BY DEF CollectAssignments
<1> DEFINE seen == AssignmentsSeen(t, v)
<1>4. /\ history \in Seq(Orgs) /\ Last(history) \in ToSet(history)
      /\ \A i \in Later : history[i] \in ToSet(history)
  BY <1>2, VersionsAreSeen DEF SeenVersions
<1>5. ASSUME NEW a \in seen
      PROVE  \E org \in ToSet(history) : a \in org.roles /\ IsDirectActive(a)
                                           /\ a.from \in {"user", "group", "client"}
  <2>1. PICK p \in db[Parent[t]] :
          a \in RolesOf(history[v[p]], RoleHolder[t], p.id) /\ IsDirectActive(a)
    BY <1>5 DEF AssignmentsSeen
  <2>2. RoleHolder[t] \in {"user", "group", "client"}
    BY DEF RoleTables, RoleHolder
  <2>3. QED
    BY <1>4, <2>1, <2>2 DEF RolesOf
<1>6. ASSUME NEW a \in seen, NEW org \in ToSet(history), NEW failed
      PROVE  IsSeen(history, t, ScopedRow(a, org, failed))
  <2>1. AssignmentIsSeen(Known(history), ScopedRow(a, org, failed))
    BY <1>4, <1>5, ScopedRowsAreSeen
  <2>2. t \notin {"users", "groups", "applications", "api_services", "devices",
                  "group_memberships", "application_secrets", "api_service_secrets",
                  "custom_role_permissions", "resources", "resource_set_role_assignments",
                  "policies", "identity_providers", "authorization_servers", "resource_sets",
                  "custom_roles"}
    BY DEF RoleTables
  <2>3. QED
    BY <2>1, <2>2 DEF IsSeen
<1>7. ASSUME NEW p \in db[Parent[t]], IsAsked(t, p),
             NEW a \in RolesOf(history[v[p]], RoleHolder[t], p.id), IsDirectActive(a)
      PROVE  a \in seen
  BY <1>7 DEF AssignmentsSeen
<1>8. seen \subseteq UNION {org.roles : org \in ToSet(history)}
  BY <1>5
<1> HIDE DEF seen
<1>9. ASSUME NEW w \in [seen -> Later], NEW failed \in SUBSET {a \in seen : IsScoped(a)},
             faults' = faults + Cardinality(failed), UNCHANGED lost,
             Full(t, {ScopedRow(a, history[w[a]], a \in failed) : a \in seen})
      PROVE  SeenInv' /\ CompleteInv' /\ StageInv'
  <2> DEFINE rows == {ScopedRow(a, history[w[a]], a \in failed) : a \in seen}
  <2>1. \A r \in rows : IsSeen(history, t, r)
    <3>1. SUFFICES ASSUME NEW r \in rows PROVE IsSeen(history, t, r)
      OBVIOUS
    <3>2. PICK a \in seen : r = ScopedRow(a, history[w[a]], a \in failed)
      BY <3>1, Zenon
    <3>3. w[a] \in Later
      OBVIOUS
    <3>4. QED
      BY <1>4, <1>6, <3>2, <3>3
  <2>2. \A a \in seen : ScopedRow(a, history[w[a]], a \in failed) \in rows
    BY Zenon
  <2> HIDE DEF rows
  <2>3. Full(t, rows)
    BY <1>9 DEF rows
  <2>4. SeenInv' /\ db'[t] = rows
    BY <1>1, <1>2, <2>1, <2>3, FullSees
  <2>5. IsFiniteSet(failed) /\ Cardinality(failed) \in Nat
    <3>1. IsFiniteSet(UNION {org.roles : org \in ToSet(history)})
      BY <1>2, RolesAssumption DEF HistoryInv
    <3>2. failed \in SUBSET UNION {org.roles : org \in ToSet(history)}
      BY <1>8
    <3>3. IsFiniteSet(failed)
      BY <3>1, <3>2, FS_Subset
    <3>4. QED
      BY <3>3, FS_CardinalityType
  <2>6. \A a \in failed : faults' > 0
    <3>1. failed # {} => Cardinality(failed) # 0
      BY <2>5, FS_EmptySet
    <3>2. QED
      BY <1>9, <2>5, <3>1 DEF StageInv
  <2>7. Leaves(t)
    <3>1. \A u \in Stored \ {t} : db'[u] = db[u]
      BY <1>2, <2>3 DEF Full
    <3>2. faults' \in Nat /\ faults' >= faults /\ (faults' = 0 => faults = 0)
      BY <1>9, <2>5 DEF StageInv
    <3>3. QED
      BY <1>2, <1>9, <3>1, <3>2 DEF Leaves, StageInv
  <2>8. AssignmentsAreComplete(t)'
    <3>1. db'[Parent[t]] = db[Parent[t]]
      BY <1>1, <2>7 DEF Leaves
    <3>2. SUFFICES ASSUME NEW p \in db[Parent[t]], IsAsked(t, p)
                   PROVE  \E org \in ToSet(history) : \A a \in RolesOf(org, RoleHolder[t], p.id) :
                            IsDirectActive(a) =>
                              \E x \in ToSet(history), lostScope \in BOOLEAN :
                                ScopedRow(a, x, lostScope) \in db'[t] /\ (lostScope => faults' > 0)
      BY <1>2, <3>1 DEF AssignmentsAreComplete, SeenVersions
    <3>3. history[v[p]] \in ToSet(history)
      BY <1>4
    <3>4. ASSUME NEW a \in RolesOf(history[v[p]], RoleHolder[t], p.id), IsDirectActive(a)
          PROVE  \E x \in ToSet(history), lostScope \in BOOLEAN :
                   ScopedRow(a, x, lostScope) \in db'[t] /\ (lostScope => faults' > 0)
      <4>1. a \in seen
        BY <1>7, <3>2, <3>4
      <4>2. history[w[a]] \in ToSet(history)
        BY <1>4, <4>1
      <4>3. (a \in failed) \in BOOLEAN
        OBVIOUS
      <4>4. ScopedRow(a, history[w[a]], a \in failed) \in db'[t]
        BY <2>2, <2>4, <4>1
      <4>5. (a \in failed) => faults' > 0
        BY <2>6
      <4>6. QED
        BY <4>2, <4>3, <4>4, <4>5, Zenon
    <3>5. QED
      BY <3>3, <3>4
  <2>9. QED
    BY <1>1, <1>2, <2>4, <2>7, <2>8, CollectingKeeps
<1>10. CASE Partial(t, {ScopedRow(a, Last(history), FALSE) : a \in seen})
  <2>1. \A r \in {ScopedRow(a, Last(history), FALSE) : a \in seen} : IsSeen(history, t, r)
    BY <1>4, <1>6, Zenon
  <2>2. SeenInv'
    BY <1>1, <1>2, <1>10, <2>1, PartialSees
  <2>3. Leaves(t) /\ t \in lost'
    BY <1>2, <1>10, PartialLeaves
  <2>4. QED
    BY <1>1, <1>2, <2>2, <2>3, CollectingKeeps
<1>11. QED
  BY <1>3, <1>9, <1>10 DEF seen

LEMMA OthersTell ==
  ASSUME Inv, SeenInv, CompleteInv, StageInv,
         CollectionFails \/ Preprocess \/ Convert \/ Ended \/ UNCHANGED vars
  PROVE  SeenInv' /\ CompleteInv' /\ StageInv'
<1>1. \A t \in ToSet(Order) : t \notin DerivedTables
  BY Positions DEF Position, DerivedTables
<1>2. ASSUME \A t \in Stored \ DerivedTables : db'[t] = db[t], history' = history,
             UNCHANGED <<turn, lost>>, faults' \in Nat, faults' >= faults
      PROVE  CompleteInv'
  <2>1. \A t \in ToSet(Order) : db'[t] = db[t]
    BY <1>1, <1>2, OrderIsStored
  <2>2. \A t \in DOMAIN Parent : db'[Parent[t]] = db[Parent[t]]
    BY <2>1, Positions
  <2>3. SUFFICES ASSUME NEW t \in ToSet(Order), Done(t)', t \notin lost'
                 PROVE  /\ t \in Listings => ListingIsComplete(t)'
                        /\ t \in DOMAIN Parent \ RoleTables => ChildrenAreComplete(t)'
                        /\ t \in RoleTables => AssignmentsAreComplete(t)'
    BY DEF CompleteInv
  <2>4. Done(t) /\ t \notin lost
    BY <1>2, <2>3 DEF Done
  <2>5. t \in Listings => ListingIsComplete(t)'
    BY <1>2, <2>1, <2>4 DEF CompleteInv, ListingIsComplete, SeenVersions
  <2>6. t \in DOMAIN Parent \ RoleTables => ChildrenAreComplete(t)'
    BY <1>2, <2>1, <2>2, <2>4 DEF CompleteInv, ChildrenAreComplete, SeenVersions
  <2>7. t \in RoleTables => AssignmentsAreComplete(t)'
    <3>1. SUFFICES ASSUME t \in RoleTables PROVE AssignmentsAreComplete(t)'
      OBVIOUS
    <3>2. AssignmentsAreComplete(t) /\ db'[Parent[t]] = db[Parent[t]]
      BY <2>2, <2>4, <3>1 DEF CompleteInv, RoleTables, Parent
    <3>3. faults > 0 => faults' > 0
      BY <1>2 DEF StageInv
    <3>4. QED
      BY <1>2, <2>1, <3>2, <3>3 DEF AssignmentsAreComplete, SeenVersions
  <2>8. QED
    BY <2>5, <2>6, <2>7
<1>3. CASE UNCHANGED <<history, turn, lost, db, faults>> /\ StageInv'
  <2>1. CompleteInv'
    BY <1>2, <1>3 DEF StageInv
  <2>2. SeenInv'
    BY <1>3 DEF SeenInv
  <2>3. QED
    BY <1>3, <2>1, <2>2
<1>4. CASE CollectionFails
  <2>1. /\ UNCHANGED <<history, turn, lost, db>> /\ faults' = faults + 1
        /\ stage' = "failed"
    BY <1>4 DEF CollectionFails
  <2>2. StageInv' /\ faults' \in Nat /\ faults' >= faults
    BY <2>1 DEF StageInv
  <2>3. CompleteInv'
    BY <1>2, <2>1, <2>2
  <2>4. SeenInv'
    BY <2>1 DEF SeenInv
  <2>5. QED
    BY <2>2, <2>3, <2>4
<1>5. CASE Preprocess
  <2>1. UNCHANGED <<history, turn, faults, lost>>
    BY <1>5 DEF Preprocess
  <2>2. StageInv'
    BY <1>5, <2>1 DEF Preprocess, StageInv
  <2>3. \A t \in Stored \ DerivedTables : db'[t] = db[t]
    BY <1>5 DEF Preprocess, DerivedTables, Inv, TablesAreKnown
  <2>4. CompleteInv'
    BY <1>2, <2>1, <2>3 DEF StageInv
  <2>5. ASSUME NEW t \in DerivedTables, NEW r PROVE IsSeen(history, t, r)
    BY <2>5 DEF DerivedTables, IsSeen, RoleTables
  <2>6. SeenInv'
    BY <2>1, <2>3, <2>5 DEF SeenInv
  <2>7. QED
    BY <2>2, <2>4, <2>6
<1>6. CASE Convert
  BY <1>3, <1>6 DEF Convert, StageInv
<1>7. CASE Ended \/ UNCHANGED vars
  BY <1>3, <1>7 DEF Ended, vars, StageInv
<1>8. QED
  BY <1>4, <1>5, <1>6, <1>7

TellInv == SeenInv /\ CompleteInv /\ StageInv /\ asOf \in Versions

LEMMA TellHolds == Spec => []TellInv
<1>1. Init => TellInv
  <2>1. SUFFICES ASSUME Init PROVE TellInv
    OBVIOUS
  <2>2. SeenInv
    BY <2>1 DEF Init, SeenInv
  <2>3. \A t \in ToSet(Order) : ~Done(t)
    BY <2>1 DEF Init, Done
  <2>4. StageInv
    BY <2>1, Positions DEF Init, StageInv
  <2>5. asOf \in Versions
    <3>1. history \in Seq(Orgs) /\ history # <<>>
      BY <2>1, IdsAssumption DEF Init
    <3>2. Len(history) >= 1 /\ Len(history) \in Nat
      BY <3>1, EmptySeq, LenProperties
    <3>3. QED
      BY <2>1, <3>2 DEF Init, Versions
  <2>6. QED
    BY <2>2, <2>3, <2>4, <2>5 DEF TellInv, CompleteInv
<1>2. Inv /\ TellInv /\ [Next]_vars => TellInv'
  <2>1. SUFFICES ASSUME Inv, TellInv, [Next]_vars PROVE TellInv'
    OBVIOUS
  <2>2. (asOf \in Versions)'
    BY <2>1 DEF TellInv, Next, vars, CollectListing, CollectChildren, CollectAssignments, Due,
       CollectionFails, Preprocess, Convert, Ended, Versions
  <2>3. SeenInv' /\ CompleteInv' /\ StageInv'
    BY <2>1, ListingsTell, ChildrenTell, AssignmentsTell, OthersTell DEF Next, TellInv
  <2>4. QED
    BY <2>2, <2>3 DEF TellInv
<1>3. QED
  BY <1>1, <1>2, InvHolds, PTL DEF Spec


-----------------------------------------------------------------------------
(* What the members of resource sets resolve to. *)

TablesOfKind ==
  [users |-> {"users"}, groups |-> {"groups"}, apps |-> {"applications", "api_services"},
   devices |-> {"devices"}, servers |-> {"authorization_servers"},
   idps |-> {"identity_providers"}, policies |-> {"policies"}]

\* The ids that a resource means, by its form.
MeansIds(r, ids) ==
  /\ \A kind \in DOMAIN UrlWords : IsAll(r, kind) =>
       ids = UNION {AllIds(t) : t \in TablesOfKind[kind]}
  /\ \A kind \in DOMAIN UrlWords \ {"policies"} : IsOne(r, kind, r.means[3]) =>
       ids = UNION {ExistingIds(t, r.means[3]) : t \in TablesOfKind[kind]}
  /\ IsType(r, "apps", r.means[3]) => ids = AppsAndIntegrationsByType(r.means[3])
  /\ IsType(r, "policies", r.means[3]) => ids = PoliciesOfType(r.means[3])
  /\ IsMembers(r, r.means[2]) => ids = GroupUserIds({r.means[2]})
  /\ IsOther(r) => ids = {}

LEMMA WordsOfUrls ==
  ASSUME NEW kind \in DOMAIN UrlWords
  PROVE  /\ UrlWords[kind] \in DOMAIN UrlTables
         /\ UrlTables[UrlWords[kind]] = TablesOfKind[kind]
         /\ UrlWords[kind] = "policies" => kind = "policies"
<1>1. kind \in {"users", "groups", "apps", "devices", "servers", "idps", "policies"}
  BY DEF UrlWords
<1>2. /\ UrlWords["users"] = "users" /\ UrlWords["groups"] = "groups"
      /\ UrlWords["apps"] = "apps" /\ UrlWords["devices"] = "devices"
      /\ UrlWords["servers"] = "authorizationServers" /\ UrlWords["idps"] = "idps"
      /\ UrlWords["policies"] = "policies"
  BY DEF UrlWords
<1>3. /\ UrlTables["users"] = {"users"} /\ UrlTables["groups"] = {"groups"}
      /\ UrlTables["apps"] = {"applications", "api_services"}
      /\ UrlTables["devices"] = {"devices"} /\ UrlTables["policies"] = {"policies"}
      /\ UrlTables["authorizationServers"] = {"authorization_servers"}
      /\ UrlTables["idps"] = {"identity_providers"}
      /\ DOMAIN UrlTables = {"users", "groups", "apps", "devices", "authorizationServers",
                             "idps", "policies"}
  BY DEF UrlTables
<1>4. /\ TablesOfKind["users"] = {"users"} /\ TablesOfKind["groups"] = {"groups"}
      /\ TablesOfKind["apps"] = {"applications", "api_services"}
      /\ TablesOfKind["devices"] = {"devices"} /\ TablesOfKind["policies"] = {"policies"}
      /\ TablesOfKind["servers"] = {"authorization_servers"}
      /\ TablesOfKind["idps"] = {"identity_providers"}
  BY DEF TablesOfKind
<1>5. CASE kind = "users"
  BY <1>2, <1>3, <1>4, <1>5
<1>6. CASE kind = "groups"
  BY <1>2, <1>3, <1>4, <1>6
<1>7. CASE kind = "apps"
  BY <1>2, <1>3, <1>4, <1>7
<1>8. CASE kind = "devices"
  BY <1>2, <1>3, <1>4, <1>8
<1>9. CASE kind = "servers"
  BY <1>2, <1>3, <1>4, <1>9
<1>10. CASE kind = "idps"
  BY <1>2, <1>3, <1>4, <1>10
<1>11. CASE kind = "policies"
  BY <1>2, <1>3, <1>4, <1>11
<1>12. QED
  BY <1>1, <1>5, <1>6, <1>7, <1>8, <1>9, <1>10, <1>11

LEMMA UrlOfAll ==
  ASSUME NEW kind \in DOMAIN UrlWords
  PROVE  ResolveUrl(Path(<<UrlWords[kind]>>)) = UNION {AllIds(t) : t \in TablesOfKind[kind]}
<1> DEFINE w == UrlWords[kind]
           url == Path(<<w>>)
<1>1. w \in DOMAIN UrlTables /\ UrlTables[w] = TablesOfKind[kind]
  BY WordsOfUrls
<1> HIDE DEF w
<1>2. /\ url.path = <<w>> /\ url.query = <<>>
      /\ Len(url.path) = 1 /\ url.path[1] = w /\ Len(url.query) = 0
  BY DEF Path
<1> HIDE DEF url
<1>3. ResolveUrl(url) = UNION {AllIds(t) : t \in UrlTables[w]}
  BY <1>1, <1>2 DEF ResolveUrl
<1>4. QED
  BY <1>1, <1>3 DEF w, url

LEMMA UrlOfOne ==
  ASSUME NEW kind \in DOMAIN UrlWords \ {"policies"}, NEW id, id \notin Words
  PROVE  ResolveUrl(Path(<<UrlWords[kind], id>>))
           = UNION {ExistingIds(t, id) : t \in TablesOfKind[kind]}
<1> DEFINE w == UrlWords[kind]
           url == Path(<<w, id>>)
<1>1. w \in DOMAIN UrlTables /\ UrlTables[w] = TablesOfKind[kind] /\ w # "policies"
  BY WordsOfUrls
<1>2. id # "users"
  BY DEF Words
<1> HIDE DEF w
<1>3. /\ url.path = <<w, id>> /\ url.query = <<>>
      /\ Len(url.path) = 2 /\ url.path[1] = w /\ Last(url.path) = id
  BY DEF Path, Last
<1> HIDE DEF url
<1>4. url.path # <<"apps">> /\ url.path # <<"policies">>
  BY <1>3
<1>5. ResolveUrl(url) = UNION {ExistingIds(t, id) : t \in UrlTables[w]}
  BY <1>1, <1>2, <1>3, <1>4 DEF ResolveUrl
<1>6. QED
  BY <1>1, <1>5 DEF w, url

LEMMA UrlOfType ==
  ASSUME NEW kind \in {"apps", "policies"}, NEW type, NEW url \in TypeUrls(kind, type)
  PROVE  /\ kind = "apps" => ResolveUrl(url) = AppsAndIntegrationsByType(type)
         /\ kind = "policies" => ResolveUrl(url) = PoliciesOfType(type)
<1>1. CASE kind = "apps"
  <2>1. url.path = <<"apps">> /\ url.query = <<"filter", type>>
    BY <1>1 DEF TypeUrls
  <2>2. /\ Len(url.query) = 2 /\ url.query[1] = "filter" /\ url.query[2] = type
        /\ url.path[1] = "apps" /\ url.query # <<>>
    BY <2>1
  <2>3. QED
    BY <1>1, <2>1, <2>2 DEF ResolveUrl
<1>2. CASE kind = "policies" /\ url = Path(<<"policies", type>>)
  <2>1. /\ url.path = <<"policies", type>> /\ url.query = <<>>
        /\ Len(url.path) = 2 /\ url.path[1] = "policies" /\ Last(url.path) = type
        /\ url.path # <<"apps">> /\ url.path # <<"policies">>
    BY <1>2 DEF Path, Last
  <2>2. QED
    BY <1>2, <2>1 DEF ResolveUrl
<1>3. CASE kind = "policies" /\ url = [path |-> <<"policies">>, query |-> <<"type", type>>]
  <2>1. /\ url.path = <<"policies">> /\ url.query = <<"type", type>>
        /\ url.path[1] = "policies" /\ url.path # <<"apps">>
        /\ Len(url.query) = 2 /\ url.query[1] = "type" /\ url.query[2] = type
    BY <1>3
  <2>2. QED
    BY <1>3, <2>1 DEF ResolveUrl
<1>4. QED
  BY <1>1, <1>2, <1>3 DEF TypeUrls

LEMMA UrlOfMembers ==
  ASSUME NEW group
  PROVE  ResolveUrl(Path(<<"groups", group, "users">>)) = GroupUserIds({group})
<1> DEFINE url == Path(<<"groups", group, "users">>)
<1>1. /\ url.path = <<"groups", group, "users">> /\ url.path[1] = "groups"
      /\ Len(url.path) = 3 /\ Last(url.path) = "users" /\ url.path[Len(url.path) - 1] = group
  BY DEF Path, Last
<1> HIDE DEF url
<1>2. ResolveUrl(url) = GroupUserIds({group})
  BY <1>1 DEF ResolveUrl
<1>3. QED
  BY <1>2 DEF url

LEMMA UrlOfOther ==
  ASSUME NEW url, url.path[1] \notin Words
  PROVE  ResolveUrl(url) = {}
<1>1. url.path[1] \notin DOMAIN UrlTables
  BY DEF UrlTables, Words
<1>2. url.path[1] \notin {"groups", "policies", "apps"}
  BY DEF Words
<1>3. url.path # <<"apps">> /\ url.path # <<"policies">>
  BY <1>2
<1>4. QED
  BY <1>1, <1>2, <1>3 DEF ResolveUrl


LEMMA WordsOfOrns ==
  ASSUME NEW kind \in DOMAIN UrlWords
  PROVE  /\ OrnWords[kind] \in DOMAIN OrnTables
         /\ OrnTables[OrnWords[kind]] = TablesOfKind[kind]
         /\ OrnWords[kind] # "contained_resources"
         /\ OrnWords[kind] = "policies" => kind = "policies"
         /\ OrnWords[kind] = "apps" => kind = "apps"
<1>1. kind \in {"users", "groups", "apps", "devices", "servers", "idps", "policies"}
  BY DEF UrlWords
<1>2. /\ OrnWords["users"] = "users" /\ OrnWords["groups"] = "groups"
      /\ OrnWords["apps"] = "apps" /\ OrnWords["devices"] = "devices"
      /\ OrnWords["servers"] = "authorization_servers"
      /\ OrnWords["idps"] = "identity_provider" /\ OrnWords["policies"] = "policies"
  BY DEF OrnWords
<1>3. /\ OrnTables["users"] = {"users"} /\ OrnTables["groups"] = {"groups"}
      /\ OrnTables["apps"] = {"applications", "api_services"}
      /\ OrnTables["devices"] = {"devices"} /\ OrnTables["policies"] = {"policies"}
      /\ OrnTables["authorization_servers"] = {"authorization_servers"}
      /\ OrnTables["identity_provider"] = {"identity_providers"}
      /\ DOMAIN OrnTables = {"users", "groups", "apps", "devices", "authorization_servers",
                             "identity_provider", "policies"}
  BY DEF OrnTables
<1>4. /\ TablesOfKind["users"] = {"users"} /\ TablesOfKind["groups"] = {"groups"}
      /\ TablesOfKind["apps"] = {"applications", "api_services"}
      /\ TablesOfKind["devices"] = {"devices"} /\ TablesOfKind["policies"] = {"policies"}
      /\ TablesOfKind["servers"] = {"authorization_servers"}
      /\ TablesOfKind["idps"] = {"identity_providers"}
  BY DEF TablesOfKind
<1>5. CASE kind = "users"
  BY <1>2, <1>3, <1>4, <1>5 DEF Words
<1>6. CASE kind = "groups"
  BY <1>2, <1>3, <1>4, <1>6 DEF Words
<1>7. CASE kind = "apps"
  BY <1>2, <1>3, <1>4, <1>7 DEF Words
<1>8. CASE kind = "devices"
  BY <1>2, <1>3, <1>4, <1>8 DEF Words
<1>9. CASE kind = "servers"
  BY <1>2, <1>3, <1>4, <1>9 DEF Words
<1>10. CASE kind = "idps"
  BY <1>2, <1>3, <1>4, <1>10 DEF Words
<1>11. CASE kind = "policies"
  BY <1>2, <1>3, <1>4, <1>11 DEF Words
<1>12. QED
  BY <1>1, <1>5, <1>6, <1>7, <1>8, <1>9, <1>10, <1>11

LEMMA WordsAreSearched ==
  /\ \A w \in DOMAIN OrnTables : w \in Words \ {"contained_resources"}
  /\ \A k \in DOMAIN OrnOrder : OrnOrder[k] \in Words \ {"contained_resources"}
  /\ \A j, k \in DOMAIN OrnOrder : OrnOrder[j] = OrnOrder[k] => j = k
  /\ DOMAIN OrnOrder = 1 .. 6
  /\ \A kind \in DOMAIN UrlWords \ {"policies"} : \E k \in 1 .. 6 : OrnOrder[k] = OrnWords[kind]
<1>1. \A w \in DOMAIN OrnTables : w \in Words \ {"contained_resources"}
  BY DEF OrnTables, Words
<1>2. DOMAIN OrnOrder = 1 .. 6
  BY DEF OrnOrder
<1>3. /\ OrnOrder[1] = "users" /\ OrnOrder[2] = "groups" /\ OrnOrder[3] = "apps"
      /\ OrnOrder[4] = "devices" /\ OrnOrder[5] = "authorization_servers"
      /\ OrnOrder[6] = "identity_provider"
  BY DEF OrnOrder
<1>4. \A k \in 1 .. 6 : k = 1 \/ k = 2 \/ k = 3 \/ k = 4 \/ k = 5 \/ k = 6
  OBVIOUS
<1>5. \A k \in DOMAIN OrnOrder : OrnOrder[k] \in Words \ {"contained_resources"}
  BY <1>2, <1>3, <1>4 DEF Words
<1>6. \A j, k \in DOMAIN OrnOrder : OrnOrder[j] = OrnOrder[k] => j = k
  BY <1>2, <1>3, <1>4
<1>7. ASSUME NEW kind \in DOMAIN UrlWords \ {"policies"}
      PROVE  \E k \in 1 .. 6 : OrnOrder[k] = OrnWords[kind]
  <2>1. kind \in {"users", "groups", "apps", "devices", "servers", "idps"}
    BY DEF UrlWords
  <2>2. /\ OrnWords["users"] = "users" /\ OrnWords["groups"] = "groups"
        /\ OrnWords["apps"] = "apps" /\ OrnWords["devices"] = "devices"
        /\ OrnWords["servers"] = "authorization_servers"
        /\ OrnWords["idps"] = "identity_provider"
    BY DEF OrnWords
  <2>3. /\ OrnWords[kind] = OrnOrder[1] \/ OrnWords[kind] = OrnOrder[2]
           \/ OrnWords[kind] = OrnOrder[3] \/ OrnWords[kind] = OrnOrder[4]
           \/ OrnWords[kind] = OrnOrder[5] \/ OrnWords[kind] = OrnOrder[6]
    BY <1>3, <2>1, <2>2
  <2>4. {1, 2, 3, 4, 5, 6} \subseteq 1 .. 6
    OBVIOUS
  <2>5. QED
    BY <2>3, <2>4
<1>8. QED
  BY <1>1, <1>2, <1>5, <1>6, <1>7

\* An ORN that names one kind.
LEMMA OneIsNamed ==
  ASSUME NEW orn, NEW k \in 1 .. 6, NEW n \in Nat, Len(orn) = n,
         \E i \in 1 .. n - 1 : orn[i] = OrnOrder[k],
         \A i \in 1 .. n - 1 : orn[i] = OrnOrder[k] \/ orn[i] \notin Words
  PROVE  TablesNamed(orn) = OrnTables[OrnOrder[k]]
<1>1. \A j \in Named(orn) : j = k
  BY WordsAreSearched DEF Named
<1>2. k \in Named(orn)
  BY WordsAreSearched DEF Named
<1>3. FirstNamed(orn) = {k}
  <2>1. Named(orn) = {k} /\ k <= k
    BY <1>1, <1>2
  <2>2. QED
    BY <2>1 DEF FirstNamed
<1>4. TablesNamed(orn) = UNION {OrnTables[OrnOrder[j]] : j \in {k}}
  BY <1>3 DEF TablesNamed
<1>5. UNION {OrnTables[OrnOrder[j]] : j \in {k}} = OrnTables[OrnOrder[k]]
  OBVIOUS
<1>6. QED
  BY <1>4, <1>5

\* An ORN whose last part is no word of its own refers to a type or one thing.
LEMMA OrnOfOne ==
  ASSUME NEW orn \in Seq(STRING), NEW n \in {6, 7}, Len(orn) = n, orn[n] \notin Words,
         NEW k \in 1 .. 6, orn[5] = OrnOrder[k],
         \A i \in 1 .. n - 1 : i = 5 \/ orn[i] \notin Words
  PROVE  ResolveOrn(orn) =
           IF n = 6 /\ orn[5] = "apps" THEN AppsAndIntegrationsByType(orn[6])
           ELSE UNION {ExistingIds(t, orn[n]) : t \in OrnTables[OrnOrder[k]]}
<1>1. Last(orn) = orn[n] /\ orn # <<>>
  BY DEF Last
<1>2. Last(orn) # "contained_resources" /\ Last(orn) \notin DOMAIN OrnTables
  BY <1>1, WordsAreSearched DEF Words
<1>3. ResourceMemberGroupId(NoUrl, orn) = None
  BY <1>2 DEF ResourceMemberGroupId
<1>4. orn[5] # "policies"
  <2>1. \A j \in 1 .. 6 : OrnOrder[j] # "policies"
    BY DEF OrnOrder
  <2>2. QED
    BY <2>1
<1>5. TablesNamed(orn) = OrnTables[OrnOrder[k]]
  <2>1. 5 \in 1 .. n - 1 /\ n \in Nat
    OBVIOUS
  <2>2. QED
    BY <2>1, OneIsNamed
<1>6. QED
  BY <1>1, <1>2, <1>3, <1>4, <1>5 DEF ResolveOrn

LEMMA ShortIndices == \A i \in 1 .. 6 - 1 : i \in 1 .. 4 \/ i = 5
OBVIOUS

LEMMA LongIndices == \A i \in 1 .. 7 - 1 : i \in 1 .. 4 \/ i = 5 \/ i = 6
OBVIOUS

LEMMA OrnIsMeant ==
  ASSUME NEW r, r.orn # <<>>
  PROVE  MeansIds(r, ResolveOrn(r.orn))
<1> DEFINE orn == r.orn
<1>1. ASSUME NEW kind \in DOMAIN UrlWords, IsAll(r, kind)
      PROVE  ResolveOrn(orn) = UNION {AllIds(t) : t \in TablesOfKind[kind]}
  <2>1. Len(orn) = 5 /\ orn[5] = OrnWords[kind] /\ Last(orn) = orn[5]
    BY <1>1 DEF IsAll, IsOrn, Last
  <2>2. ResourceMemberGroupId(NoUrl, orn) = None
    BY <2>1, WordsOfOrns DEF ResourceMemberGroupId
  <2>3. ResolveOrn(orn) = UNION {AllIds(t) : t \in OrnTables[OrnWords[kind]]}
    BY <2>1, <2>2, WordsOfOrns DEF ResolveOrn
  <2>4. QED
    BY <2>3, WordsOfOrns
<1>2. ASSUME NEW kind \in DOMAIN UrlWords \ {"policies"}, NEW id, IsOne(r, kind, id)
      PROVE  ResolveOrn(orn) = UNION {ExistingIds(t, id) : t \in TablesOfKind[kind]}
  <2>1. PICK n \in {6, 7} : /\ Len(orn) = n /\ orn[n] = id /\ orn \in Seq(STRING)
                            /\ (n = 6 <=> kind # "apps") /\ orn[5] = OrnWords[kind]
                            /\ \A i \in 1 .. n - 1 : i = 5 \/ orn[i] \notin Words
    <3>1. CASE kind # "apps"
      <4>1. IsOrn(orn, 6) /\ orn[5] = OrnWords[kind] /\ orn[6] = id
        BY <1>2, <3>1 DEF IsOne
      <4>2. \A i \in 1 .. 6 - 1 : i = 5 \/ orn[i] \notin Words
        BY <4>1, ShortIndices DEF IsOrn
      <4>3. QED
        BY <3>1, <4>1, <4>2 DEF IsOrn
    <3>2. CASE kind = "apps"
      <4>1. IsOrn(orn, 7) /\ orn[5] = "apps" /\ orn[6] \notin Words /\ orn[7] = id
        BY <1>2, <3>2 DEF IsOne
      <4>2. \A i \in 1 .. 7 - 1 : i = 5 \/ orn[i] \notin Words
        BY <4>1, LongIndices DEF IsOrn
      <4>3. OrnWords[kind] = "apps"
        BY <3>2 DEF OrnWords
      <4>4. QED
        BY <3>2, <4>1, <4>2, <4>3 DEF IsOrn
    <3>3. QED
      BY <3>1, <3>2
  <2>2. PICK k \in 1 .. 6 : OrnOrder[k] = OrnWords[kind]
    BY WordsAreSearched
  <2>3. id \notin Words
    BY <1>2 DEF IsOne
  <2>4. ResolveOrn(orn) = IF n = 6 /\ orn[5] = "apps" THEN AppsAndIntegrationsByType(orn[6])
                          ELSE UNION {ExistingIds(t, orn[n]) : t \in OrnTables[OrnOrder[k]]}
    BY <2>1, <2>2, <2>3, OrnOfOne
  <2>5. QED
    BY <2>1, <2>2, <2>4, WordsOfOrns
<1>3. ASSUME NEW type, IsType(r, "apps", type)
      PROVE  ResolveOrn(orn) = AppsAndIntegrationsByType(type)
  <2>1. /\ IsOrn(orn, 6) /\ orn[5] = "apps" /\ orn[6] = type /\ type \notin Words
    BY <1>3 DEF IsType
  <2>2. \A i \in 1 .. 6 - 1 : i = 5 \/ orn[i] \notin Words
    BY <2>1, ShortIndices DEF IsOrn
  <2>3. OrnOrder[3] = "apps"
    BY DEF OrnOrder
  <2>4. ResolveOrn(orn) = IF 6 = 6 /\ orn[5] = "apps" THEN AppsAndIntegrationsByType(orn[6])
                          ELSE UNION {ExistingIds(t, orn[6]) : t \in OrnTables[OrnOrder[3]]}
    BY <2>1, <2>2, <2>3, OrnOfOne DEF IsOrn
  <2>5. QED
    BY <2>1, <2>4
<1>4. ASSUME NEW type, IsType(r, "policies", type)
      PROVE  ResolveOrn(orn) = PoliciesOfType(type)
  <2>1. /\ Len(orn) = 6 /\ orn[5] = "policies" /\ orn[6] = type /\ type \notin Words
    BY <1>4 DEF IsType, IsOrn
  <2>2. Last(orn) = type /\ type # "contained_resources" /\ type \notin DOMAIN OrnTables
    BY <2>1, WordsAreSearched DEF Last, Words
  <2>3. QED
    BY <2>1, <2>2 DEF ResolveOrn, ResourceMemberGroupId
<1>5. ASSUME NEW group, IsMembers(r, group)
      PROVE  ResolveOrn(orn) = GroupUserIds({group})
  <2>1. /\ Len(orn) = 7 /\ orn[5] = "groups" /\ orn[6] = group
        /\ orn[7] = "contained_resources" /\ group # None
    BY <1>5 DEF IsMembers, IsOrn, Words
  <2>2. ResourceMemberGroupId(NoUrl, orn) = group
    BY <2>1 DEF ResourceMemberGroupId, Last
  <2>3. QED
    BY <2>1, <2>2 DEF ResolveOrn
<1>6. ASSUME IsOther(r)
      PROVE  ResolveOrn(orn) = {}
  <2>1. /\ orn \in Seq(STRING) /\ Len(orn) \in Nat \ {0}
        /\ \A i \in 1 .. Len(orn) : orn[i] \notin Words \ {"contained_resources"}
    BY <1>6, EmptySeq, LenProperties DEF IsOther
  <2>2. \A i \in 1 .. Len(orn) : orn[i] \notin {"groups", "apps", "policies"}
    BY <2>1 DEF Words
  <2>3. Last(orn) \notin DOMAIN OrnTables
    BY <2>1, WordsAreSearched DEF Last
  <2>4. ResourceMemberGroupId(NoUrl, orn) = None
    BY <2>1, <2>2 DEF ResourceMemberGroupId
  <2>5. Named(orn) = {}
    BY <2>1, WordsAreSearched DEF Named
  <2>6. TablesNamed(orn) = {}
    BY <2>5 DEF TablesNamed, FirstNamed
  <2>7. QED
    BY <2>1, <2>2, <2>3, <2>4, <2>6 DEF ResolveOrn
<1>7. QED
  BY <1>1, <1>2, <1>3, <1>4, <1>5, <1>6 DEF MeansIds

LEMMA UrlIsMeant ==
  ASSUME NEW r, r.url # NoUrl
  PROVE  MeansIds(r, ResolveUrl(r.url))
<1>1. ASSUME NEW kind \in DOMAIN UrlWords, IsAll(r, kind)
      PROVE  ResolveUrl(r.url) = UNION {AllIds(t) : t \in TablesOfKind[kind]}
  BY <1>1, UrlOfAll DEF IsAll
<1>2. ASSUME NEW kind \in DOMAIN UrlWords \ {"policies"}, NEW id, IsOne(r, kind, id)
      PROVE  ResolveUrl(r.url) = UNION {ExistingIds(t, id) : t \in TablesOfKind[kind]}
  BY <1>2, UrlOfOne DEF IsOne
<1>3. ASSUME NEW type, IsType(r, "apps", type)
      PROVE  ResolveUrl(r.url) = AppsAndIntegrationsByType(type)
  BY <1>3, UrlOfType DEF IsType
<1>4. ASSUME NEW type, IsType(r, "policies", type)
      PROVE  ResolveUrl(r.url) = PoliciesOfType(type)
  BY <1>4, UrlOfType DEF IsType
<1>5. ASSUME NEW group, IsMembers(r, group)
      PROVE  ResolveUrl(r.url) = GroupUserIds({group})
  BY <1>5, UrlOfMembers DEF IsMembers
<1>6. ASSUME IsOther(r)
      PROVE  ResolveUrl(r.url) = {}
  BY <1>6, UrlOfOther DEF IsOther
<1>7. QED
  BY <1>1, <1>2, <1>3, <1>4, <1>5, <1>6 DEF MeansIds

\* A named resource means one set of ids.
LEMMA MeaningIsOne ==
  ASSUME NEW r, IsNamed(r), NEW ids1, NEW ids2, MeansIds(r, ids1), MeansIds(r, ids2)
  PROVE  ids1 = ids2
BY DEF IsNamed, MeansIds


LEMMA ResourcesAreNamed ==
  ASSUME SeenInv, HistoryInv, NEW r \in db["resources"]
  PROVE  IsNamed(r)
<1>1. r \in Known(history).resources
  BY DEF SeenInv, IsSeen, Stored, Tables
<1>2. "resources" \in Okta!FactNames \ Okta!Exclusions
  BY DEF Okta!FactNames, Okta!Exclusions
<1>3. r \in Okta!Sometimes("resources", ToSet(history))
  BY <1>1, <1>2, SometimesIsKnown
<1>4. PICK v \in ToSet(history) : r \in Okta!Facts(v)["resources"]
  BY <1>3, Zenon DEF Okta!Sometimes
<1>5. v \in Orgs /\ r \in v.resources
  BY <1>4, VersionsAreSeen DEF Okta!Facts, ToSet
<1>6. QED
  BY <1>5, NamesAssumption

\* "preferred whenever a URL is available": whatever form Okta gives a resource,
\* its URL and its ORN resolve to the same things.
THEOREM UrlsAndOrnsAgree == Spec => []UrlAndOrnAgree
<1>1. Inv /\ TellInv => UrlAndOrnAgree
  BY ResourcesAreNamed, UrlIsMeant, OrnIsMeant, MeaningIsOne DEF Inv, TellInv, UrlAndOrnAgree
<1>2. QED
  BY <1>1, InvHolds, TellHolds, PTL DEF Spec

-----------------------------------------------------------------------------
(* What an assignment reaches, is granted. *)

LEMMA IdsOfTables ==
  ASSUME SeenInv, TablesAreKnown
  PROVE  /\ AllIds("users") \subseteq UserIds \cap Known(history).users
         /\ AllIds("groups") \subseteq GroupIds \cap Known(history).groups
         /\ AllIds("applications") \subseteq AppIds \cap Okta!Ids(Known(history).apps)
         /\ AllIds("api_services") \subseteq OtherIds \cap Okta!Ids(Known(history).services)
         /\ AllIds("devices") \subseteq OtherIds \cap Known(history).devices
         /\ AllIds("policies") \subseteq OtherIds
         /\ AllIds("identity_providers") \subseteq OtherIds
         /\ AllIds("authorization_servers") \subseteq OtherIds
<1>1. {"users", "groups", "applications", "api_services", "devices", "policies",
       "identity_providers", "authorization_servers"} \subseteq Stored
  BY DEF Stored, Tables
<1>2. ASSUME NEW t \in Stored, NEW r \in db[t]
      PROVE  IsSeen(history, t, r) /\ IsKnown(t, r)
  BY DEF SeenInv, TablesAreKnown
<1>3. AllIds("users") \subseteq UserIds \cap Known(history).users
  BY <1>1, <1>2 DEF IsSeen, IsKnown, AllIds, GraphId
<1>4. AllIds("groups") \subseteq GroupIds \cap Known(history).groups
  BY <1>1, <1>2 DEF IsSeen, IsKnown, AllIds, GraphId
<1>5. AllIds("applications") \subseteq AppIds \cap Okta!Ids(Known(history).apps)
  BY <1>1, <1>2 DEF IsSeen, IsKnown, AllIds, GraphId, Okta!Ids
<1>6. AllIds("api_services") \subseteq OtherIds \cap Okta!Ids(Known(history).services)
  BY <1>1, <1>2 DEF IsSeen, IsKnown, AllIds, GraphId, Okta!Ids
<1>7. AllIds("devices") \subseteq OtherIds \cap Known(history).devices
  BY <1>1, <1>2 DEF IsSeen, IsKnown, AllIds, GraphId
<1>8. /\ AllIds("policies") \subseteq OtherIds
      /\ AllIds("identity_providers") \subseteq OtherIds
      /\ AllIds("authorization_servers") \subseteq OtherIds
  <2>1. /\ AllIds("policies") \subseteq IdsOfKind["POLICY"]
        /\ AllIds("identity_providers") \subseteq IdsOfKind["IDP"]
        /\ AllIds("authorization_servers") \subseteq IdsOfKind["AUTH_SERVER"]
    BY <1>1, <1>2 DEF IsSeen, AllIds, GraphId
  <2>2. QED
    BY <2>1 DEF OtherIds, OtherKinds
<1>9. QED
  BY <1>3, <1>4, <1>5, <1>6, <1>7, <1>8

LEMMA ExistingIsOne ==
  ASSUME NEW t, NEW id
  PROVE  ExistingIds(t, id) \subseteq AllIds(t) /\ (t # "devices" => ExistingIds(t, id) \subseteq {id})
BY DEF ExistingIds, AllIds, GraphId

LEMMA TypesAreNamed ==
  ASSUME SeenInv, NEW type
  PROVE  AppsAndIntegrationsByType(type) \subseteq Okta!AppsNamed(Known(history), type)
<1>1. /\ db["applications"] \subseteq Known(history).apps
      /\ db["api_services"] \subseteq Known(history).services
  BY DEF SeenInv, IsSeen, Stored, Tables
<1>2. QED
  BY <1>1 DEF AppsAndIntegrationsByType, Okta!AppsNamed, Okta!Ids

LEMMA MembersAreKnown ==
  ASSUME SeenInv, NEW groups
  PROVE  GroupUserIds(groups)
           \subseteq {m.id : m \in {n \in Known(history).members : n.group \in groups}}
<1>1. db["group_memberships"] \subseteq Known(history).members
  BY DEF SeenInv, IsSeen, Stored, Tables
<1>2. QED
  BY <1>1 DEF GroupUserIds

LEMMA SecretsAreKnown ==
  ASSUME SeenInv, NEW apps
  PROVE  UNION {SecretsOf(app) : app \in apps} \subseteq Okta!SecretsOfAny(Known(history), apps)
<1>1. db["application_secrets"] \cup db["api_service_secrets"] \subseteq Known(history).secrets
  BY DEF SeenInv, IsSeen, Stored, Tables
<1>2. QED
  BY <1>1 DEF SecretsOf, Okta!SecretsOfAny, Okta!Ids

LEMMA OthersAreNoTargets ==
  ASSUME SeenInv, TablesAreKnown, NEW t \in {"users", "groups", "applications"},
         NEW u \in {"devices", "authorization_servers", "identity_providers", "policies"},
         NEW id \in AllIds(t)
  PROVE  id \notin AllIds(u)
BY IdsOfTables, IdsAreApart

\* Users, groups and applications that a resource resolves to are what it stands for.
LEMMA MembersAreMeant ==
  ASSUME SeenInv, TablesAreKnown, HistoryInv, NEW r \in db["resources"],
         NEW t \in {"users", "groups", "applications"}, NEW id \in Resolve(r), id \in AllIds(t)
  PROVE  id \in Okta!Stands(Known(history), r)
<1> DEFINE F == Known(history)
<1>1. IsNamed(r)
  BY ResourcesAreNamed
<1>2. MeansIds(r, Resolve(r))
  <2>1. r.url # NoUrl \/ r.orn # <<>>
    BY DEF Resolve, ResolveOrn
  <2>2. QED
    BY <2>1, UrlIsMeant, OrnIsMeant DEF Resolve
<1>3. /\ Okta!Things(F) = [users |-> F.users, groups |-> F.groups,
                           apps |-> Okta!Ids(F.apps) \cup Okta!Ids(F.services)]
  BY DEF Okta!Things
<1>4. ASSUME NEW kind \in DOMAIN UrlWords, NEW u \in TablesOfKind[kind], id \in AllIds(u)
      PROVE  kind \in DOMAIN Okta!Things(F) /\ id \in Okta!Things(F)[kind]
  <2>1. kind \in {"users", "groups", "apps", "devices", "servers", "idps", "policies"}
    BY DEF UrlWords
  <2>2. /\ TablesOfKind["users"] = {"users"} /\ TablesOfKind["groups"] = {"groups"}
        /\ TablesOfKind["apps"] = {"applications", "api_services"}
        /\ TablesOfKind["devices"] = {"devices"} /\ TablesOfKind["policies"] = {"policies"}
        /\ TablesOfKind["servers"] = {"authorization_servers"}
        /\ TablesOfKind["idps"] = {"identity_providers"}
    BY DEF TablesOfKind
  <2>3. CASE kind = "users"
    BY <1>3, <1>4, <2>2, <2>3, IdsOfTables
  <2>4. CASE kind = "groups"
    BY <1>3, <1>4, <2>2, <2>4, IdsOfTables
  <2>5. CASE kind = "apps"
    BY <1>3, <1>4, <2>2, <2>5, IdsOfTables
  <2>6. CASE kind \in {"devices", "servers", "idps", "policies"}
    BY <1>4, <2>2, <2>6, OthersAreNoTargets
  <2>7. QED
    BY <2>1, <2>3, <2>4, <2>5, <2>6
<1>5. ASSUME NEW kind \in DOMAIN UrlWords, IsAll(r, kind)
      PROVE  id \in Okta!Stands(F, r)
  <2>1. PICK u \in TablesOfKind[kind] : id \in AllIds(u)
    BY <1>2, <1>5 DEF MeansIds
  <2>2. r.means[1] = "all" /\ r.means[2] = kind
    BY <1>5 DEF IsAll
  <2>3. QED
    BY <1>4, <2>1, <2>2 DEF Okta!Stands
<1>6. ASSUME NEW kind \in DOMAIN UrlWords \ {"policies"}, IsOne(r, kind, r.means[3])
      PROVE  id \in Okta!Stands(F, r)
  <2>1. PICK u \in TablesOfKind[kind] : id \in ExistingIds(u, r.means[3])
    BY <1>2, <1>6 DEF MeansIds
  <2>2. id \in AllIds(u) /\ (u # "devices" => id = r.means[3])
    BY <2>1, ExistingIsOne
  <2>3. u # "devices"
    BY <2>2, OthersAreNoTargets
  <2>4. r.means[1] = "one" /\ r.means[2] = kind
    BY <1>6 DEF IsOne
  <2>5. QED
    BY <1>4, <2>2, <2>3, <2>4 DEF Okta!Stands
<1>7. ASSUME IsType(r, "apps", r.means[3])
      PROVE  id \in Okta!Stands(F, r)
  <2>1. id \in Okta!AppsNamed(F, r.means[3])
    BY <1>2, <1>7, TypesAreNamed DEF MeansIds
  <2>2. r.means[1] = "type" /\ r.means[2] = "apps"
    BY <1>7 DEF IsType
  <2>3. QED
    BY <2>1, <2>2 DEF Okta!Stands
<1>8. ASSUME IsType(r, "policies", r.means[3])
      PROVE  FALSE
  <2>1. id \in PoliciesOfType(r.means[3])
    BY <1>2, <1>8 DEF MeansIds
  <2>2. id \in AllIds("policies")
    BY <2>1 DEF PoliciesOfType, AllIds, GraphId
  <2>3. QED
    BY <2>2, OthersAreNoTargets
<1>9. ASSUME IsMembers(r, r.means[2])
      PROVE  id \in Okta!Stands(F, r)
  <2>1. id \in {m.id : m \in {n \in F.members : n.group = r.means[2]}}
    BY <1>2, <1>9, MembersAreKnown DEF MeansIds
  <2>2. r.means[1] = "members"
    BY <1>9 DEF IsMembers
  <2>3. QED
    BY <2>1, <2>2 DEF Okta!Stands
<1>10. ~IsOther(r)
  BY <1>2 DEF MeansIds
<1>11. QED
  BY <1>1, <1>5, <1>6, <1>7, <1>8, <1>9, <1>10 DEF IsNamed


-----------------------------------------------------------------------------
(* Who is not taken for an administrator, was seen to be none. *)

\* The collection has ended, and the transforms have run.
Ready == Inv /\ TellInv /\ stage = "convert" /\ lost \cap Guarding = {}

LEMMA AllIsDone ==
  ASSUME Ready, NEW t \in ToSet(Order)
  PROVE  Done(t)
BY Positions, DoneIsBehind DEF Ready, TellInv, StageInv

LEMMA GuardingIsComplete ==
  ASSUME Ready
  PROVE  /\ ListingIsComplete("privileged_users")
         /\ ListingIsComplete("client_applications")
         /\ AssignmentsAreComplete("group_role_assignments")
         /\ AssignmentsAreComplete("client_role_assignments")
<1>1. Guarding \subseteq ToSet(Order)
  BY Positions DEF Guarding, Position
<1>2. {"privileged_users", "client_applications"} \subseteq Listings
  BY <1>1 DEF Listings, Guarding, Parent, ToSet
<1>3. {"group_role_assignments", "client_role_assignments"} \subseteq RoleTables
  BY DEF RoleTables
<1>4. \A t \in Guarding : Done(t) /\ t \notin lost
  BY <1>1, AllIsDone DEF Ready
<1>5. QED
  BY <1>1, <1>2, <1>3, <1>4 DEF Ready, TellInv, CompleteInv, Guarding

LEMMA NonAdminsAre ==
  ASSUME NEW t, NEW type, NEW row \in NonAdmins(t, type)
  PROVE  \E s \in db[t] : row.id = s.id /\ [id |-> s.id, type |-> type] \notin PrincipalsWithAdminRoles
<1>1. PICK r \in {s \in db[t] : [id |-> s.id, type |-> type] \notin PrincipalsWithAdminRoles} :
        row = [id |-> r.id]
  BY Zenon DEF NonAdmins
<1>2. QED
  BY <1>1

LEMMA UsersArePlain ==
  ASSUME Ready, NEW id \in AllIds("non_admin_users")
  PROVE  id \in Okta!PlainUsers(Known(history))
<1>1. PICK row \in NonAdmins("users", "user") : id = row.id
  BY DEF Ready, Inv, DerivedInv, AllIds, GraphId
<1>2. PICK s \in db["users"] :
        id = s.id /\ [id |-> s.id, type |-> "user"] \notin PrincipalsWithAdminRoles
  BY <1>1, NonAdminsAre
<1>3. PICK v \in SeenVersions : db["privileged_users"] = ListedRows("privileged_users", v)
  BY GuardingIsComplete DEF ListingIsComplete
<1>4. id \notin PrivilegedIds(v)
  <2>1. SUFFICES ASSUME id \in PrivilegedIds(v) PROVE FALSE
    OBVIOUS
  <2>2. [id |-> id] \in db["privileged_users"]
    BY <1>3, <2>1 DEF ListedRows
  <2>3. id \in {r.id : r \in db["privileged_users"]}
    <3>1. [id |-> id].id = id
      OBVIOUS
    <3>2. QED
      BY <2>2, <3>1
  <2>4. [id |-> id, type |-> "user"] \in PrincipalsWithAdminRoles
    BY <2>3 DEF PrincipalsWithAdminRoles, Principals
  <2>5. QED
    BY <1>2, <2>4
<1>5. id \in Known(history).users
  <2>1. id \in AllIds("users")
    BY <1>2 DEF AllIds, GraphId
  <2>2. QED
    BY <2>1, IdsOfTables DEF Ready, Inv, TellInv
<1>6. QED
  BY <1>3, <1>4, <1>5, PlainIsKnown DEF SeenVersions

\* A holder that was asked for and is no principal had no role that counts.
LEMMA AskedAreSeen ==
  ASSUME Ready, NEW t \in {"group_role_assignments", "client_role_assignments"},
         NEW p \in db[Parent[t]], IsAsked(t, p),
         [id |-> p.id, type |-> RoleHolder[t]] \notin PrincipalsWithAdminRoles
  PROVE  \E v \in SeenVersions : p.id \notin Okta!HeldBy(v, RoleHolder[t])
<1>1. PICK v \in SeenVersions : \A a \in RolesOf(v, RoleHolder[t], p.id) :
        IsDirectActive(a) =>
          \E w \in SeenVersions, failed \in BOOLEAN : ScopedRow(a, w, failed) \in db[t]
  BY GuardingIsComplete DEF AssignmentsAreComplete
<1>2. ASSUME NEW a \in Okta!Held(v), a.from = RoleHolder[t], a.source = p.id
      PROVE  FALSE
  <2>1. a \in RolesOf(v, RoleHolder[t], p.id) /\ Okta!IsHeld(a)
    BY <1>2 DEF Okta!Held, RolesOf
  <2>2. IsDirectActive(a)
    BY <1>2, <2>1, HeldIsDirectActive DEF RoleHolder
  <2>3. PICK w \in SeenVersions, failed \in BOOLEAN : ScopedRow(a, w, failed) \in db[t]
    BY <1>1, <2>1, <2>2
  <2>4. /\ IsDirectActive(ScopedRow(a, w, failed))
        /\ ScopedRow(a, w, failed).source = a.source /\ ScopedRow(a, w, failed).from = a.from
    BY <2>2, ScopedRowIs DEF IsDirectActive
  <2>5. [id |-> a.source, type |-> a.from] \in PrincipalsWithAdminRoles
    BY <2>3, <2>4, HoldersArePrincipals DEF Ready, Inv, RoleTables
  <2>6. QED
    BY <1>2, <2>5
<1>3. p.id \notin Okta!HeldBy(v, RoleHolder[t])
  BY <1>2 DEF Okta!HeldBy
<1>4. QED
  BY <1>3

LEMMA GroupsArePlain ==
  ASSUME Ready, NEW id \in AllIds("non_admin_groups")
  PROVE  id \in Okta!PlainGroups(Known(history))
<1>1. PICK row \in NonAdmins("groups", "group") : id = row.id
  BY DEF Ready, Inv, DerivedInv, AllIds, GraphId
<1>2. PICK s \in db["groups"] :
        id = s.id /\ [id |-> s.id, type |-> "group"] \notin PrincipalsWithAdminRoles
  BY <1>1, NonAdminsAre
<1>3. \E v \in SeenVersions : id \notin Okta!HeldBy(v, "group")
  <2>1. CASE s.admin
    <3>1. /\ s \in db[Parent["group_role_assignments"]] /\ IsAsked("group_role_assignments", s)
          /\ RoleHolder["group_role_assignments"] = "group"
      BY <1>2, <2>1 DEF Parent, IsAsked, RoleHolder
    <3>2. QED
      BY <1>2, <3>1, AskedAreSeen
  <2>2. CASE ~s.admin
    <3>1. PICK v \in ToSet(history) : RolesOf(v, "group", s.id) = {}
      BY <2>2 DEF Ready, TellInv, SeenInv, IsSeen, Stored, Tables
    <3>2. id \notin Okta!HeldBy(v, "group")
      BY <1>2, <3>1 DEF RolesOf, Okta!HeldBy, Okta!Held
    <3>3. QED
      BY <3>1, <3>2 DEF SeenVersions
  <2>3. QED
    BY <2>1, <2>2
<1>4. id \in Known(history).groups
  <2>1. id \in AllIds("groups")
    BY <1>2 DEF AllIds, GraphId
  <2>2. QED
    BY <2>1, IdsOfTables DEF Ready, Inv, TellInv
<1>5. QED
  BY <1>3, <1>4, PlainIsKnown DEF SeenVersions

LEMMA AppsArePlain ==
  ASSUME Ready, NEW id \in AllIds("non_admin_apps")
  PROVE  id \in Okta!PlainApps(Known(history))
<1>1. PICK row \in NonAdmins("applications", "client") : id = row.id
  BY DEF Ready, Inv, DerivedInv, AllIds, GraphId
<1>2. PICK s \in db["applications"] :
        id = s.id /\ [id |-> s.id, type |-> "client"] \notin PrincipalsWithAdminRoles
  BY <1>1, NonAdminsAre
<1>3. PICK org \in SeenVersions : db["client_applications"] = ListedRows("client_applications", org)
  BY GuardingIsComplete DEF ListingIsComplete
<1>4. db["client_applications"] = org.clients
  BY <1>3 DEF ListedRows
<1>5. \E v \in SeenVersions : id \notin Okta!HeldBy(v, "client")
  <2>1. CASE \E c \in db["client_applications"] : c.id = id /\ c.service
    <3>1. PICK c \in db["client_applications"] : c.id = id /\ c.service
      BY <2>1
    <3>2. /\ c \in db[Parent["client_role_assignments"]]
          /\ IsAsked("client_role_assignments", c)
          /\ RoleHolder["client_role_assignments"] = "client"
      BY <3>1 DEF Parent, IsAsked, RoleHolder
    <3>3. QED
      BY <1>2, <3>1, <3>2, AskedAreSeen
  <2>2. CASE ~\E c \in db["client_applications"] : c.id = id /\ c.service
    <3>1. org \in Orgs
      BY <1>3, VersionsAreSeen DEF Ready, Inv, SeenVersions, ToSet
    <3>2. id \notin Okta!HeldBy(org, "client")
      BY <1>4, <2>2, <3>1, RolesAssumption DEF Okta!HeldBy, Okta!Held
    <3>3. QED
      BY <1>3, <3>2
  <2>3. QED
    BY <2>1, <2>2
<1>6. id \in Okta!Ids(Known(history).apps)
  <2>1. id \in AllIds("applications")
    BY <1>2 DEF AllIds, GraphId
  <2>2. QED
    BY <2>1, IdsOfTables DEF Ready, Inv, TellInv
<1>7. QED
  BY <1>5, <1>6, PlainIsKnown DEF SeenVersions


-----------------------------------------------------------------------------
(* Every permission is granted. *)

\* The state in which the rows are converted, and an assignment of it.
Counts(a) ==
  /\ Ready /\ AssignmentIsSeen(Known(history), a)
  /\ a.groupScope.targets # {} => ScopedGroupIds(a) # {}

Grant(e) == <<e.start[1], <<e.kind, e.end[1]>>>>

\* The ids are targets of the kind, by the assignment.
Grants(a, kind, ids) ==
  \A id \in ids : <<kind, id>> \in Okta!TargetsOf(Known(history), Okta!Role(a))

LEMMA GrantsOfHolder ==
  ASSUME NEW a, Counts(a), NEW kind, NEW ids, Grants(a, kind, ids),
         NEW e \in FromHolder(a, kind, ids)
  PROVE  Grant(e) \in Okta!Grants(Known(history))
<1>1. PICK id \in ids : e = Edge(kind, Node(a.source), Node(id))
  BY Zenon DEF FromHolder
<1>2. Grant(e) = <<a.source, <<kind, id>>>>
  BY <1>1 DEF Grant, Edge, Node
<1>3. /\ Okta!Role(a) \in Known(history).roles /\ Okta!Role(a).source = a.source
      /\ <<kind, id>> \in Okta!TargetsOf(Known(history), Okta!Role(a))
  BY <1>1 DEF Counts, AssignmentIsSeen, Grants, Okta!Role
<1>4. QED
  BY <1>2, <1>3 DEF Okta!Grants

LEMMA ScopedGrants ==
  ASSUME NEW a, a.type # "CUSTOM", NEW s \in Okta!ScopesOf(Known(history), a),
         NEW kind, NEW ids,
         \A id \in ids : <<kind, id>> \in Okta!ScopedTargets(Known(history), a.type, s)
  PROVE  Grants(a, kind, ids)
<1>1. s \in Okta!ScopesOf(Known(history), Okta!Role(a)) /\ Okta!Role(a).type = a.type
  BY DEF Okta!ScopesOf, Okta!Role
<1>2. QED
  BY <1>1 DEF Grants, Okta!TargetsOf

LEMMA OrgGrants ==
  ASSUME NEW a, a.type # "CUSTOM", NEW kind, NEW ids,
         \A id \in ids : <<kind, id>> \in Okta!OrgTargets(Known(history), a.type)
  PROVE  Grants(a, kind, ids)
BY DEF Grants, Okta!TargetsOf, Okta!Role

LEMMA GroupScope ==
  ASSUME NEW a, Counts(a), a.groupScope.fetched
  PROVE  \E s \in Okta!ScopesOf(Known(history), a) :
           /\ PermissionGroupIds(a)
                \subseteq Okta!ScopeGroups(Known(history), s) \cap Okta!PlainGroups(Known(history))
           /\ PermissionUserIds(a)
                \subseteq Okta!ScopeUsers(Known(history), s) \cap Okta!PlainUsers(Known(history))
<1> DEFINE F == Known(history)
<1>1. PICK s \in Okta!ScopesOf(F, a) : s.groups = a.groupScope.targets
  BY DEF Counts, AssignmentIsSeen
<1>2. AllIds("groups") \subseteq F.groups /\ AllIds("users") \subseteq F.users
  BY IdsOfTables DEF Counts, Ready, Inv, TellInv
<1>3. /\ AllIds("non_admin_groups") \subseteq Okta!PlainGroups(F)
      /\ AllIds("non_admin_users") \subseteq Okta!PlainUsers(F)
  BY GroupsArePlain, UsersArePlain DEF Counts
<1>4. ScopedGroupIds(a) \subseteq s.groups \cap F.groups
  BY <1>1, <1>2 DEF ScopedGroupIds
<1>5. s.groups = {} <=> ScopedGroupIds(a) = {}
  BY <1>1, <1>4 DEF Counts
<1>6. GroupUserIds(ScopedGroupIds(a)) \subseteq {m.id : m \in {n \in F.members : n.group \in s.groups}}
  <2>1. GroupUserIds(ScopedGroupIds(a))
          \subseteq {m.id : m \in {n \in F.members : n.group \in ScopedGroupIds(a)}}
    BY MembersAreKnown DEF Counts, Ready, TellInv
  <2>2. QED
    BY <1>4, <2>1
<1>7. PermissionGroupIds(a) \subseteq Okta!ScopeGroups(F, s) \cap Okta!PlainGroups(F)
  BY <1>2, <1>3, <1>4, <1>5 DEF PermissionGroupIds, Okta!ScopeGroups
<1>8. PermissionUserIds(a) \subseteq Okta!ScopeUsers(F, s) \cap Okta!PlainUsers(F)
  BY <1>2, <1>3, <1>5, <1>6 DEF PermissionUserIds, Okta!ScopeUsers
<1>9. QED
  BY <1>7, <1>8

LEMMA AppScope ==
  ASSUME NEW a, Counts(a), a.appScope.fetched
  PROVE  \E s \in Okta!ScopesOf(Known(history), a) :
           /\ s.apps = a.appScope.targets
           /\ a.appScope.targets # {} => ScopedAppIds(a) \subseteq Okta!ScopeApps(Known(history), s)
           /\ PermissionAppIds(a) \subseteq
                Okta!ScopeApps(Known(history), s)
                  \cap (Okta!PlainApps(Known(history)) \cup Okta!Ids(Known(history).services))
<1> DEFINE F == Known(history)
<1>1. PICK s \in Okta!ScopesOf(F, a) : s.apps = a.appScope.targets
  BY DEF Counts, AssignmentIsSeen
<1>2. /\ AllIds("applications") \subseteq Okta!Ids(F.apps)
      /\ AllIds("api_services") \subseteq Okta!Ids(F.services)
  BY IdsOfTables DEF Counts, Ready, Inv, TellInv
<1>3. AllIds("non_admin_apps") \subseteq Okta!PlainApps(F)
  BY AppsArePlain DEF Counts
<1>4. ASSUME NEW t
      PROVE  TargetApps(t) \subseteq Okta!TargetApps(F, t)
  <2>1. CASE t.id # None
    <3>1. TargetApps(t) \subseteq {t.id} \cap AllIds("applications")
      BY <2>1 DEF TargetApps
    <3>2. Okta!TargetApps(F, t) = {t.id} \cap Okta!Ids(F.apps)
      BY <2>1, Zenon DEF Okta!TargetApps, None
    <3>3. QED
      BY <1>2, <3>1, <3>2
  <2>2. CASE t.id = None
    <3>1. TargetApps(t) = AppsAndIntegrationsByType(t.name)
      BY <2>2 DEF TargetApps
    <3>2. Okta!TargetApps(F, t) = Okta!AppsNamed(F, t.name)
      BY <2>2, Zenon DEF Okta!TargetApps, None
    <3>3. QED
      BY <3>1, <3>2, TypesAreNamed DEF Counts, Ready, TellInv
  <2>3. QED
    BY <2>1, <2>2
<1>5. ASSUME a.appScope.targets # {}
      PROVE  ScopedAppIds(a) \subseteq Okta!ScopeApps(F, s)
  <2>1. Okta!ScopeApps(F, s) =
          UNION {Okta!TargetApps(F, t) : t \in {u \in s.apps : u.status = "ACTIVE"}}
    BY <1>1, <1>5 DEF Okta!ScopeApps
  <2>2. QED
    BY <1>1, <1>4, <2>1 DEF ScopedAppIds
<1>6. PermissionAppIds(a) \subseteq
        Okta!ScopeApps(F, s) \cap (Okta!PlainApps(F) \cup Okta!Ids(F.services))
  <2>1. CASE a.appScope.targets = {}
    BY <1>1, <1>2, <1>3, <2>1 DEF PermissionAppIds, Okta!ScopeApps
  <2>2. CASE a.appScope.targets # {}
    BY <1>2, <1>3, <1>5, <2>2 DEF PermissionAppIds
  <2>3. QED
    BY <2>1, <2>2
<1>7. QED
  BY <1>1, <1>5, <1>6

LEMMA BoundIsGranted ==
  ASSUME NEW a, Counts(a), NEW t \in {"users", "groups", "applications"}
  PROVE  ResourceSetIdsInTable(BoundSets(a), t)
           \subseteq Okta!BoundTo(Known(history), Okta!Role(a))
<1> DEFINE F == Known(history)
<1>1. SUFFICES ASSUME NEW id \in ResourceSetIdsInTable(BoundSets(a), t)
               PROVE  id \in Okta!BoundTo(F, Okta!Role(a))
  OBVIOUS
<1>2. PICK set \in BoundSets(a) : id \in ResourceSetMemberIds(set) /\ id \in AllIds(t)
  <2>1. /\ id \in UNION {ResourceSetMemberIds(set) : set \in BoundSets(a)}
        /\ id \in AllIds(t)
    BY <1>1 DEF ResourceSetIdsInTable
  <2>2. \E set \in BoundSets(a) : id \in ResourceSetMemberIds(set)
    BY <2>1, Zenon
  <2>3. QED
    BY <2>1, <2>2
<1>3. PICK b \in db["resource_set_role_assignments"] :
        b.id = a.id /\ b.assignee = a.source /\ b.set = set
  BY <1>2 DEF BoundSets, RoleAssignmentResourceSetIds
<1>4. PICK r \in db["resources"] : r.set = set /\ id \in Resolve(r)
  BY <1>2 DEF ResourceSetMemberIds
<1>5. b \in F.bindings /\ r \in F.resources
  BY <1>3, <1>4 DEF Counts, Ready, TellInv, SeenInv, IsSeen, Stored, Tables
<1>6. id \in Okta!Stands(F, r)
  BY <1>2, <1>4, MembersAreMeant DEF Counts, Ready, Inv, TellInv
<1>7. Okta!Role(a).id = a.id /\ Okta!Role(a).source = a.source
  BY DEF Okta!Role
<1>8. r \in {x \in F.resources : \E y \in F.bindings :
               y.id = Okta!Role(a).id /\ y.assignee = Okta!Role(a).source /\ y.set = x.set}
  BY <1>3, <1>4, <1>5, <1>7
<1>9. QED
  BY <1>6, <1>8, Zenon DEF Okta!BoundTo

\* What a permission of a custom role reaches is granted, if the role has it.
LEMMA CustomGrants ==
  ASSUME NEW a, Counts(a), NEW kind, NEW labels, NEW ids,
         kind \in {"ADD_MEMBER", "MANAGE_APP", "RESET_FACTORS", "RESET_PASSWORD",
                   "READ_CLIENT_SECRET"},
         labels = CASE kind = "ADD_MEMBER" -> AddMemberPermissions
                    [] kind = "MANAGE_APP" -> ManageAppPermissions
                    [] kind = "RESET_FACTORS" -> ResetFactorsPermissions
                    [] kind = "RESET_PASSWORD" -> ResetPasswordPermissions
                    [] kind = "READ_CLIENT_SECRET" -> ReadSecretPermissions,
         ids \subseteq Okta!Reach(Known(history), Okta!Role(a), kind),
         NEW e \in Custom(a, labels, FromHolder(a, kind, ids)).edges
  PROVE  Grant(e) \in Okta!Grants(Known(history))
<1> DEFINE F == Known(history)
<1>1. /\ a.type = "CUSTOM" /\ HasRolePermission(a.role, labels)
      /\ e \in FromHolder(a, kind, ids)
  BY DEF Custom, Nothing
<1>2. PICK p \in db["custom_role_permissions"] : p.role = a.role /\ p.label \in labels
  BY <1>1 DEF HasRolePermission
<1>3. p \in F.permissions
  BY <1>2 DEF Counts, Ready, TellInv, SeenInv, IsSeen, Stored, Tables
<1>4. Okta!Role(a).type = "CUSTOM" /\ Okta!Role(a).role = a.role
  BY <1>1 DEF Okta!Role
<1>5. kind \in Okta!CustomKinds(F, Okta!Role(a))
  BY <1>2, <1>3, <1>4 DEF Okta!CustomKinds
<1>6. \A id \in ids : <<kind, id>> \in {kind} \X Okta!Reach(F, Okta!Role(a), kind)
  OBVIOUS
<1>7. \A id \in ids : <<kind, id>> \in Okta!CustomTargets(F, Okta!Role(a))
  BY <1>5, <1>6, Zenon DEF Okta!CustomTargets
<1>8. Grants(a, kind, ids)
  BY <1>4, <1>7 DEF Grants, Okta!TargetsOf
<1>9. QED
  BY <1>1, <1>8, GrantsOfHolder

LEMMA SecretsAreGranted ==
  ASSUME NEW a, Counts(a), NEW apps, NEW known, apps \subseteq known
  PROVE  UNION {SecretsOf(app) : app \in apps} \subseteq Okta!SecretsOfAny(Known(history), known)
<1>1. UNION {SecretsOf(app) : app \in apps} \subseteq Okta!SecretsOfAny(Known(history), apps)
  BY SecretsAreKnown DEF Counts, Ready, TellInv
<1>2. Okta!SecretsOfAny(Known(history), apps) \subseteq Okta!SecretsOfAny(Known(history), known)
  BY DEF Okta!SecretsOfAny, Okta!Ids
<1>3. QED
  BY <1>1, <1>2

LEMMA GeneratorsAreGranted ==
  ASSUME NEW a, Counts(a), NEW g \in Generators(a), NEW e \in g.edges,
         e.kind \in PermissionKinds
  PROVE  Grant(e) \in Okta!Grants(Known(history))
<1> DEFINE F == Known(history)
<1>1. ASSUME NEW type, NEW kind, NEW ids, a.type = type => Grants(a, kind, ids),
             g = YieldsFor(a, type, FromHolder(a, kind, ids))
      PROVE  Grant(e) \in Okta!Grants(F)
  BY <1>1, GrantsOfHolder DEF YieldsFor, Yields, Nothing
<1>2. /\ AllIds("users") \subseteq F.users /\ AllIds("groups") \subseteq F.groups
      /\ AllIds("applications") \subseteq Okta!Ids(F.apps)
      /\ AllIds("devices") \subseteq F.devices
      /\ AllIds("non_admin_users") \subseteq Okta!PlainUsers(F)
      /\ AllIds("non_admin_groups") \subseteq Okta!PlainGroups(F)
      /\ AllIds("non_admin_apps") \subseteq Okta!PlainApps(F)
  BY IdsOfTables, UsersArePlain, GroupsArePlain, AppsArePlain DEF Counts, Ready, Inv, TellInv
<1>3. CASE g \in {OrgContains(a), HasRoleAssignment(a), HasRole(a)}
  BY <1>3 DEF OrgContains, HasRoleAssignment, HasRole, Yields, Edge, PermissionKinds
<1>4. CASE g \in {ScopedToApps(a), ScopedToGroups(a), ScopedToOrg(a)}
  <2>1. ASSUME NEW ids, e \in ScopedTo(a, ids)
        PROVE  FALSE
    BY <2>1 DEF ScopedTo, Edge, PermissionKinds
  <2>2. QED
    BY <1>4, <2>1 DEF ScopedToApps, ScopedToGroups, ScopedToOrg, Yields
<1>5. CASE g = AppAdmin(a)
  <2>1. a.type = "APP_ADMIN" => Grants(a, "APP_ADMIN", PermissionAppIds(a))
    <3>1. SUFFICES ASSUME a.type = "APP_ADMIN" PROVE Grants(a, "APP_ADMIN", PermissionAppIds(a))
      OBVIOUS
    <3>2. CASE a.appScope.fetched
      <4>1. PICK s \in Okta!ScopesOf(F, a) :
              PermissionAppIds(a) \subseteq
                Okta!ScopeApps(F, s) \cap (Okta!PlainApps(F) \cup Okta!Ids(F.services))
        BY <3>2, AppScope
      <4>2. \A id \in PermissionAppIds(a) : <<"APP_ADMIN", id>> \in Okta!ScopedTargets(F, a.type, s)
        BY <3>1, <4>1 DEF Okta!ScopedTargets
      <4>3. QED
        BY <3>1, <4>2, ScopedGrants
    <3>3. CASE ~a.appScope.fetched
      BY <3>3 DEF PermissionAppIds, Grants
    <3>4. QED
      BY <3>2, <3>3
  <2>2. QED
    BY <1>1, <1>5, <2>1 DEF AppAdmin
<1>6. CASE g = GroupMembershipAdmin(a)
  <2>1. a.type = "GROUP_MEMBERSHIP_ADMIN" =>
          Grants(a, "GROUP_MEMBERSHIP_ADMIN", PermissionGroupIds(a))
    <3>1. SUFFICES ASSUME a.type = "GROUP_MEMBERSHIP_ADMIN"
                   PROVE  Grants(a, "GROUP_MEMBERSHIP_ADMIN", PermissionGroupIds(a))
      OBVIOUS
    <3>2. CASE a.groupScope.fetched
      <4>1. PICK s \in Okta!ScopesOf(F, a) :
              PermissionGroupIds(a) \subseteq Okta!ScopeGroups(F, s) \cap Okta!PlainGroups(F)
        BY <3>2, GroupScope
      <4>2. \A id \in PermissionGroupIds(a) :
              <<"GROUP_MEMBERSHIP_ADMIN", id>> \in Okta!ScopedTargets(F, a.type, s)
        BY <3>1, <4>1 DEF Okta!ScopedTargets
      <4>3. QED
        BY <3>1, <4>2, ScopedGrants
    <3>3. CASE ~a.groupScope.fetched
      BY <3>3 DEF PermissionGroupIds, Grants
    <3>4. QED
      BY <3>2, <3>3
  <2>2. QED
    BY <1>1, <1>6, <2>1 DEF GroupMembershipAdmin
<1>7. CASE g \in {HelpdeskAdmin(a), UserAdmin(a)}
  <2>1. PICK type \in {"HELP_DESK_ADMIN", "USER_ADMIN"}, kind \in {"HELPDESK_ADMIN", "GROUP_ADMIN"},
             ids \in {PermissionUserIds(a), PermissionGroupIds(a) \cup PermissionUserIds(a)} :
          /\ a.type = type /\ e \in FromHolder(a, kind, ids)
          /\ type = "HELP_DESK_ADMIN" => kind = "HELPDESK_ADMIN" /\ ids = PermissionUserIds(a)
          /\ type = "USER_ADMIN" => kind = "GROUP_ADMIN"
    BY <1>7 DEF HelpdeskAdmin, UserAdmin, Nothing
  <2>2. CASE a.groupScope.fetched
    <3>1. PICK s \in Okta!ScopesOf(F, a) :
            /\ PermissionGroupIds(a) \subseteq Okta!ScopeGroups(F, s) \cap Okta!PlainGroups(F)
            /\ PermissionUserIds(a) \subseteq Okta!ScopeUsers(F, s) \cap Okta!PlainUsers(F)
      BY <2>2, GroupScope
    <3>2. CASE type = "HELP_DESK_ADMIN"
      <4>1. \A id \in ids : <<kind, id>> \in Okta!ScopedTargets(F, a.type, s)
        BY <2>1, <3>1, <3>2 DEF Okta!ScopedTargets
      <4>2. QED
        BY <2>1, <3>2, <4>1, ScopedGrants, GrantsOfHolder
    <3>3. CASE type = "USER_ADMIN"
      <4>1. \A id \in ids : <<kind, id>> \in Okta!ScopedTargets(F, a.type, s)
        BY <2>1, <3>1, <3>3 DEF Okta!ScopedTargets
      <4>2. QED
        BY <2>1, <3>3, <4>1, ScopedGrants, GrantsOfHolder
    <3>4. QED
      BY <3>2, <3>3
  <2>3. CASE ~a.groupScope.fetched
    <3>1. ids = {}
      BY <2>1, <2>3 DEF PermissionUserIds, PermissionGroupIds
    <3>2. QED
      BY <2>1, <3>1 DEF FromHolder
  <2>4. QED
    BY <2>2, <2>3
<1>8. CASE g = MobileAdmin(a)
  <2>1. a.type = "MOBILE_ADMIN" => \A id \in AllIds("devices") :
          <<"MOBILE_ADMIN", id>> \in Okta!OrgTargets(F, a.type)
    BY <1>2 DEF Okta!OrgTargets
  <2>2. a.type = "MOBILE_ADMIN" => Grants(a, "MOBILE_ADMIN", AllIds("devices"))
    BY <2>1, OrgGrants
  <2>3. QED
    BY <1>1, <1>8, <2>2 DEF MobileAdmin
<1>9. CASE g = SuperAdmin(a)
  <2>1. a.type = "SUPER_ADMIN" => \A id \in {OrgId} :
          <<"SUPER_ADMIN", id>> \in Okta!OrgTargets(F, a.type)
    BY DEF Okta!OrgTargets
  <2>2. a.type = "SUPER_ADMIN" => Grants(a, "SUPER_ADMIN", {OrgId})
    BY <2>1, OrgGrants
  <2>3. QED
    BY <1>1, <1>9, <2>2 DEF SuperAdmin
<1>10. CASE g = OrgAdmin(a)
  <2> DEFINE ids == AllIds("non_admin_users") \cup AllIds("non_admin_groups") \cup AllIds("devices")
  <2>1. a.type = "ORG_ADMIN" => \A id \in ids : <<"ORG_ADMIN", id>> \in Okta!OrgTargets(F, a.type)
    BY <1>2 DEF Okta!OrgTargets
  <2>2. a.type = "ORG_ADMIN" => Grants(a, "ORG_ADMIN", ids)
    BY <2>1, OrgGrants
  <2>3. QED
    BY <1>1, <1>10, <2>2 DEF OrgAdmin
<1>11. CASE g = ManageApp(a)
  <2>1. BoundPlainApplicationIds(a) \subseteq Okta!Reach(F, Okta!Role(a), "MANAGE_APP")
    BY <1>2, BoundIsGranted DEF BoundPlainApplicationIds, BoundApplicationIds, Okta!Reach
  <2>2. QED
    BY <1>11, <2>1, CustomGrants DEF ManageApp
<1>12. CASE g = ResetFactors(a)
  <2>1. BoundPlainUserIds(a) \subseteq Okta!Reach(F, Okta!Role(a), "RESET_FACTORS")
    BY <1>2, BoundIsGranted DEF BoundPlainUserIds, Okta!Reach
  <2>2. QED
    BY <1>12, <2>1, CustomGrants DEF ResetFactors
<1>13. CASE g = ResetPassword(a)
  <2>1. BoundPlainUserIds(a) \subseteq Okta!Reach(F, Okta!Role(a), "RESET_PASSWORD")
    BY <1>2, BoundIsGranted DEF BoundPlainUserIds, Okta!Reach
  <2>2. QED
    BY <1>13, <2>1, CustomGrants DEF ResetPassword
<1>14. CASE g = AddMember(a)
  <2>1. BoundPlainGroupIds(a) \subseteq Okta!Reach(F, Okta!Role(a), "ADD_MEMBER")
    BY <1>2, BoundIsGranted DEF BoundPlainGroupIds, Okta!Reach
  <2>2. QED
    BY <1>14, <2>1, CustomGrants DEF AddMember
<1>15. CASE g = ReadClientSecret(a)
  <2> DEFINE all == UNION {SecretsOf(app) : app \in AllIds("applications")}
             scoped == UNION {SecretsOf(app) : app \in ScopedAppIds(a)}
             bound == UNION {SecretsOf(app) : app \in BoundApplicationIds(a)}
  <2>1. CASE a.type = "APP_ADMIN"
    <3>1. CASE a.appScope.fetched
      <4>1. PICK s \in Okta!ScopesOf(F, a) :
              /\ s.apps = a.appScope.targets
              /\ a.appScope.targets # {} => ScopedAppIds(a) \subseteq Okta!ScopeApps(F, s)
        BY <3>1, AppScope
      <4>2. CASE a.appScope.targets = {}
        <5>1. e \in FromHolder(a, "READ_CLIENT_SECRET", all)
          BY <1>15, <2>1, <3>1, <4>2 DEF ReadClientSecret, Yields, ReadSecrets
        <5>2. all \subseteq Okta!SecretsOfAny(F, Okta!Ids(F.apps))
          BY <1>2, SecretsAreGranted
        <5>3. \A id \in all : <<"READ_CLIENT_SECRET", id>> \in Okta!ScopedTargets(F, a.type, s)
          BY <2>1, <4>1, <4>2, <5>2 DEF Okta!ScopedTargets
        <5>4. QED
          BY <2>1, <5>1, <5>3, ScopedGrants, GrantsOfHolder
      <4>3. CASE a.appScope.targets # {}
        <5>1. e \in FromHolder(a, "READ_CLIENT_SECRET", scoped)
          BY <1>15, <2>1, <3>1, <4>3 DEF ReadClientSecret, Yields, ReadSecrets
        <5>2. scoped \subseteq Okta!SecretsOfAny(F, Okta!ScopeApps(F, s))
          BY <4>1, <4>3, SecretsAreGranted
        <5>3. \A id \in scoped : <<"READ_CLIENT_SECRET", id>> \in Okta!ScopedTargets(F, a.type, s)
          BY <2>1, <4>1, <4>3, <5>2 DEF Okta!ScopedTargets
        <5>4. QED
          BY <2>1, <5>1, <5>3, ScopedGrants, GrantsOfHolder
      <4>4. QED
        BY <4>2, <4>3
    <3>2. CASE ~a.appScope.fetched
      BY <1>15, <2>1, <3>2 DEF ReadClientSecret, Yields
    <3>3. QED
      BY <3>1, <3>2
  <2>2. CASE a.type \in {"API_ACCESS_MANAGEMENT_ADMIN", "READ_ONLY_ADMIN"}
    <3>1. e \in FromHolder(a, "READ_CLIENT_SECRET", all)
      BY <1>15, <2>2 DEF ReadClientSecret, Yields, ReadSecrets
    <3>2. all \subseteq Okta!SecretsOfAny(F, Okta!Ids(F.apps))
      BY <1>2, SecretsAreGranted
    <3>3. \A id \in all : <<"READ_CLIENT_SECRET", id>> \in Okta!OrgTargets(F, a.type)
      BY <2>2, <3>2 DEF Okta!OrgTargets
    <3>4. QED
      BY <2>2, <3>1, <3>3, OrgGrants, GrantsOfHolder
  <2>3. CASE a.type \notin {"APP_ADMIN", "API_ACCESS_MANAGEMENT_ADMIN", "READ_ONLY_ADMIN"}
    <3>1. g = Custom(a, ReadSecretPermissions, FromHolder(a, "READ_CLIENT_SECRET", bound))
      BY <1>15, <2>3 DEF ReadClientSecret, ReadSecrets
    <3>2. BoundApplicationIds(a) \subseteq Okta!BoundTo(F, Okta!Role(a)) \cap Okta!Ids(F.apps)
      <4>1. BoundApplicationIds(a) \subseteq AllIds("applications")
        BY DEF BoundApplicationIds, ResourceSetIdsInTable
      <4>2. BoundApplicationIds(a) \subseteq Okta!BoundTo(F, Okta!Role(a))
        BY BoundIsGranted DEF BoundApplicationIds
      <4>3. QED
        BY <1>2, <4>1, <4>2
    <3>3. bound \subseteq Okta!Reach(F, Okta!Role(a), "READ_CLIENT_SECRET")
      BY <3>2, SecretsAreGranted DEF Okta!Reach
    <3>4. QED
      BY <3>1, <3>3, CustomGrants
  <2>4. QED
    BY <2>1, <2>2, <2>3
<1>16. QED
  BY <1>3, <1>4, <1>5, <1>6, <1>7, <1>8, <1>9, <1>10, <1>11, <1>12, <1>13, <1>14, <1>15
     DEF Generators

LEMMA ConvertGrants ==
  ASSUME Inv, TellInv, Convert
  PROVE  OnlyWhatOktaGrants'
<1>1. SUFFICES ASSUME lost \cap Guarding = {}, ScopesAreSeen, NEW x \in Permissions'
               PROVE  x \in Okta!Grants(Known(history))
  <2>1. UNCHANGED <<history, lost, db>>
    BY DEF Convert
  <2>2. ScopesAreSeen' = ScopesAreSeen
    BY <2>1 DEF ScopesAreSeen, ScopedGroupIds, AllIds, GraphId
  <2>3. SeenVersions' = ToSet(history)
    BY <2>1 DEF SeenVersions
  <2>4. Okta!Ever(SeenVersions)' = Known(history)
    BY <2>1 DEF Known, SeenVersions
  <2>5. QED
    BY <2>1, <2>2, <2>4 DEF OnlyWhatOktaGrants
<1>2. PICK e \in graph' : x = Grant(e) /\ e.kind \in PermissionKinds
  BY <1>1 DEF Permissions, PermissionEdges, Grant
<1>3. PICK y \in RowsToConvert : e \in EdgesOf(y[1], y[2])
  BY <1>2 DEF Convert
<1>4. PICK t \in Converted : \E r \in db[t] : y = <<t, r>>
  BY <1>3 DEF RowsToConvert
<1>5. PICK a \in db[t] : e \in EdgesOf(t, a)
  BY <1>3, <1>4
<1>6. CASE t \in RoleTables
  <2>1. PICK i \in DOMAIN Stages(t, a) : e \in Stages(t, a)[i].edges
    <3>1. PICK i \in DOMAIN StagesOf(t, a) : e \in StagesOf(t, a)[i].edges
      BY <1>5, YieldedBy
    <3>2. StagesOf(t, a) = Stages(t, a)
      BY <1>6 DEF StagesOf, RoleTables
    <3>3. QED
      BY <3>1, <3>2
  <2>2. Stages(t, a)[i] \in Generators(a)
    BY <2>1, StagesAreGenerators, LenProperties, ElementOfSeq
  <2>3. Ready
    BY <1>1 DEF Ready, Convert
  <2>4. AssignmentIsSeen(Known(history), a)
    BY <1>5, <1>6 DEF TellInv, SeenInv, IsSeen, RoleTables, Stored, Tables
  <2>5. Counts(a)
    BY <1>1, <1>5, <1>6, <2>3, <2>4 DEF Counts, ScopesAreSeen
  <2>6. QED
    BY <1>2, <2>1, <2>2, <2>5, GeneratorsAreGranted
<1>7. CASE t \notin RoleTables
  <2>1. t \in {"resources", "resource_set_role_assignments"}
    BY <1>4, <1>7 DEF Converted
  <2>2. PICK i \in DOMAIN StagesOf(t, a) : e \in StagesOf(t, a)[i].edges
    BY <1>5, YieldedBy
  <2>3. CASE t = "resources"
    BY <1>2, <2>2, <2>3 DEF StagesOf, RoleTables, ResourceStages, Yields, Edge, PermissionKinds
  <2>4. CASE t = "resource_set_role_assignments"
    BY <1>2, <2>2, <2>4 DEF StagesOf, RoleTables, BindingStages, Yields, Edge, PermissionKinds
  <2>5. QED
    BY <2>1, <2>3, <2>4
<1>8. QED
  BY <1>6, <1>7

\* Every permission in the graph is one that facts of the org entitle to, each
\* of which held at some time of the collection: for any org and any changes of
\* it, whatever requests failed, unless rows of the guarding tables were lost or
\* a scope lost all of its groups.
THEOREM OnlyGrantsAreFound == Spec => []OnlyWhatOktaGrants
<1>1. Init => OnlyWhatOktaGrants
  BY DEF Init, OnlyWhatOktaGrants
<1>2. Inv /\ TellInv /\ OnlyWhatOktaGrants /\ [Next]_vars => OnlyWhatOktaGrants'
  <2>1. ASSUME UNCHANGED vars, OnlyWhatOktaGrants
        PROVE  OnlyWhatOktaGrants'
    <3>1. UNCHANGED <<history, stage, lost, db, graph>>
      BY <2>1 DEF vars
    <3>2. UNCHANGED <<ScopesAreSeen, Permissions, SeenVersions>>
      BY <3>1 DEF ScopesAreSeen, ScopedGroupIds, AllIds, GraphId, Permissions, PermissionEdges,
         SeenVersions
    <3>3. QED
      BY <2>1, <3>1, <3>2 DEF OnlyWhatOktaGrants
  <2>2. ASSUME stage' # "done"
        PROVE  OnlyWhatOktaGrants'
    BY <2>2 DEF OnlyWhatOktaGrants
  <2>3. [Next]_vars => UNCHANGED vars \/ stage' # "done" \/ Convert
    BY DEF Next, CollectListing, CollectChildren, CollectAssignments, CollectionFails,
       Preprocess, Due, Ended
  <2>4. QED
    BY <2>1, <2>2, <2>3, ConvertGrants
<1>3. QED
  BY <1>1, <1>2, InvHolds, TellHolds, PTL DEF Spec


-----------------------------------------------------------------------------
(* The facts that last, and the tables that have them if no request fails. *)

\* The facts that held throughout a history.
Lasting(h) == Okta!Always(ToSet(h))

LEMMA FactLasts ==
  ASSUME NEW h, NEW n \in Okta!FactNames \ Okta!Exclusions, NEW v \in ToSet(h)
  PROVE  Lasting(h)[n] \subseteq Okta!Facts(v)[n]
<1>1. Lasting(h)[n] = Okta!Throughout(n, ToSet(h))
  BY DEF Lasting, Okta!Always
<1>2. QED
  BY <1>1, Zenon DEF Okta!Throughout

LEMMA FactsLast ==
  ASSUME NEW h, NEW v \in ToSet(h)
  PROVE  /\ Lasting(h).users \subseteq v.users /\ Lasting(h).groups \subseteq v.groups
         /\ Lasting(h).apps \subseteq v.apps /\ Lasting(h).services \subseteq v.services
         /\ Lasting(h).members \subseteq v.members /\ Lasting(h).secrets \subseteq v.secrets
         /\ Lasting(h).permissions \subseteq v.permissions
         /\ Lasting(h).resources \subseteq v.resources
         /\ Lasting(h).bindings \subseteq v.bindings
         /\ \A d \in Lasting(h).devices : \E x \in v.devices : d = DeviceGraphId(x)
         /\ \A r \in Lasting(h).roles : \E a \in Okta!Held(v) : r = Okta!Role(a)
         /\ \A s \in Lasting(h).scopes : \E a \in v.roles : s = Okta!Scope(a)
<1>1. {"users", "groups", "apps", "services", "members", "secrets", "permissions",
       "resources", "bindings", "devices", "roles", "scopes"}
        \subseteq Okta!FactNames \ Okta!Exclusions
  BY DEF Okta!FactNames, Okta!Exclusions
<1>2. /\ Okta!Facts(v).users = v.users /\ Okta!Facts(v).groups = v.groups
      /\ Okta!Facts(v).apps = v.apps /\ Okta!Facts(v).services = v.services
      /\ Okta!Facts(v).members = v.members /\ Okta!Facts(v).secrets = v.secrets
      /\ Okta!Facts(v).permissions = v.permissions
      /\ Okta!Facts(v).resources = v.resources /\ Okta!Facts(v).bindings = v.bindings
      /\ Okta!Facts(v).devices = {DeviceGraphId(d) : d \in v.devices}
      /\ Okta!Facts(v).roles = {Okta!Role(a) : a \in Okta!Held(v)}
      /\ Okta!Facts(v).scopes = {Okta!Scope(a) : a \in v.roles}
  BY DEF Okta!Facts
<1>3. /\ Lasting(h).devices \subseteq Okta!Facts(v).devices
      /\ Lasting(h).roles \subseteq Okta!Facts(v).roles
      /\ Lasting(h).scopes \subseteq Okta!Facts(v).scopes
  BY <1>1, FactLasts
<1>4. \A d \in Lasting(h).devices : \E x \in v.devices : d = DeviceGraphId(x)
  BY <1>2, <1>3, Zenon
<1>5. \A r \in Lasting(h).roles : \E a \in Okta!Held(v) : r = Okta!Role(a)
  BY <1>2, <1>3, Zenon
<1>6. \A s \in Lasting(h).scopes : \E a \in v.roles : s = Okta!Scope(a)
  BY <1>2, <1>3, Zenon
<1>7. QED
  BY <1>1, <1>2, <1>4, <1>5, <1>6, FactLasts

\* Who is always without a role is so in every version.
LEMMA PlainLasts ==
  ASSUME NEW h, NEW v \in ToSet(h), NEW id
  PROVE  /\ id \in Okta!PlainUsers(Lasting(h)) =>
              id \in Lasting(h).users /\ id \notin Okta!AdminUsers(v)
         /\ id \in Okta!PlainGroups(Lasting(h)) =>
              id \in Lasting(h).groups /\ id \notin Okta!HeldBy(v, "group")
         /\ id \in Okta!PlainApps(Lasting(h)) =>
              id \in Okta!Ids(Lasting(h).apps) /\ id \notin Okta!HeldBy(v, "client")
<1>1. ASSUME NEW n \in Okta!Exclusions
      PROVE  Okta!Facts(v)[n] \subseteq Lasting(h)[n]
  <2>1. Lasting(h)[n] = Okta!Sometimes(n, ToSet(h))
    BY DEF Lasting, Okta!Always, Okta!Exclusions, Okta!FactNames
  <2>2. QED
    BY <2>1, Zenon DEF Okta!Sometimes
<1>2. /\ Okta!Facts(v).adminUsers \subseteq Lasting(h).adminUsers
      /\ Okta!Facts(v).adminGroups \subseteq Lasting(h).adminGroups
      /\ Okta!Facts(v).adminApps \subseteq Lasting(h).adminApps
  BY <1>1 DEF Okta!Exclusions
<1>3. /\ Okta!Facts(v).adminUsers = Okta!AdminUsers(v)
      /\ Okta!Facts(v).adminGroups = Okta!HeldBy(v, "group")
      /\ Okta!Facts(v).adminApps = Okta!HeldBy(v, "client")
  BY DEF Okta!Facts
<1>4. QED
  BY <1>2, <1>3 DEF Okta!PlainUsers, Okta!PlainGroups, Okta!PlainApps

\* The collection has ended without a failure, and the transforms have run.
Whole == Inv /\ TellInv /\ stage = "convert" /\ faults = 0

LEMMA WholeIsComplete ==
  ASSUME Whole, NEW t \in ToSet(Order)
  PROVE  /\ t \in Listings => ListingIsComplete(t)
         /\ t \in DOMAIN Parent \ RoleTables => ChildrenAreComplete(t)
         /\ t \in RoleTables => AssignmentsAreComplete(t)
<1>1. Done(t)
  BY Positions, DoneIsBehind DEF Whole, TellInv, StageInv
<1>2. t \notin lost
  BY DEF Whole, TellInv, StageInv
<1>3. QED
  BY <1>1, <1>2 DEF Whole, TellInv, CompleteInv

\* By name, so that they are at hand.
LEMMA ListingsAreWhole ==
  ASSUME Whole
  PROVE  \A t \in {"users", "groups", "applications", "api_services", "devices",
                   "resource_sets", "custom_roles", "privileged_users", "client_applications"} :
           \E v \in SeenVersions : db[t] = ListedRows(t, v)
<1>1. ASSUME NEW t \in {"users", "groups", "applications", "api_services", "devices",
                        "resource_sets", "custom_roles", "privileged_users",
                        "client_applications"}
      PROVE  t \in ToSet(Order) /\ t \in Listings
  <2>1. t \in ToSet(Order)
    BY Positions DEF Position
  <2>2. t \notin DOMAIN Parent
    BY DEF Parent
  <2>3. QED
    BY <2>1, <2>2 DEF Listings, ToSet
<1>2. QED
  BY <1>1, WholeIsComplete DEF ListingIsComplete

LEMMA ChildrenAreWhole ==
  ASSUME Whole,
         NEW t \in {"group_memberships", "application_secrets", "api_service_secrets",
                    "resources", "resource_set_role_assignments", "custom_role_permissions"},
         NEW p \in db[Parent[t]]
  PROVE  \E v \in SeenVersions : ChildRows(t, p, v) \subseteq db[t]
<1>1. t \in DOMAIN Parent \ RoleTables /\ t \in ToSet(Order)
  BY Positions DEF Parent, RoleTables, Position
<1>2. QED
  BY <1>1, WholeIsComplete DEF ChildrenAreComplete

\* The row of a group, and what it tells of its members and roles.
LEMMA GroupIsListed ==
  ASSUME NEW v, NEW g \in v.groups, db["groups"] = ListedRows("groups", v)
  PROVE  \E row \in db["groups"] :
           /\ row.id = g /\ row.admin = (RolesOf(v, "group", g) # {})
           /\ row.users = Cardinality({m \in v.members : m.group = g})
<1> DEFINE row == [id |-> g, users |-> Cardinality({m \in v.members : m.group = g}),
                  admin |-> RolesOf(v, "group", g) # {}]
<1>1. row \in GroupRows(v)
  BY Zenon DEF GroupRows
<1>2. row \in db["groups"]
  BY <1>1 DEF ListedRows
<1>3. QED
  BY <1>2

LEMMA ThingsAreListed ==
  ASSUME Whole
  PROVE  /\ Lasting(history).users \subseteq AllIds("users")
         /\ Lasting(history).groups \subseteq AllIds("groups")
         /\ Lasting(history).apps \subseteq db["applications"]
         /\ Lasting(history).services \subseteq db["api_services"]
         /\ Lasting(history).devices \subseteq AllIds("devices")
<1> DEFINE F == Lasting(history)
<1>1. F.users \subseteq AllIds("users")
  <2>1. PICK v \in SeenVersions : db["users"] = ListedRows("users", v)
    BY ListingsAreWhole
  <2>2. ASSUME NEW u \in F.users PROVE u \in AllIds("users")
    <3>1. u \in v.users
      BY FactsLast DEF SeenVersions
    <3>2. [id |-> u] \in db["users"]
      BY <2>1, <3>1 DEF ListedRows
    <3>3. QED
      BY <3>2 DEF AllIds, GraphId
  <2>3. QED
    BY <2>2
<1>2. F.groups \subseteq AllIds("groups")
  <2>1. PICK v \in SeenVersions : db["groups"] = ListedRows("groups", v)
    BY ListingsAreWhole
  <2>2. ASSUME NEW g \in F.groups PROVE g \in AllIds("groups")
    <3>1. g \in v.groups
      BY FactsLast DEF SeenVersions
    <3>2. PICK row \in db["groups"] : row.id = g
      BY <2>1, <3>1, GroupIsListed
    <3>3. QED
      BY <3>2 DEF AllIds, GraphId
  <2>3. QED
    BY <2>2
<1>3. F.apps \subseteq db["applications"]
  <2>1. PICK v \in SeenVersions : db["applications"] = ListedRows("applications", v)
    BY ListingsAreWhole
  <2>2. QED
    BY <2>1, FactsLast DEF SeenVersions, ListedRows
<1>4. F.services \subseteq db["api_services"]
  <2>1. PICK v \in SeenVersions : db["api_services"] = ListedRows("api_services", v)
    BY ListingsAreWhole
  <2>2. QED
    BY <2>1, FactsLast DEF SeenVersions, ListedRows
<1>5. F.devices \subseteq AllIds("devices")
  <2>1. PICK v \in SeenVersions : db["devices"] = ListedRows("devices", v)
    BY ListingsAreWhole
  <2>2. db["devices"] = v.devices
    BY <2>1 DEF ListedRows
  <2>3. QED
    BY <2>2, FactsLast DEF SeenVersions, AllIds, GraphId
<1>6. QED
  BY <1>1, <1>2, <1>3, <1>4, <1>5

LEMMA SomeMemberCounts ==
  ASSUME NEW v \in Orgs, NEW m \in v.members
  PROVE  Cardinality({n \in v.members : n.group = m.group}) > 0
<1> DEFINE S == {n \in v.members : n.group = m.group}
<1>1. IsFiniteSet(v.members) /\ S \subseteq v.members
  BY OrgsAssumption
<1>2. IsFiniteSet(S) /\ S # {}
  BY <1>1, FS_Subset
<1>3. Cardinality(S) \in Nat /\ Cardinality(S) # 0
  BY <1>2, FS_CardinalityType, FS_EmptySet
<1>4. QED
  BY <1>3

LEMMA MembersAreListed ==
  ASSUME Whole
  PROVE  Lasting(history).members \subseteq db["group_memberships"]
<1>1. PICK v \in SeenVersions : db["groups"] = ListedRows("groups", v)
  BY ListingsAreWhole
<1>2. SUFFICES ASSUME NEW m \in Lasting(history).members
               PROVE  m \in db["group_memberships"]
  OBVIOUS
<1>3. v \in Orgs /\ m \in v.members
  BY <1>1, <1>2, VersionsAreSeen, FactsLast DEF Whole, Inv, SeenVersions, ToSet
<1>4. PICK p \in db["groups"] :
        p.id = m.group /\ p.users = Cardinality({n \in v.members : n.group = m.group})
  BY <1>1, <1>3, OrgsAssumption, GroupIsListed
<1>5. HasMembers(p)
  BY <1>3, <1>4, SomeMemberCounts DEF HasMembers
<1>6. PICK w \in SeenVersions : ChildRows("group_memberships", p, w) \subseteq db["group_memberships"]
  BY <1>4, ChildrenAreWhole DEF Parent
<1>7. m \in w.members
  BY <1>2, FactsLast DEF SeenVersions
<1>8. m \in ChildRows("group_memberships", p, w)
  BY <1>4, <1>5, <1>7 DEF ChildRows, Memberships
<1>9. QED
  BY <1>6, <1>8

\* The table of the memberships exists, as the org always has a group with members.
LEMMA MembershipsExist ==
  ASSUME Whole
  PROVE  TableExists("group_memberships")
<1>1. PICK v \in SeenVersions : db["groups"] = ListedRows("groups", v)
  BY ListingsAreWhole
<1>2. history \in Histories
  BY DEF Whole, Inv, HistoryInv
<1>3. PICK g \in GroupIds : \A w \in SeenVersions : \E m \in w.members : m.group = g
  BY <1>2, OrgsAssumption DEF SeenVersions
<1>4. PICK m \in v.members : m.group = g
  BY <1>1, <1>3
<1>5. v \in Orgs
  BY <1>1, VersionsAreSeen DEF Whole, Inv, SeenVersions, ToSet
<1>6. PICK p \in db["groups"] :
        p.id = g /\ p.users = Cardinality({n \in v.members : n.group = g})
  BY <1>1, <1>4, <1>5, OrgsAssumption, GroupIsListed
<1>7. HasMembers(p)
  BY <1>4, <1>5, <1>6, SomeMemberCounts DEF HasMembers
<1>8. PICK w \in SeenVersions : ChildRows("group_memberships", p, w) \subseteq db["group_memberships"]
  BY <1>6, ChildrenAreWhole DEF Parent
<1>9. PICK n \in w.members : n.group = g
  BY <1>3, <1>8
<1>10. n \in ChildRows("group_memberships", p, w)
  BY <1>6, <1>7, <1>9 DEF ChildRows, Memberships
<1>11. QED
  BY <1>8, <1>10 DEF TableExists

LEMMA SecretsAreListed ==
  ASSUME Whole, NEW s \in Lasting(history).secrets,
         s.app \in Okta!Ids(Lasting(history).apps) \cup Okta!Ids(Lasting(history).services)
  PROVE  s.id \in SecretsOf(s.app)
<1> DEFINE F == Lasting(history)
<1>1. ASSUME NEW t \in {"application_secrets", "api_service_secrets"},
             NEW p \in db[Parent[t]], p.id = s.app
      PROVE  s \in db[t]
  <2>1. PICK v \in SeenVersions : ChildRows(t, p, v) \subseteq db[t]
    BY ChildrenAreWhole
  <2>2. s \in v.secrets
    BY FactsLast DEF SeenVersions
  <2>3. s \in ChildRows(t, p, v)
    BY <1>1, <2>2 DEF ChildRows, Secrets
  <2>4. QED
    BY <2>1, <2>3
<1>2. CASE s.app \in Okta!Ids(F.apps)
  <2>1. PICK p \in db["applications"] : p.id = s.app
    BY <1>2, ThingsAreListed DEF Okta!Ids
  <2>2. s \in db["application_secrets"]
    BY <1>1, <2>1 DEF Parent
  <2>3. QED
    BY <2>2 DEF SecretsOf
<1>3. CASE s.app \in Okta!Ids(F.services)
  <2>1. PICK p \in db["api_services"] : p.id = s.app
    BY <1>3, ThingsAreListed DEF Okta!Ids
  <2>2. s \in db["api_service_secrets"]
    BY <1>1, <2>1 DEF Parent
  <2>3. QED
    BY <2>2 DEF SecretsOf
<1>4. QED
  BY <1>2, <1>3

LEMMA ResourcesAreListed ==
  ASSUME Whole, NEW r \in Lasting(history).resources
  PROVE  /\ r \in db["resources"]
         /\ \A b \in Lasting(history).bindings :
              b.set = r.set => b \in db["resource_set_role_assignments"]
<1>1. PICK v \in SeenVersions : db["resource_sets"] = ListedRows("resource_sets", v)
  BY ListingsAreWhole
<1>2. r \in v.resources
  BY <1>1, FactsLast DEF SeenVersions
<1>3. PICK p \in db["resource_sets"] : p.id = r.set
  <2>1. [id |-> r.set] \in db["resource_sets"]
    BY <1>1, <1>2 DEF ListedRows
  <2>2. QED
    BY <2>1
<1>4. r \in db["resources"]
  <2>1. PICK w \in SeenVersions : ChildRows("resources", p, w) \subseteq db["resources"]
    BY <1>3, ChildrenAreWhole DEF Parent
  <2>2. r \in w.resources
    BY <2>1, FactsLast DEF SeenVersions
  <2>3. QED
    BY <1>3, <2>1, <2>2 DEF ChildRows, Resources
<1>5. ASSUME NEW b \in Lasting(history).bindings, b.set = r.set
      PROVE  b \in db["resource_set_role_assignments"]
  <2>1. PICK w \in SeenVersions :
          ChildRows("resource_set_role_assignments", p, w) \subseteq db["resource_set_role_assignments"]
    BY <1>3, ChildrenAreWhole DEF Parent
  <2>2. b \in w.bindings
    BY <2>1, FactsLast DEF SeenVersions
  <2>3. QED
    BY <1>3, <1>5, <2>1, <2>2 DEF ChildRows, Bindings
<1>6. QED
  BY <1>4, <1>5

LEMMA PermissionsAreListed ==
  ASSUME Whole
  PROVE  Lasting(history).permissions \subseteq db["custom_role_permissions"]
<1>1. PICK v \in SeenVersions : db["custom_roles"] = ListedRows("custom_roles", v)
  BY ListingsAreWhole
<1>2. SUFFICES ASSUME NEW q \in Lasting(history).permissions
               PROVE  q \in db["custom_role_permissions"]
  OBVIOUS
<1>3. PICK p \in db["custom_roles"] : p.id = q.role
  <2>1. q \in v.permissions
    BY <1>1, <1>2, FactsLast DEF SeenVersions
  <2>2. [id |-> q.role] \in db["custom_roles"]
    BY <1>1, <2>1 DEF ListedRows
  <2>3. QED
    BY <2>2
<1>4. PICK w \in SeenVersions :
        ChildRows("custom_role_permissions", p, w) \subseteq db["custom_role_permissions"]
  BY <1>3, ChildrenAreWhole DEF Parent
<1>5. q \in w.permissions
  BY <1>2, FactsLast DEF SeenVersions
<1>6. QED
  BY <1>3, <1>4, <1>5 DEF ChildRows, PermissionsOf


-----------------------------------------------------------------------------
(* Who never has a role is among the targets of administrators. *)

LEMMA RoleIsHeld ==
  ASSUME NEW h, NEW r \in Known(h).roles
  PROVE  \E v \in ToSet(h) : \E a \in Okta!Held(v) : r = Okta!Role(a)
<1>1. "roles" \in Okta!FactNames \ Okta!Exclusions
  BY DEF Okta!FactNames, Okta!Exclusions
<1>2. r \in Okta!Sometimes("roles", ToSet(h))
  BY <1>1, SometimesIsKnown
<1>3. PICK v \in ToSet(h) : r \in Okta!Facts(v)["roles"]
  BY <1>2, Zenon DEF Okta!Sometimes
<1>4. Okta!Facts(v)["roles"] = {Okta!Role(a) : a \in Okta!Held(v)}
  BY DEF Okta!Facts
<1>5. \E a \in Okta!Held(v) : r = Okta!Role(a)
  BY <1>3, <1>4, Zenon
<1>6. QED
  BY <1>3, <1>5

LEMMA PrincipalsHoldRoles ==
  ASSUME Whole, NEW id, NEW type \in {"user", "group", "client"},
         [id |-> id, type |-> type] \in PrincipalsWithAdminRoles
  PROVE  \E v \in SeenVersions :
           IF type = "user" THEN id \in Okta!AdminUsers(v) ELSE id \in Okta!HeldBy(v, type)
<1>1. CASE [id |-> id, type |-> type] \in Principals("user", {r.id : r \in db["privileged_users"]})
  <2>1. PICK x \in {r.id : r \in db["privileged_users"]} :
          [id |-> id, type |-> type] = [id |-> x, type |-> "user"]
    BY <1>1, Zenon DEF Principals
  <2>2. type = "user" /\ \E r \in db["privileged_users"] : id = r.id
    BY <2>1
  <2>3. PICK v \in SeenVersions : db["privileged_users"] = ListedRows("privileged_users", v)
    BY ListingsAreWhole
  <2>4. id \in PrivilegedIds(v)
    BY <2>2, <2>3 DEF ListedRows
  <2>5. id \in Okta!AdminUsers(v)
    BY <2>4 DEF PrivilegedIds, Okta!AdminUsers, RolesOf
  <2>6. QED
    BY <2>2, <2>3, <2>5
<1>2. CASE [id |-> id, type |-> type] \notin Principals("user", {r.id : r \in db["privileged_users"]})
  <2>1. PICK r \in {a \in UNION {db[t] : t \in RoleTables} :
                      a.status = "ACTIVE" /\ a.assignmentType = DirectType(a.from)} :
          [id |-> id, type |-> type] = [id |-> r.source, type |-> r.from]
    BY <1>2, Zenon DEF PrincipalsWithAdminRoles
  <2>2. PICK t \in RoleTables : r \in db[t]
    BY <2>1
  <2>3. AssignmentIsSeen(Known(history), r)
    BY <2>2 DEF Whole, TellInv, SeenInv, IsSeen, RoleTables, Stored, Tables
  <2>4. PICK v \in ToSet(history) : \E a \in Okta!Held(v) : Okta!Role(r) = Okta!Role(a)
    BY <2>3, RoleIsHeld DEF AssignmentIsSeen
  <2>5. PICK a \in Okta!Held(v) : Okta!Role(r) = Okta!Role(a)
    BY <2>4
  <2>6. a.source = id /\ a.from = type
    BY <2>1, <2>5 DEF Okta!Role
  <2>7. a \in v.roles
    BY DEF Okta!Held
  <2>8. id \in Okta!HeldBy(v, type) /\ (type = "user" => id \in Okta!AdminUsers(v))
    BY <2>6, <2>7 DEF Okta!HeldBy, Okta!AdminUsers
  <2>9. QED
    BY <2>4, <2>8 DEF SeenVersions
<1>3. QED
  BY <1>1, <1>2

LEMMA PlainAreListed ==
  ASSUME Whole
  PROVE  /\ Okta!PlainUsers(Lasting(history)) \subseteq AllIds("non_admin_users")
         /\ Okta!PlainGroups(Lasting(history)) \subseteq AllIds("non_admin_groups")
         /\ Okta!PlainApps(Lasting(history)) \subseteq AllIds("non_admin_apps")
<1> DEFINE F == Lasting(history)
<1>1. ASSUME NEW t, NEW type, NEW id \in AllIds(t), t # "devices",
             [id |-> id, type |-> type] \notin PrincipalsWithAdminRoles
      PROVE  \E row \in NonAdmins(t, type) : row.id = id
  <2>1. PICK s \in db[t] : s.id = id
    BY <1>1 DEF AllIds, GraphId
  <2>2. [id |-> s.id] \in NonAdmins(t, type)
    BY <1>1, <2>1 DEF NonAdmins
  <2>3. QED
    BY <2>1, <2>2
<1>2. /\ db["non_admin_users"] = NonAdmins("users", "user")
      /\ db["non_admin_groups"] = NonAdmins("groups", "group")
      /\ db["non_admin_apps"] = NonAdmins("applications", "client")
  BY DEF Whole, Inv, DerivedInv
<1>3. ASSUME NEW id \in Okta!PlainUsers(F)
      PROVE  id \in AllIds("non_admin_users")
  <2>1. id \in AllIds("users")
    <3>1. id \in F.users
      BY DEF Okta!PlainUsers
    <3>2. QED
      BY <3>1, ThingsAreListed
  <2>2. \A v \in SeenVersions : id \notin Okta!AdminUsers(v)
    BY PlainLasts DEF SeenVersions
  <2>3. [id |-> id, type |-> "user"] \notin PrincipalsWithAdminRoles
    BY <2>2, PrincipalsHoldRoles
  <2>4. QED
    BY <1>1, <1>2, <2>1, <2>3 DEF AllIds, GraphId
<1>4. ASSUME NEW id \in Okta!PlainGroups(F)
      PROVE  id \in AllIds("non_admin_groups")
  <2>1. id \in AllIds("groups")
    <3>1. id \in F.groups
      BY DEF Okta!PlainGroups
    <3>2. QED
      BY <3>1, ThingsAreListed
  <2>2. \A v \in SeenVersions : id \notin Okta!HeldBy(v, "group")
    BY PlainLasts DEF SeenVersions
  <2>3. [id |-> id, type |-> "group"] \notin PrincipalsWithAdminRoles
    BY <2>2, PrincipalsHoldRoles
  <2>4. QED
    BY <1>1, <1>2, <2>1, <2>3 DEF AllIds, GraphId
<1>5. ASSUME NEW id \in Okta!PlainApps(F)
      PROVE  id \in AllIds("non_admin_apps")
  <2>1. id \in AllIds("applications")
    <3>1. id \in Okta!Ids(F.apps)
      BY DEF Okta!PlainApps
    <3>2. QED
      BY <3>1, ThingsAreListed DEF Okta!Ids, AllIds, GraphId
  <2>2. \A v \in SeenVersions : id \notin Okta!HeldBy(v, "client")
    BY PlainLasts DEF SeenVersions
  <2>3. [id |-> id, type |-> "client"] \notin PrincipalsWithAdminRoles
    BY <2>2, PrincipalsHoldRoles
  <2>4. QED
    BY <1>1, <1>2, <2>1, <2>3 DEF AllIds, GraphId
<1>6. QED
  BY <1>3, <1>4, <1>5

-----------------------------------------------------------------------------
(* A role that is always held is collected, with its scope. *)

LEMMA FetchedScope ==
  ASSUME NEW w \in Orgs, NEW a, NEW c \in w.roles, c.id = a.id, c.source = a.source
  PROVE  /\ Fetch(a, w, Apps) = [fetched |-> TRUE, targets |-> c.appTargets]
         /\ Fetch(a, w, Groups) = [fetched |-> TRUE, targets |-> c.groupTargets]
<1>1. {b \in w.roles : b.id = a.id /\ b.source = a.source} = {c}
  BY RolesAssumption
<1>2. /\ Fetch(a, w, Apps) = [fetched |-> TRUE, targets |-> UNION {Apps(b) : b \in {c}}]
      /\ Fetch(a, w, Groups) = [fetched |-> TRUE, targets |-> UNION {Groups(b) : b \in {c}}]
  BY <1>1 DEF Fetch
<1>3. UNION {Apps(b) : b \in {c}} = c.appTargets /\ UNION {Groups(b) : b \in {c}} = c.groupTargets
  BY DEF Apps, Groups
<1>4. QED
  BY <1>2, <1>3

\* What an assignment is limited to, if it is of a role that can be.
ScopeIs(a, s) ==
  /\ a.type = "APP_ADMIN" => a.appScope.fetched /\ a.appScope.targets = s.apps
  /\ a.type \in GroupTargetedTypes => a.groupScope.fetched /\ a.groupScope.targets = s.groups

LEMMA HolderIsListed ==
  ASSUME Whole, NEW r \in Lasting(history).roles,
         NEW t \in RoleTables, RoleHolder[t] = r.from
  PROVE  \E p \in db[Parent[t]] : IsAsked(t, p) /\ p.id = r.source
<1>1. CASE t = "user_role_assignments"
  <2>1. PICK v \in SeenVersions : db["privileged_users"] = ListedRows("privileged_users", v)
    BY ListingsAreWhole
  <2>2. PICK a \in Okta!Held(v) : r = Okta!Role(a)
    BY <2>1, FactsLast DEF SeenVersions
  <2>3. r.source \in PrivilegedIds(v)
    BY <1>1, <2>2 DEF Okta!Role, Okta!Held, PrivilegedIds, RoleHolder
  <2>4. [id |-> r.source] \in db["privileged_users"]
    BY <2>1, <2>3 DEF ListedRows
  <2>5. QED
    BY <1>1, <2>4 DEF Parent, IsAsked
<1>2. CASE t = "group_role_assignments"
  <2>1. PICK v \in SeenVersions : db["groups"] = ListedRows("groups", v)
    BY ListingsAreWhole
  <2>2. PICK a \in Okta!Held(v) : r = Okta!Role(a)
    BY <2>1, FactsLast DEF SeenVersions
  <2>3. a \in v.roles /\ a.from = "group" /\ a.source = r.source
    BY <1>2, <2>2 DEF Okta!Role, Okta!Held, RoleHolder
  <2>4. v \in Orgs
    BY <2>1, VersionsAreSeen DEF Whole, Inv, SeenVersions, ToSet
  <2>5. PICK p \in db["groups"] : p.id = r.source /\ p.admin = (RolesOf(v, "group", r.source) # {})
    <3>1. r.source \in v.groups
      BY <2>3, <2>4, OrgsAssumption
    <3>2. \E row \in db["groups"] :
            /\ row.id = r.source /\ row.admin = (RolesOf(v, "group", r.source) # {})
            /\ row.users = Cardinality({m \in v.members : m.group = r.source})
      BY <2>1, <3>1, GroupIsListed
    <3>3. QED
      BY <3>2
  <2>6. a \in RolesOf(v, "group", r.source)
    BY <2>3 DEF RolesOf
  <2>7. p.admin
    BY <2>5, <2>6
  <2>8. QED
    BY <1>2, <2>5, <2>7 DEF Parent, IsAsked
<1>3. CASE t = "client_role_assignments"
  <2>1. PICK v \in SeenVersions : db["client_applications"] = ListedRows("client_applications", v)
    BY ListingsAreWhole
  <2>2. PICK a \in Okta!Held(v) : r = Okta!Role(a)
    BY <2>1, FactsLast DEF SeenVersions
  <2>3. a \in v.roles /\ a.from = "client" /\ a.source = r.source
    BY <1>3, <2>2 DEF Okta!Role, Okta!Held, RoleHolder
  <2>4. v \in Orgs
    BY <2>1, VersionsAreSeen DEF Whole, Inv, SeenVersions, ToSet
  <2>5. PICK c \in v.clients : c.id = r.source /\ c.service
    BY <2>3, <2>4, RolesAssumption
  <2>6. QED
    BY <1>3, <2>1, <2>5 DEF ListedRows, Parent, IsAsked
<1>4. QED
  BY <1>1, <1>2, <1>3 DEF RoleTables

LEMMA RolesAreListed ==
  ASSUME Whole, NEW r \in Lasting(history).roles
  PROVE  \E t \in RoleTables : \E a \in db[t] :
           /\ IsDirectActive(a) /\ Okta!Role(a) = r
           /\ \A s \in Okta!ScopesOf(Lasting(history), r) : ScopeIs(a, s)
<1>1. PICK u \in SeenVersions : TRUE
  BY ListingsAreWhole
<1>2. r.from \in {"user", "group", "client"}
  <2>1. PICK b \in Okta!Held(u) : r = Okta!Role(b)
    BY <1>1, FactsLast DEF SeenVersions
  <2>2. QED
    BY <2>1 DEF Okta!Role, Okta!Held, Okta!IsHeld
<1>3. PICK t \in RoleTables : RoleHolder[t] = r.from
  BY <1>2 DEF RoleTables, RoleHolder
<1>4. PICK p \in db[Parent[t]] : IsAsked(t, p) /\ p.id = r.source
  BY <1>3, HolderIsListed
<1>5. t \in ToSet(Order)
  BY Positions DEF RoleTables, Position
<1>6. PICK v \in SeenVersions : \A a \in RolesOf(v, RoleHolder[t], p.id) :
        IsDirectActive(a) =>
          \E w \in SeenVersions, failed \in BOOLEAN :
            ScopedRow(a, w, failed) \in db[t] /\ (failed => faults > 0)
  BY <1>4, <1>5, WholeIsComplete DEF AssignmentsAreComplete
<1>7. PICK b \in Okta!Held(v) : r = Okta!Role(b)
  BY <1>6, FactsLast DEF SeenVersions
<1>8. /\ b.id = r.id /\ b.from = r.from /\ b.source = r.source /\ b.type = r.type
      /\ b \in RolesOf(v, RoleHolder[t], p.id) /\ IsDirectActive(b)
  <2>1. /\ b.id = r.id /\ b.from = r.from /\ b.source = r.source /\ b.type = r.type
        /\ b \in v.roles /\ Okta!IsHeld(b)
    BY <1>7 DEF Okta!Role, Okta!Held
  <2>2. QED
    BY <1>2, <1>3, <1>4, <2>1, HeldIsDirectActive DEF RolesOf
<1>9. PICK w \in SeenVersions : ScopedRow(b, w, FALSE) \in db[t]
  <2>1. PICK w \in SeenVersions :
          \E failed \in BOOLEAN : ScopedRow(b, w, failed) \in db[t] /\ (failed => faults > 0)
    BY <1>6, <1>8
  <2>2. PICK failed \in BOOLEAN : ScopedRow(b, w, failed) \in db[t] /\ (failed => faults > 0)
    BY <2>1
  <2>3. failed = FALSE
    BY <2>2 DEF Whole
  <2>4. QED
    BY <2>2, <2>3
<1> DEFINE a == ScopedRow(b, w, FALSE)
<1>10. /\ a.id = b.id /\ a.from = b.from /\ a.source = b.source /\ a.status = b.status
       /\ a.assignmentType = b.assignmentType /\ a.type = b.type /\ a.role = b.role
       /\ a.type = "APP_ADMIN" => a.appScope = Fetch(b, w, Apps)
       /\ a.type \in GroupTargetedTypes => a.groupScope = Fetch(b, w, Groups)
       /\ a \in db[t]
  BY <1>9 DEF ScopedRow, RoleRow
<1> HIDE DEF a
<1>11. Okta!Role(a) = r /\ IsDirectActive(a)
  BY <1>7, <1>8, <1>10 DEF Okta!Role, IsDirectActive
<1>12. ASSUME NEW s \in Okta!ScopesOf(Lasting(history), r)
       PROVE  ScopeIs(a, s)
  <2>1. s \in Lasting(history).scopes /\ s.id = r.id /\ s.source = r.source
    BY DEF Okta!ScopesOf
  <2>2. PICK c \in w.roles : s = Okta!Scope(c)
    BY <1>9, <2>1, FactsLast DEF SeenVersions
  <2>3. c.id = b.id /\ c.source = b.source /\ s.apps = c.appTargets /\ s.groups = c.groupTargets
    BY <1>8, <2>1, <2>2 DEF Okta!Scope
  <2>4. w \in Orgs
    BY <1>9, VersionsAreSeen DEF Whole, Inv, SeenVersions, ToSet
  <2>5. /\ Fetch(b, w, Apps) = [fetched |-> TRUE, targets |-> s.apps]
        /\ Fetch(b, w, Groups) = [fetched |-> TRUE, targets |-> s.groups]
    BY <2>3, <2>4, FetchedScope
  <2>6. QED
    BY <1>10, <2>5 DEF ScopeIs
<1>13. QED
  BY <1>10, <1>11, <1>12


-----------------------------------------------------------------------------
(* What is always granted is reached. *)

LEMMA TypesAreListed ==
  ASSUME Whole, NEW type
  PROVE  Okta!AppsNamed(Lasting(history), type) \subseteq AppsAndIntegrationsByType(type)
BY ThingsAreListed DEF AppsAndIntegrationsByType, Okta!AppsNamed, Okta!Ids

LEMMA IdsAreListed ==
  ASSUME Whole
  PROVE  /\ Okta!Ids(Lasting(history).apps) \subseteq AllIds("applications")
         /\ Okta!Ids(Lasting(history).services) \subseteq AllIds("api_services")
BY ThingsAreListed DEF Okta!Ids, AllIds, GraphId

LEMMA TargetAppsAreListed ==
  ASSUME Whole, NEW t
  PROVE  Okta!TargetApps(Lasting(history), t) \subseteq TargetApps(t)
<1> DEFINE F == Lasting(history)
<1>1. CASE t.id # None
  <2>1. TargetApps(t) = {id \in {t.id} : id \in AllIds("applications")}
    BY <1>1 DEF TargetApps
  <2>2. Okta!TargetApps(F, t) = {t.id} \cap Okta!Ids(F.apps)
    BY <1>1, Zenon DEF Okta!TargetApps, None
  <2>3. QED
    BY <2>1, <2>2, IdsAreListed
<1>2. CASE t.id = None
  <2>1. TargetApps(t) = AppsAndIntegrationsByType(t.name)
    BY <1>2 DEF TargetApps
  <2>2. Okta!TargetApps(F, t) = Okta!AppsNamed(F, t.name)
    BY <1>2, Zenon DEF Okta!TargetApps, None
  <2>3. QED
    BY <2>1, <2>2, TypesAreListed
<1>3. QED
  BY <1>1, <1>2

LEMMA ScopeAppsAreListed ==
  ASSUME Whole, NEW a, NEW s, a.appScope.targets = s.apps
  PROVE  Okta!ScopeApps(Lasting(history), s)
           \subseteq IF s.apps = {} THEN AllIds("applications") \cup AllIds("api_services")
                                    ELSE ScopedAppIds(a)
<1> DEFINE F == Lasting(history)
<1>1. CASE s.apps = {}
  BY <1>1, IdsAreListed DEF Okta!ScopeApps
<1>2. CASE s.apps # {}
  <2>1. Okta!ScopeApps(F, s) =
          UNION {Okta!TargetApps(F, t) : t \in {u \in s.apps : u.status = "ACTIVE"}}
    BY <1>2 DEF Okta!ScopeApps
  <2>2. QED
    BY <1>2, <2>1, TargetAppsAreListed DEF ScopedAppIds
<1>3. QED
  BY <1>1, <1>2

LEMMA ScopeGroupsAreListed ==
  ASSUME Whole, NEW a, NEW s, a.groupScope.targets = s.groups
  PROVE  /\ Okta!ScopeGroups(Lasting(history), s)
              \subseteq IF ScopedGroupIds(a) # {} THEN ScopedGroupIds(a) ELSE AllIds("groups")
         /\ Okta!ScopeUsers(Lasting(history), s)
              \subseteq IF ScopedGroupIds(a) # {} THEN GroupUserIds(ScopedGroupIds(a))
                                                  ELSE AllIds("users")
<1> DEFINE F == Lasting(history)
<1>1. F.groups \subseteq AllIds("groups") /\ F.users \subseteq AllIds("users")
  BY ThingsAreListed
<1>2. ScopedGroupIds(a) = s.groups \cap AllIds("groups")
  BY DEF ScopedGroupIds
<1>3. CASE s.groups = {}
  BY <1>1, <1>2, <1>3 DEF Okta!ScopeGroups, Okta!ScopeUsers
<1>4. CASE s.groups # {}
  <2>1. Okta!ScopeGroups(F, s) \subseteq ScopedGroupIds(a)
    BY <1>1, <1>2, <1>4 DEF Okta!ScopeGroups
  <2>2. ASSUME NEW id \in Okta!ScopeUsers(F, s)
        PROVE  id \in GroupUserIds(ScopedGroupIds(a)) /\ ScopedGroupIds(a) # {}
    <3>1. PICK m \in F.members : m.group \in s.groups /\ m.id = id
      BY <1>4, <2>2 DEF Okta!ScopeUsers
    <3>2. PICK v \in SeenVersions : db["groups"] = ListedRows("groups", v)
      BY ListingsAreWhole
    <3>3. m \in v.members /\ v \in Orgs
      BY <3>2, FactsLast, VersionsAreSeen DEF Whole, Inv, SeenVersions, ToSet
    <3>4. m.group \in AllIds("groups")
      <4>1. m.group \in v.groups
        BY <3>3, OrgsAssumption
      <4>2. PICK p \in db["groups"] : p.id = m.group
        BY <3>2, <4>1, GroupIsListed, Zenon
      <4>3. QED
        BY <4>2 DEF AllIds, GraphId
    <3>5. m \in db["group_memberships"]
      BY MembersAreListed
    <3>6. QED
      BY <1>2, <3>1, <3>4, <3>5 DEF GroupUserIds
  <2>3. QED
    BY <2>1, <2>2
<1>5. QED
  BY <1>3, <1>4

LEMMA MembersAreReached ==
  ASSUME Whole, NEW r \in Lasting(history).resources
  PROVE  Okta!Stands(Lasting(history), r) \subseteq Resolve(r)
<1> DEFINE F == Lasting(history)
<1>1. r \in db["resources"]
  BY ResourcesAreListed
<1>2. IsNamed(r) /\ MeansIds(r, Resolve(r))
  <2>1. IsNamed(r)
    BY <1>1, ResourcesAreNamed DEF Whole, Inv, TellInv
  <2>2. r.url # NoUrl \/ r.orn # <<>>
    <3>1. PICK v \in SeenVersions : db["groups"] = ListedRows("groups", v)
      BY ListingsAreWhole
    <3>2. v \in Orgs /\ r \in v.resources
      BY <3>1, FactsLast, VersionsAreSeen DEF Whole, Inv, SeenVersions, ToSet
    <3>3. QED
      BY <3>2, OrgsAssumption
  <2>3. QED
    BY <2>1, <2>2, UrlIsMeant, OrnIsMeant DEF Resolve
<1>3. /\ Okta!Things(F) = [users |-> F.users, groups |-> F.groups,
                           apps |-> Okta!Ids(F.apps) \cup Okta!Ids(F.services)]
      /\ DOMAIN Okta!Things(F) = {"users", "groups", "apps"}
  BY DEF Okta!Things
<1>4. SUFFICES ASSUME NEW id \in Okta!Stands(F, r) PROVE id \in Resolve(r)
  OBVIOUS
<1>5. ASSUME NEW kind \in DOMAIN Okta!Things(F), id \in Okta!Things(F)[kind]
      PROVE  \E u \in TablesOfKind[kind] : id \in AllIds(u) /\ id \in ExistingIds(u, id)
  <2>1. /\ TablesOfKind["users"] = {"users"} /\ TablesOfKind["groups"] = {"groups"}
        /\ TablesOfKind["apps"] = {"applications", "api_services"}
    BY DEF TablesOfKind
  <2>2. ASSUME NEW u, id \in AllIds(u), u # "devices"
        PROVE  id \in ExistingIds(u, id)
    BY <2>2 DEF AllIds, ExistingIds, GraphId
  <2>3. CASE kind = "users"
    BY <1>3, <1>5, <2>1, <2>2, <2>3, ThingsAreListed
  <2>4. CASE kind = "groups"
    BY <1>3, <1>5, <2>1, <2>2, <2>4, ThingsAreListed
  <2>5. CASE kind = "apps"
    BY <1>3, <1>5, <2>1, <2>2, <2>5, IdsAreListed
  <2>6. QED
    BY <1>3, <2>3, <2>4, <2>5
<1>6. ASSUME NEW kind \in DOMAIN UrlWords, IsAll(r, kind)
      PROVE  id \in Resolve(r)
  <2>1. r.means[1] = "all" /\ r.means[2] = kind
    BY <1>6 DEF IsAll
  <2>2. kind \in DOMAIN Okta!Things(F) /\ id \in Okta!Things(F)[kind]
    BY <1>4, <2>1 DEF Okta!Stands
  <2>3. QED
    BY <1>2, <1>5, <1>6, <2>2 DEF MeansIds
<1>7. ASSUME NEW kind \in DOMAIN UrlWords \ {"policies"}, IsOne(r, kind, r.means[3])
      PROVE  id \in Resolve(r)
  <2>1. r.means[1] = "one" /\ r.means[2] = kind
    BY <1>7 DEF IsOne
  <2>2. kind \in DOMAIN Okta!Things(F) /\ id \in Okta!Things(F)[kind] /\ id = r.means[3]
    BY <1>4, <2>1 DEF Okta!Stands
  <2>3. QED
    BY <1>2, <1>5, <1>7, <2>2 DEF MeansIds
<1>8. ASSUME NEW kind \in {"apps", "policies"}, IsType(r, kind, r.means[3])
      PROVE  id \in Resolve(r)
  <2>1. r.means[1] = "type" /\ r.means[2] = kind
    BY <1>8 DEF IsType
  <2>2. kind = "apps" /\ id \in Okta!AppsNamed(F, r.means[3])
    BY <1>4, <2>1 DEF Okta!Stands
  <2>3. QED
    BY <1>2, <1>8, <2>2, TypesAreListed DEF MeansIds
<1>9. ASSUME IsMembers(r, r.means[2])
      PROVE  id \in Resolve(r)
  <2>1. r.means[1] = "members"
    BY <1>9 DEF IsMembers
  <2>2. id \in {m.id : m \in {n \in F.members : n.group = r.means[2]}}
    BY <1>4, <2>1 DEF Okta!Stands
  <2>3. QED
    BY <1>2, <1>9, <2>2, MembersAreListed DEF MeansIds, GroupUserIds
<1>10. ~IsOther(r)
  <2>1. SUFFICES ASSUME IsOther(r) PROVE FALSE
    OBVIOUS
  <2>2. r.means[1] = "other"
    BY <2>1 DEF IsOther
  <2>3. QED
    BY <1>4, <2>2 DEF Okta!Stands
<1>11. QED
  BY <1>2, <1>6, <1>7, <1>8, <1>9, <1>10 DEF IsNamed

LEMMA BoundIsReached ==
  ASSUME Whole, NEW a, NEW id \in Okta!BoundTo(Lasting(history), Okta!Role(a)),
         NEW t, id \in AllIds(t)
  PROVE  id \in ResourceSetIdsInTable(BoundSets(a), t)
<1> DEFINE F == Lasting(history)
<1>1. PICK r \in {x \in F.resources : \E y \in F.bindings :
                    y.id = Okta!Role(a).id /\ y.assignee = Okta!Role(a).source /\ y.set = x.set} :
        id \in Okta!Stands(F, r)
  BY Zenon DEF Okta!BoundTo
<1>2. PICK b \in F.bindings :
        b.id = Okta!Role(a).id /\ b.assignee = Okta!Role(a).source /\ b.set = r.set
  BY <1>1
<1>3. b \in db["resource_set_role_assignments"] /\ r \in db["resources"]
  BY <1>1, <1>2, ResourcesAreListed
<1>4. r.set \in BoundSets(a)
  BY <1>2, <1>3 DEF BoundSets, RoleAssignmentResourceSetIds, Okta!Role
<1>5. id \in ResourceSetMemberIds(r.set)
  BY <1>1, <1>3, MembersAreReached DEF ResourceSetMemberIds
<1>6. id \in UNION {ResourceSetMemberIds(set) : set \in BoundSets(a)}
  BY <1>4, <1>5, Zenon
<1>7. QED
  BY <1>6 DEF ResourceSetIdsInTable

LEMMA SecretsAreReached ==
  ASSUME Whole, NEW apps, NEW known,
         apps \subseteq Okta!Ids(Lasting(history).apps) \cup Okta!Ids(Lasting(history).services),
         apps \subseteq known
  PROVE  Okta!SecretsOfAny(Lasting(history), apps) \subseteq UNION {SecretsOf(app) : app \in known}
<1>1. SUFFICES ASSUME NEW id \in Okta!SecretsOfAny(Lasting(history), apps)
               PROVE  id \in UNION {SecretsOf(app) : app \in known}
  OBVIOUS
<1>2. PICK s \in Lasting(history).secrets : s.app \in apps /\ s.id = id
  BY <1>1 DEF Okta!SecretsOfAny, Okta!Ids
<1>3. id \in SecretsOf(s.app) /\ s.app \in known
  BY <1>2, SecretsAreListed
<1>4. QED
  BY <1>3, Zenon


-----------------------------------------------------------------------------
(* What is reached has its edge: no generator raises. *)

Occurs(x, s) == \E i \in DOMAIN s : s[i] = x

LEMMA PartsAreKept ==
  ASSUME NEW S, NEW s1 \in Seq(S), NEW s2 \in Seq(S), NEW x,
         Occurs(x, s1) \/ Occurs(x, s2)
  PROVE  Occurs(x, s1 \o s2)
<1>1. /\ s1 \o s2 \in Seq(S) /\ Len(s1 \o s2) = Len(s1) + Len(s2)
      /\ \A i \in 1 .. Len(s1) + Len(s2) :
           (s1 \o s2)[i] = IF i <= Len(s1) THEN s1[i] ELSE s2[i - Len(s1)]
  BY ConcatProperties, Zenon
<1>2. /\ DOMAIN s1 = 1 .. Len(s1) /\ DOMAIN s2 = 1 .. Len(s2)
      /\ DOMAIN (s1 \o s2) = 1 .. Len(s1) + Len(s2)
      /\ Len(s1) \in Nat /\ Len(s2) \in Nat
  BY <1>1, LenProperties
<1> DEFINE both == s1 \o s2
<1> HIDE DEF both
<1>3. ASSUME NEW i \in DOMAIN s1
      PROVE  i \in DOMAIN both /\ both[i] = s1[i]
  <2>1. i \in 1 .. Len(s1) + Len(s2) /\ i <= Len(s1)
    BY <1>2
  <2>2. QED
    BY <1>1, <1>2, <2>1 DEF both
<1>4. ASSUME NEW i \in DOMAIN s2
      PROVE  i + Len(s1) \in DOMAIN both /\ both[i + Len(s1)] = s2[i]
  <2>1. i + Len(s1) \in 1 .. Len(s1) + Len(s2) /\ ~(i + Len(s1) <= Len(s1))
        /\ i + Len(s1) - Len(s1) = i
    BY <1>2
  <2>2. QED
    BY <1>1, <1>2, <2>1 DEF both
<1>5. \E i \in DOMAIN both : both[i] = x
  BY <1>3, <1>4 DEF Occurs
<1>6. QED
  BY <1>5 DEF both, Occurs

LEMMA EveryGeneratorIsAStage ==
  ASSUME NEW t \in RoleTables, NEW a, IsDirectActive(a), NEW g \in Generators(a)
  PROVE  Occurs(g, StagesOf(t, a))
<1> DEFINE S == Generators(a)
           user == <<SuperAdmin(a), OrgAdmin(a), UserAdmin(a), ManageApp(a), ResetFactors(a),
                     ResetPassword(a)>>
           other == <<UserAdmin(a), SuperAdmin(a), OrgAdmin(a), ResetPassword(a),
                      ResetFactors(a), ManageApp(a)>>
<1>1. FirstStages(a) \in Seq(S) /\ LastStages(a) \in Seq(S) /\ user \in Seq(S) /\ other \in Seq(S)
  BY DEF FirstStages, LastStages, Generators
<1>2. Occurs(g, FirstStages(a)) \/ (Occurs(g, user) /\ Occurs(g, other)) \/ Occurs(g, LastStages(a))
  <2>1. CASE g \in {OrgContains(a), HasRoleAssignment(a), HasRole(a), AppAdmin(a),
                    GroupMembershipAdmin(a), HelpdeskAdmin(a), MobileAdmin(a)}
    BY <2>1 DEF FirstStages, Occurs
  <2>2. CASE g \in {SuperAdmin(a), OrgAdmin(a), UserAdmin(a), ManageApp(a), ResetFactors(a),
                    ResetPassword(a)}
    BY <2>2 DEF Occurs
  <2>3. CASE g \in {ScopedToApps(a), ScopedToGroups(a), ScopedToOrg(a), ReadClientSecret(a),
                    AddMember(a)}
    BY <2>3 DEF LastStages, Occurs
  <2>4. QED
    BY <2>1, <2>2, <2>3 DEF Generators
<1>3. StagesOf(t, a) \in {UserStages(a), OtherStages(a)}
  BY DEF StagesOf, Stages, RoleTables
<1>4. /\ UserStages(a) = FirstStages(a) \o user \o LastStages(a)
      /\ OtherStages(a) = FirstStages(a) \o other \o LastStages(a)
  BY DEF UserStages, OtherStages
<1> HIDE DEF S, user, other
<1>5. FirstStages(a) \o user \in Seq(S) /\ FirstStages(a) \o other \in Seq(S)
  BY <1>1, ConcatProperties
<1>6. /\ Occurs(g, FirstStages(a) \o user) \/ Occurs(g, LastStages(a))
      /\ Occurs(g, FirstStages(a) \o other) \/ Occurs(g, LastStages(a))
  BY <1>1, <1>2, PartsAreKept, Zenon
<1>7. Occurs(g, UserStages(a)) /\ Occurs(g, OtherStages(a))
  BY <1>1, <1>4, <1>5, <1>6, PartsAreKept, Zenon
<1>8. QED
  BY <1>3, <1>7

LEMMA NoGeneratorRaises ==
  ASSUME Whole, NEW a, a.type = "CUSTOM" => TableExists("custom_role_permissions"),
         NEW g \in Generators(a)
  PROVE  ~Raises(g)
<1>1. TableExists("group_memberships")
  BY MembershipsExist
<1>2. ASSUME NEW labels, NEW edges
      PROVE  ~Raises(Custom(a, labels, edges))
  BY <1>1 DEF Custom, Nothing, MembersNeed, Raises
<1>3. ASSUME NEW edges PROVE ~Raises(Yields(edges))
  BY DEF Yields, Raises
<1>4. ~Raises(Nothing)
  BY DEF Nothing, Raises
<1>5. CASE g \in {OrgContains(a), HasRoleAssignment(a), HasRole(a), ScopedToApps(a),
                  ScopedToGroups(a), ScopedToOrg(a)}
  BY <1>3, <1>5 DEF OrgContains, HasRoleAssignment, HasRole, ScopedToApps, ScopedToGroups,
     ScopedToOrg
<1>6. CASE g \in {AppAdmin(a), GroupMembershipAdmin(a), MobileAdmin(a), SuperAdmin(a), OrgAdmin(a)}
  BY <1>3, <1>4, <1>6 DEF AppAdmin, GroupMembershipAdmin, MobileAdmin, SuperAdmin, OrgAdmin,
     YieldsFor
<1>7. CASE g \in {HelpdeskAdmin(a), UserAdmin(a)}
  BY <1>1, <1>7 DEF HelpdeskAdmin, UserAdmin, Nothing, ScopedUsersNeed, Raises
<1>8. CASE g \in {ManageApp(a), ResetFactors(a), ResetPassword(a), AddMember(a)}
  BY <1>2, <1>8 DEF ManageApp, ResetFactors, ResetPassword, AddMember
<1>9. CASE g = ReadClientSecret(a)
  <2>1. CASE a.type = "APP_ADMIN"
    BY <1>3, <1>9, <2>1 DEF ReadClientSecret
  <2>2. CASE a.type \in {"API_ACCESS_MANAGEMENT_ADMIN", "READ_ONLY_ADMIN"}
    BY <1>3, <1>9, <2>2 DEF ReadClientSecret
  <2>3. CASE a.type \notin {"APP_ADMIN", "API_ACCESS_MANAGEMENT_ADMIN", "READ_ONLY_ADMIN"}
    BY <1>2, <1>9, <2>3 DEF ReadClientSecret
  <2>4. QED
    BY <2>1, <2>2, <2>3
<1>10. QED
  BY <1>5, <1>6, <1>7, <1>8, <1>9 DEF Generators

\* An assignment whose generators all run.
Serves(t, a) ==
  /\ Whole /\ t \in RoleTables /\ a \in db[t] /\ IsDirectActive(a)
  /\ a.type = "CUSTOM" => TableExists("custom_role_permissions")

LEMMA GeneratorsRun ==
  ASSUME NEW t, NEW a, Serves(t, a), NEW g \in Generators(a)
  PROVE  g.edges \subseteq EdgesOf(t, a)
<1>1. PICK i \in DOMAIN StagesOf(t, a) : StagesOf(t, a)[i] = g
  BY EveryGeneratorIsAStage DEF Serves, Occurs
<1>2. StagesOf(t, a) \in Seq(Generators(a))
  <2>1. StagesOf(t, a) = Stages(t, a)
    BY DEF Serves, StagesOf, RoleTables
  <2>2. QED
    BY <2>1, StagesAreGenerators
<1>3. \A k \in 1 .. i : ~Raises(StagesOf(t, a)[k])
  <2>1. SUFFICES ASSUME NEW k \in 1 .. i PROVE ~Raises(StagesOf(t, a)[k])
    OBVIOUS
  <2>2. k \in 1 .. Len(StagesOf(t, a))
    BY <1>1, <1>2, LenProperties
  <2>3. StagesOf(t, a)[k] \in Generators(a)
    BY <1>2, <2>2, ElementOfSeq
  <2>4. QED
    BY <2>3, NoGeneratorRaises DEF Serves
<1>4. QED
  BY <1>1, <1>3 DEF EdgesOf

\* The holder has an edge of the kind to the id.
HasEdge(t, a, kind, id) == Edge(kind, Node(a.source), Node(id)) \in EdgesOf(t, a)

LEMMA GeneratorReaches ==
  ASSUME NEW t, NEW a, Serves(t, a), NEW g \in Generators(a), NEW kind, NEW ids,
         g.edges = FromHolder(a, kind, ids), NEW id \in ids
  PROVE  HasEdge(t, a, kind, id)
<1>1. Edge(kind, Node(a.source), Node(id)) \in g.edges
  BY Zenon DEF FromHolder
<1>2. QED
  BY <1>1, GeneratorsRun DEF HasEdge

LEMMA OrgTargetsAreReached ==
  ASSUME NEW t, NEW a, Serves(t, a), NEW kind, NEW id,
         <<kind, id>> \in Okta!OrgTargets(Lasting(history), a.type)
  PROVE  HasEdge(t, a, kind, id)
<1> DEFINE F == Lasting(history)
<1>0. Whole
  BY DEF Serves
<1>1. CASE a.type = "ORG_ADMIN"
  <2>1. /\ OrgAdmin(a) \in Generators(a)
        /\ OrgAdmin(a).edges = FromHolder(a, "ORG_ADMIN",
             AllIds("non_admin_users") \cup AllIds("non_admin_groups") \cup AllIds("devices"))
    BY <1>1 DEF OrgAdmin, Generators, YieldsFor, Yields
  <2>2. kind = "ORG_ADMIN" /\ id \in Okta!PlainUsers(F) \cup Okta!PlainGroups(F) \cup F.devices
    BY <1>1 DEF Okta!OrgTargets
  <2>3. id \in AllIds("non_admin_users") \cup AllIds("non_admin_groups") \cup AllIds("devices")
    BY <1>0, <2>2, PlainAreListed, ThingsAreListed
  <2>4. QED
    BY <2>1, <2>2, <2>3, GeneratorReaches
<1>2. CASE a.type = "MOBILE_ADMIN"
  <2>1. /\ MobileAdmin(a) \in Generators(a)
        /\ MobileAdmin(a).edges = FromHolder(a, "MOBILE_ADMIN", AllIds("devices"))
    BY <1>2 DEF MobileAdmin, Generators, YieldsFor, Yields
  <2>2. kind = "MOBILE_ADMIN" /\ id \in AllIds("devices")
    BY <1>0, <1>2, ThingsAreListed DEF Okta!OrgTargets
  <2>3. QED
    BY <2>1, <2>2, GeneratorReaches
<1>3. CASE a.type = "SUPER_ADMIN"
  <2>1. /\ SuperAdmin(a) \in Generators(a)
        /\ SuperAdmin(a).edges = FromHolder(a, "SUPER_ADMIN", {OrgId})
    BY <1>3 DEF SuperAdmin, Generators, YieldsFor, Yields
  <2>2. kind = "SUPER_ADMIN" /\ id \in {OrgId}
    BY <1>3 DEF Okta!OrgTargets
  <2>3. QED
    BY <2>1, <2>2, GeneratorReaches
<1>4. CASE a.type \in {"API_ACCESS_MANAGEMENT_ADMIN", "READ_ONLY_ADMIN"}
  <2> DEFINE all == UNION {SecretsOf(app) : app \in AllIds("applications")}
  <2>1. /\ ReadClientSecret(a) \in Generators(a)
        /\ ReadClientSecret(a).edges = FromHolder(a, "READ_CLIENT_SECRET", all)
    BY <1>4 DEF ReadClientSecret, Generators, Yields, ReadSecrets
  <2>2. kind = "READ_CLIENT_SECRET" /\ id \in Okta!SecretsOfAny(F, Okta!Ids(F.apps))
    BY <1>4 DEF Okta!OrgTargets
  <2>3. id \in all
    <3>1. Okta!Ids(F.apps) \subseteq AllIds("applications")
      BY <1>0, IdsAreListed
    <3>2. QED
      BY <1>0, <2>2, <3>1, SecretsAreReached
  <2>4. QED
    BY <2>1, <2>2, <2>3, GeneratorReaches
<1>5. CASE a.type \notin {"ORG_ADMIN", "MOBILE_ADMIN", "SUPER_ADMIN",
                          "API_ACCESS_MANAGEMENT_ADMIN", "READ_ONLY_ADMIN"}
  <2>1. Okta!OrgTargets(F, a.type) = {}
    BY <1>5 DEF Okta!OrgTargets
  <2>2. QED
    BY <2>1
<1>6. QED
  BY <1>1, <1>2, <1>3, <1>4, <1>5


\* The scope of an assignment is as its row says.
LEMMA ScopedTargetsAreReached ==
  ASSUME NEW t, NEW a, Serves(t, a), NEW s, ScopeIs(a, s), NEW kind, NEW id,
         <<kind, id>> \in Okta!ScopedTargets(Lasting(history), a.type, s)
  PROVE  HasEdge(t, a, kind, id)
<1> DEFINE F == Lasting(history)
<1>0. /\ Whole
      /\ Okta!PlainUsers(F) \subseteq AllIds("non_admin_users")
      /\ Okta!PlainGroups(F) \subseteq AllIds("non_admin_groups")
      /\ Okta!PlainApps(F) \subseteq AllIds("non_admin_apps")
      /\ Okta!Ids(F.services) \subseteq AllIds("api_services")
  BY PlainAreListed, IdsAreListed DEF Serves
<1>1. CASE a.type = "APP_ADMIN"
  <2>1. a.appScope.fetched /\ a.appScope.targets = s.apps
    BY <1>1 DEF ScopeIs
  <2>2. \/ kind = "APP_ADMIN"
           /\ id \in Okta!ScopeApps(F, s) \cap (Okta!PlainApps(F) \cup Okta!Ids(F.services))
        \/ kind = "READ_CLIENT_SECRET"
           /\ id \in Okta!SecretsOfAny(F, IF s.apps = {} THEN Okta!Ids(F.apps)
                                                          ELSE Okta!ScopeApps(F, s))
    BY <1>1 DEF Okta!ScopedTargets
  <2>3. CASE kind = "APP_ADMIN"
           /\ id \in Okta!ScopeApps(F, s) \cap (Okta!PlainApps(F) \cup Okta!Ids(F.services))
    <3>1. /\ AppAdmin(a) \in Generators(a)
          /\ AppAdmin(a).edges = FromHolder(a, "APP_ADMIN", PermissionAppIds(a))
      BY <1>1 DEF AppAdmin, Generators, YieldsFor, Yields
    <3>2. id \in IF s.apps = {} THEN AllIds("applications") \cup AllIds("api_services")
                                 ELSE ScopedAppIds(a)
      BY <1>0, <2>1, <2>3, ScopeAppsAreListed
    <3>3. id \in PermissionAppIds(a)
      BY <1>0, <2>1, <2>3, <3>2 DEF PermissionAppIds
    <3>4. QED
      BY <2>3, <3>1, <3>3, GeneratorReaches
  <2>4. CASE kind = "READ_CLIENT_SECRET"
           /\ id \in Okta!SecretsOfAny(F, IF s.apps = {} THEN Okta!Ids(F.apps)
                                                          ELSE Okta!ScopeApps(F, s))
    <3> DEFINE apps == IF s.apps = {} THEN Okta!Ids(F.apps) ELSE Okta!ScopeApps(F, s)
               known == IF a.appScope.targets = {} THEN AllIds("applications")
                                                    ELSE ScopedAppIds(a)
               secrets == UNION {SecretsOf(app) : app \in known}
    <3>1. /\ ReadClientSecret(a) \in Generators(a)
          /\ ReadClientSecret(a).edges = FromHolder(a, "READ_CLIENT_SECRET", secrets)
      BY <1>1, <2>1 DEF ReadClientSecret, Generators, Yields, ReadSecrets
    <3>2. apps \subseteq known
      BY <1>0, <2>1, ScopeAppsAreListed, IdsAreListed
    <3>3. apps \subseteq Okta!Ids(F.apps) \cup Okta!Ids(F.services)
      <4>1. \A x : Okta!TargetApps(F, x) \subseteq Okta!Ids(F.apps) \cup Okta!Ids(F.services)
        <5>1. ASSUME NEW x
              PROVE  \/ Okta!TargetApps(F, x) = Okta!AppsNamed(F, x.name)
                     \/ Okta!TargetApps(F, x) = {x.id} \cap Okta!Ids(F.apps)
          BY Zenon DEF Okta!TargetApps
        <5>2. \A name : Okta!AppsNamed(F, name) \subseteq Okta!Ids(F.apps) \cup Okta!Ids(F.services)
          BY DEF Okta!AppsNamed, Okta!Ids
        <5>3. QED
          BY <5>1, <5>2
      <4>2. CASE s.apps = {}
        BY <4>2
      <4>3. CASE s.apps # {}
        <5>1. apps = UNION {Okta!TargetApps(F, x) : x \in {u \in s.apps : u.status = "ACTIVE"}}
          BY <4>3 DEF Okta!ScopeApps
        <5>2. QED
          BY <4>1, <5>1
      <4>4. QED
        BY <4>2, <4>3
    <3>4. id \in secrets
      <4>1. id \in Okta!SecretsOfAny(F, apps)
        BY <2>4
      <4> HIDE DEF apps, known
      <4>2. QED
        BY <1>0, <3>2, <3>3, <4>1, SecretsAreReached
    <3> HIDE DEF secrets
    <3>5. QED
      BY <2>4, <3>1, <3>4, GeneratorReaches
  <2>5. QED
    BY <2>2, <2>3, <2>4
<1>2. ASSUME a.type \in GroupTargetedTypes
      PROVE  /\ Okta!ScopeGroups(F, s) \cap Okta!PlainGroups(F) \subseteq PermissionGroupIds(a)
             /\ Okta!ScopeUsers(F, s) \cap Okta!PlainUsers(F) \subseteq PermissionUserIds(a)
  <2>1. a.groupScope.fetched /\ a.groupScope.targets = s.groups
    BY <1>2 DEF ScopeIs
  <2>2. QED
    BY <1>0, <2>1, ScopeGroupsAreListed DEF PermissionGroupIds, PermissionUserIds
<1>3. CASE a.type = "GROUP_MEMBERSHIP_ADMIN"
  <2>1. /\ GroupMembershipAdmin(a) \in Generators(a)
        /\ GroupMembershipAdmin(a).edges
             = FromHolder(a, "GROUP_MEMBERSHIP_ADMIN", PermissionGroupIds(a))
    BY <1>3 DEF GroupMembershipAdmin, Generators, YieldsFor, Yields
  <2>2. /\ kind = "GROUP_MEMBERSHIP_ADMIN"
        /\ id \in Okta!ScopeGroups(F, s) \cap Okta!PlainGroups(F)
    BY <1>3 DEF Okta!ScopedTargets
  <2>3. id \in PermissionGroupIds(a)
    BY <1>2, <1>3, <2>2 DEF GroupTargetedTypes
  <2>4. QED
    BY <2>1, <2>2, <2>3, GeneratorReaches
<1>4. CASE a.type = "HELP_DESK_ADMIN"
  <2>1. /\ HelpdeskAdmin(a) \in Generators(a)
        /\ HelpdeskAdmin(a).edges = FromHolder(a, "HELPDESK_ADMIN", PermissionUserIds(a))
    BY <1>4 DEF HelpdeskAdmin, Generators
  <2>2. kind = "HELPDESK_ADMIN" /\ id \in Okta!ScopeUsers(F, s) \cap Okta!PlainUsers(F)
    BY <1>4 DEF Okta!ScopedTargets
  <2>3. id \in PermissionUserIds(a)
    BY <1>2, <1>4, <2>2 DEF GroupTargetedTypes
  <2>4. QED
    BY <2>1, <2>2, <2>3, GeneratorReaches
<1>5. CASE a.type = "USER_ADMIN"
  <2>1. /\ UserAdmin(a) \in Generators(a)
        /\ UserAdmin(a).edges
             = FromHolder(a, "GROUP_ADMIN", PermissionGroupIds(a) \cup PermissionUserIds(a))
    BY <1>5 DEF UserAdmin, Generators
  <2>2. /\ kind = "GROUP_ADMIN"
        /\ id \in (Okta!ScopeGroups(F, s) \cap Okta!PlainGroups(F))
                    \cup (Okta!ScopeUsers(F, s) \cap Okta!PlainUsers(F))
    BY <1>5 DEF Okta!ScopedTargets
  <2>3. id \in PermissionGroupIds(a) \cup PermissionUserIds(a)
    BY <1>2, <1>5, <2>2 DEF GroupTargetedTypes
  <2>4. QED
    BY <2>1, <2>2, <2>3, GeneratorReaches
<1>6. CASE a.type \notin {"APP_ADMIN", "GROUP_MEMBERSHIP_ADMIN", "HELP_DESK_ADMIN", "USER_ADMIN"}
  <2>1. Okta!ScopedTargets(F, a.type, s) = {}
    BY <1>6 DEF Okta!ScopedTargets
  <2>2. QED
    BY <2>1
<1>7. QED
  BY <1>1, <1>3, <1>4, <1>5, <1>6

LEMMA PermissionsHaveRoles ==
  ASSUME Whole, NEW p \in Lasting(history).permissions
  PROVE  p.role # None
<1>1. PICK v \in SeenVersions : db["groups"] = ListedRows("groups", v)
  BY ListingsAreWhole
<1>2. v \in Orgs /\ p \in v.permissions
  BY <1>1, FactsLast, VersionsAreSeen DEF Whole, Inv, SeenVersions, ToSet
<1>3. QED
  BY <1>2, OrgsAssumption

\* The labels of a kind of custom edge, and its generator's.
LEMMA CustomRuns ==
  ASSUME NEW t, NEW a, Serves(t, a), a.type = "CUSTOM", NEW labels,
         NEW p \in Lasting(history).permissions, p.role = a.role, p.label \in labels,
         NEW kind, NEW ids, NEW id \in ids,
         Custom(a, labels, FromHolder(a, kind, ids)) \in Generators(a)
  PROVE  HasEdge(t, a, kind, id)
<1>1. a.role # None
  BY PermissionsHaveRoles DEF Serves
<1>2. HasRolePermission(a.role, labels)
  BY PermissionsAreListed DEF Serves, HasRolePermission
<1>3. Custom(a, labels, FromHolder(a, kind, ids)).edges = FromHolder(a, kind, ids)
  BY <1>1, <1>2 DEF Custom
<1>4. QED
  BY <1>3, GeneratorReaches

LEMMA CustomTargetsAreReached ==
  ASSUME NEW t, NEW a, Serves(t, a), a.type = "CUSTOM", NEW kind, NEW id,
         <<kind, id>> \in Okta!CustomTargets(Lasting(history), Okta!Role(a))
  PROVE  HasEdge(t, a, kind, id)
<1> DEFINE F == Lasting(history)
           r == Okta!Role(a)
           labels == [ADD_MEMBER |-> AddMemberPermissions,
                      MANAGE_APP |-> ManageAppPermissions,
                      RESET_FACTORS |-> ResetFactorsPermissions,
                      RESET_PASSWORD |-> ResetPasswordPermissions,
                      READ_CLIENT_SECRET |-> ReadSecretPermissions]
<1>1. /\ Whole
      /\ Okta!PlainUsers(F) \subseteq AllIds("non_admin_users")
      /\ Okta!PlainGroups(F) \subseteq AllIds("non_admin_groups")
      /\ Okta!PlainApps(F) \subseteq AllIds("non_admin_apps")
      /\ Okta!PlainUsers(F) \subseteq AllIds("users")
      /\ Okta!PlainGroups(F) \subseteq AllIds("groups")
      /\ Okta!PlainApps(F) \subseteq AllIds("applications")
      /\ Okta!Ids(F.apps) \subseteq AllIds("applications")
  BY PlainAreListed, IdsAreListed, ThingsAreListed
     DEF Serves, Okta!PlainUsers, Okta!PlainGroups, Okta!PlainApps
<1>2. PICK k \in Okta!CustomKinds(F, r) : <<kind, id>> \in {k} \X Okta!Reach(F, r, k)
  BY Zenon DEF Okta!CustomTargets
<1>3. kind = k /\ id \in Okta!Reach(F, r, kind)
  BY <1>2
<1>4. kind \in DOMAIN labels
  BY <1>2, <1>3 DEF Okta!CustomKinds
<1>5. PICK p \in F.permissions : p.role = r.role /\ p.label \in labels[kind]
  BY <1>2, <1>3, Zenon DEF Okta!CustomKinds
<1>6. p.role = a.role
  BY <1>5 DEF Okta!Role
<1>7. CASE kind = "ADD_MEMBER"
  <2>1. id \in Okta!BoundTo(F, r) /\ id \in Okta!PlainGroups(F)
    BY <1>3, <1>7 DEF Okta!Reach
  <2>2. id \in BoundPlainGroupIds(a)
    BY <1>1, <2>1, BoundIsReached DEF BoundPlainGroupIds
  <2>3. Custom(a, AddMemberPermissions, FromHolder(a, "ADD_MEMBER", BoundPlainGroupIds(a)))
          \in Generators(a)
    BY DEF AddMember, Generators
  <2>4. p.label \in AddMemberPermissions
    BY <1>5, <1>7
  <2>5. QED
    BY <1>6, <1>7, <2>2, <2>3, <2>4, CustomRuns
<1>8. CASE kind = "MANAGE_APP"
  <2>1. id \in Okta!BoundTo(F, r) /\ id \in Okta!PlainApps(F)
    BY <1>3, <1>8 DEF Okta!Reach
  <2>2. id \in BoundPlainApplicationIds(a)
    BY <1>1, <2>1, BoundIsReached DEF BoundPlainApplicationIds, BoundApplicationIds
  <2>3. Custom(a, ManageAppPermissions, FromHolder(a, "MANAGE_APP", BoundPlainApplicationIds(a)))
          \in Generators(a)
    BY DEF ManageApp, Generators
  <2>4. p.label \in ManageAppPermissions
    BY <1>5, <1>8
  <2>5. QED
    BY <1>6, <1>8, <2>2, <2>3, <2>4, CustomRuns
<1>9. CASE kind \in {"RESET_FACTORS", "RESET_PASSWORD"}
  <2>1. id \in Okta!BoundTo(F, r) /\ id \in Okta!PlainUsers(F)
    BY <1>3, <1>9 DEF Okta!Reach
  <2>2. id \in BoundPlainUserIds(a)
    BY <1>1, <2>1, BoundIsReached DEF BoundPlainUserIds
  <2>3. /\ Custom(a, ResetFactorsPermissions,
                  FromHolder(a, "RESET_FACTORS", BoundPlainUserIds(a))) \in Generators(a)
        /\ Custom(a, ResetPasswordPermissions,
                  FromHolder(a, "RESET_PASSWORD", BoundPlainUserIds(a))) \in Generators(a)
    BY DEF ResetFactors, ResetPassword, Generators
  <2>4. CASE kind = "RESET_FACTORS"
    <3>1. p.label \in ResetFactorsPermissions
      BY <1>5, <2>4
    <3>2. QED
      BY <1>6, <2>2, <2>3, <2>4, <3>1, CustomRuns
  <2>5. CASE kind = "RESET_PASSWORD"
    <3>1. p.label \in ResetPasswordPermissions
      BY <1>5, <2>5
    <3>2. QED
      BY <1>6, <2>2, <2>3, <2>5, <3>1, CustomRuns
  <2>6. QED
    BY <1>9, <2>4, <2>5
<1>10. CASE kind = "READ_CLIENT_SECRET"
  <2> DEFINE apps == Okta!BoundTo(F, r) \cap Okta!Ids(F.apps)
             secrets == UNION {SecretsOf(app) : app \in BoundApplicationIds(a)}
  <2>1. id \in Okta!SecretsOfAny(F, apps)
    BY <1>3, <1>10 DEF Okta!Reach
  <2>2. apps \subseteq BoundApplicationIds(a)
    BY <1>1, BoundIsReached DEF BoundApplicationIds
  <2>3. apps \subseteq Okta!Ids(F.apps) \cup Okta!Ids(F.services)
    OBVIOUS
  <2>4. id \in secrets
    <3> HIDE DEF apps
    <3>1. QED
      BY <1>1, <2>1, <2>2, <2>3, SecretsAreReached
  <2>5. ReadClientSecret(a) = Custom(a, ReadSecretPermissions,
                                     FromHolder(a, "READ_CLIENT_SECRET", secrets))
    BY DEF ReadClientSecret, ReadSecrets
  <2>6. ReadClientSecret(a) \in Generators(a)
    BY DEF Generators
  <2>7. p.label \in ReadSecretPermissions
    BY <1>5, <1>10
  <2> HIDE DEF secrets
  <2>8. QED
    BY <1>6, <1>10, <2>4, <2>5, <2>6, <2>7, CustomRuns
<1>11. QED
  BY <1>4, <1>7, <1>8, <1>9, <1>10

\* The kinds of the targets are those of permissions.
LEMMA TargetsArePermissions ==
  ASSUME NEW F, NEW r, NEW y \in Okta!TargetsOf(F, r)
  PROVE  \E kind \in PermissionKinds : \E id : y = <<kind, id>>
<1>1. CASE r.type = "CUSTOM"
  <2>1. y \in Okta!CustomTargets(F, r)
    BY <1>1 DEF Okta!TargetsOf
  <2>2. PICK k \in Okta!CustomKinds(F, r) : y \in {k} \X Okta!Reach(F, r, k)
    BY <2>1, Zenon DEF Okta!CustomTargets
  <2>3. k \in PermissionKinds
    BY DEF Okta!CustomKinds, PermissionKinds
  <2>4. QED
    BY <2>2, <2>3
<1>2. CASE r.type # "CUSTOM"
  <2>1. CASE y \in Okta!OrgTargets(F, r.type)
    BY <2>1 DEF Okta!OrgTargets, PermissionKinds
  <2>2. ASSUME NEW s, y \in Okta!ScopedTargets(F, r.type, s)
        PROVE  \E kind \in PermissionKinds : \E id : y = <<kind, id>>
    BY <2>2 DEF Okta!ScopedTargets, PermissionKinds
  <2>3. Okta!TargetsOf(F, r) =
          Okta!OrgTargets(F, r.type)
            \cup UNION {Okta!ScopedTargets(F, r.type, s) : s \in Okta!ScopesOf(F, r)}
    BY <1>2 DEF Okta!TargetsOf
  <2>4. QED
    BY <2>1, <2>2, <2>3
<1>3. QED
  BY <1>1, <1>2

\* With every table whole, the conversion finds what was always granted.
LEMMA GrantsAreReached ==
  ASSUME Whole, NEW x \in Okta!Grants(Lasting(history))
  PROVE  \E t \in RoleTables : \E a \in db[t] : \E kind \in PermissionKinds : \E id :
           x = <<a.source, <<kind, id>>>> /\ HasEdge(t, a, kind, id)
<1> DEFINE F == Lasting(history)
<1>1. PICK r \in F.roles : x \in {r.source} \X Okta!TargetsOf(F, r)
  BY Zenon DEF Okta!Grants
<1>2. PICK t \in RoleTables : \E a \in db[t] :
        /\ IsDirectActive(a) /\ Okta!Role(a) = r
        /\ \A s \in Okta!ScopesOf(F, r) : ScopeIs(a, s)
  BY <1>1, RolesAreListed, Zenon
<1>3. PICK a \in db[t] :
        /\ IsDirectActive(a) /\ Okta!Role(a) = r
        /\ \A s \in Okta!ScopesOf(F, r) : ScopeIs(a, s)
  BY <1>2
<1>4. PICK y \in Okta!TargetsOf(F, r) : x = <<r.source, y>>
  BY <1>1
<1>5. PICK kind \in PermissionKinds : \E id : y = <<kind, id>>
  BY TargetsArePermissions
<1>6. PICK id : y = <<kind, id>>
  BY <1>5
<1>7. r.source = a.source /\ r.type = a.type
  BY <1>3 DEF Okta!Role
<1>8. HasEdge(t, a, kind, id)
  <2>1. CASE a.type = "CUSTOM"
    <3>1. <<kind, id>> \in Okta!CustomTargets(F, Okta!Role(a))
      BY <1>3, <1>4, <1>6, <1>7, <2>1 DEF Okta!TargetsOf
    <3>2. TableExists("custom_role_permissions")
      <4>1. PICK k \in Okta!CustomKinds(F, r) : TRUE
        BY <1>3, <3>1, Zenon DEF Okta!CustomTargets
      <4>2. PICK p \in F.permissions : TRUE
        BY <4>1, Zenon DEF Okta!CustomKinds
      <4>3. p \in db["custom_role_permissions"]
        BY <4>2, PermissionsAreListed
      <4>4. QED
        BY <4>3 DEF TableExists
    <3>3. Serves(t, a)
      BY <1>2, <1>3, <3>2 DEF Serves
    <3>4. QED
      BY <2>1, <3>1, <3>3, CustomTargetsAreReached
  <2>2. CASE a.type # "CUSTOM"
    <3>1. Serves(t, a)
      BY <1>2, <1>3, <2>2 DEF Serves
    <3>2. y \in Okta!OrgTargets(F, a.type)
            \cup UNION {Okta!ScopedTargets(F, a.type, s) : s \in Okta!ScopesOf(F, r)}
      BY <1>4, <1>7, <2>2 DEF Okta!TargetsOf
    <3>3. CASE y \in Okta!OrgTargets(F, a.type)
      BY <1>6, <3>1, <3>3, OrgTargetsAreReached
    <3>4. CASE y \in UNION {Okta!ScopedTargets(F, a.type, s) : s \in Okta!ScopesOf(F, r)}
      <4>1. PICK s \in Okta!ScopesOf(F, r) : y \in Okta!ScopedTargets(F, a.type, s)
        BY <3>4, Zenon
      <4>2. QED
        BY <1>3, <1>6, <3>1, <4>1, ScopedTargetsAreReached
    <3>5. QED
      BY <3>2, <3>3, <3>4
  <2>3. QED
    BY <2>1, <2>2
<1>9. QED
  BY <1>2, <1>3, <1>4, <1>5, <1>6, <1>7, <1>8

LEMMA ConvertFinds ==
  ASSUME Inv, TellInv, Convert
  PROVE  GrantsAreFound'
<1>1. UNCHANGED <<history, faults, db>>
  BY DEF Convert
<1>2. UNCHANGED SeenVersions
  BY <1>1 DEF SeenVersions
<1>3. SUFFICES ASSUME faults = 0 PROVE Okta!Grants(Lasting(history)) \subseteq Permissions'
  BY <1>1, <1>2 DEF GrantsAreFound, Lasting, SeenVersions
<1>4. Whole
  BY <1>3 DEF Convert, Whole
<1>5. ASSUME NEW x \in Okta!Grants(Lasting(history))
      PROVE  x \in Permissions'
  <2>0. PICK t \in RoleTables : \E a \in db[t] : \E kind \in PermissionKinds : \E id :
          x = <<a.source, <<kind, id>>>> /\ HasEdge(t, a, kind, id)
    BY <1>4, GrantsAreReached, Zenon
  <2>row. PICK a \in db[t] : \E kind \in PermissionKinds : \E id :
          x = <<a.source, <<kind, id>>>> /\ HasEdge(t, a, kind, id)
    BY <2>0
  <2>kind. PICK kind \in PermissionKinds : \E id :
          x = <<a.source, <<kind, id>>>> /\ HasEdge(t, a, kind, id)
    BY <2>row
  <2>1. PICK id :
          x = <<a.source, <<kind, id>>>> /\ HasEdge(t, a, kind, id)
    BY <2>kind
  <2> DEFINE e == Edge(kind, Node(a.source), Node(id))
  <2>2. e \in graph'
    <3>1. <<t, a>> \in RowsToConvert
      <4>1. <<t, a>> \in {t} \X db[t] /\ t \in Converted
        BY <2>1 DEF Converted
      <4>2. QED
        BY <4>1, Zenon DEF RowsToConvert
    <3>2. e \in EdgesOf(<<t, a>>[1], <<t, a>>[2])
      BY <2>1 DEF HasEdge
    <3>3. graph' = UNION {EdgesOf(y[1], y[2]) : y \in RowsToConvert}
      BY DEF Convert
    <3> HIDE DEF e
    <3>4. QED
      BY <3>1, <3>2, <3>3, Zenon
  <2>3. /\ e.kind = kind /\ e.start[1] = a.source /\ e.end[1] = id
    BY DEF Edge, Node
  <2> HIDE DEF e
  <2>4. e \in PermissionEdges'
    BY <2>1, <2>2, <2>3 DEF PermissionEdges
  <2>5. x = <<e.start[1], <<e.kind, e.end[1]>>>>
    BY <2>1, <2>3
  <2>6. QED
    BY <2>4, <2>5, Zenon DEF Permissions
<1>6. QED
  BY <1>5

\* Completeness: every permission that the org grants throughout the collection
\* is in the graph, if no request has failed, for any org and any changes of it.
THEOREM LastingGrantsAreFound == Spec => []GrantsAreFound
<1>1. Init => GrantsAreFound
  BY DEF Init, GrantsAreFound
<1>2. Inv /\ TellInv /\ GrantsAreFound /\ [Next]_vars => GrantsAreFound'
  <2>1. ASSUME UNCHANGED vars, GrantsAreFound
        PROVE  GrantsAreFound'
    <3>1. UNCHANGED <<history, stage, faults, graph>>
      BY <2>1 DEF vars
    <3>2. UNCHANGED <<Permissions, SeenVersions>>
      BY <3>1 DEF Permissions, PermissionEdges, SeenVersions
    <3>3. QED
      BY <2>1, <3>1, <3>2 DEF GrantsAreFound
  <2>2. ASSUME stage' # "done"
        PROVE  GrantsAreFound'
    BY <2>2 DEF GrantsAreFound
  <2>3. [Next]_vars => UNCHANGED vars \/ stage' # "done" \/ Convert
    BY DEF Next, CollectListing, CollectChildren, CollectAssignments, CollectionFails,
       Preprocess, Due, Ended
  <2>4. QED
    BY <2>1, <2>2, <2>3, ConvertFinds
<1>3. QED
  BY <1>1, <1>2, InvHolds, TellHolds, PTL DEF Spec


-----------------------------------------------------------------------------
(* The graph is one that the assets declare: the kinds of the nodes. *)

\* What was known of something held in a version.
LEMMA KnownWasTrue ==
  ASSUME HistoryInv, NEW n \in Okta!FactNames \ Okta!Exclusions, NEW x \in Known(history)[n]
  PROVE  \E v \in Orgs : x \in Okta!Facts(v)[n]
<1>1. x \in Okta!Sometimes(n, ToSet(history))
  BY SometimesIsKnown
<1>2. PICK v \in ToSet(history) : x \in Okta!Facts(v)[n]
  BY <1>1, Zenon DEF Okta!Sometimes
<1>3. v \in Orgs
  BY <1>2, VersionsAreSeen DEF ToSet
<1>4. QED
  BY <1>2, <1>3

LEMMA TablesHaveKinds ==
  ASSUME TablesAreKnown, HistoryInv, SeenInv
  PROVE  \A k \in DOMAIN KindTables : \A u \in KindTables[k] : AllIds(u) \subseteq IdsOfKind[k]
<1>1. ASSUME NEW t \in Stored, NEW r \in db[t]
      PROVE  IsSeen(history, t, r) /\ IsKnown(t, r)
  BY DEF SeenInv, TablesAreKnown
<1>2. {"users", "groups", "applications", "api_services", "devices", "policies",
       "identity_providers", "authorization_servers", "application_secrets",
       "api_service_secrets", "custom_roles"} \subseteq Stored
  BY DEF Stored, Tables
<1>3. {"services", "devices", "secrets"} \subseteq Okta!FactNames \ Okta!Exclusions
  BY DEF Okta!FactNames, Okta!Exclusions
<1>4. /\ AllIds("users") \subseteq UserIds /\ AllIds("groups") \subseteq GroupIds
      /\ AllIds("applications") \subseteq AppIds
  BY IdsOfTables
<1>5. AllIds("api_services") \subseteq IdsOfKind["INTEGRATION"]
  <2>1. ASSUME NEW r \in db["api_services"] PROVE r.id \in IdsOfKind["INTEGRATION"]
    <3>1. r \in Known(history).services
      BY <1>1, <1>2 DEF IsSeen
    <3>2. PICK v \in Orgs : r \in Okta!Facts(v)["services"]
      BY <1>3, <3>1, KnownWasTrue
    <3>3. r \in v.services
      BY <3>2 DEF Okta!Facts
    <3>4. QED
      BY <3>3, IdsAreOfKinds DEF Ids
  <2>2. QED
    BY <2>1 DEF AllIds, GraphId
<1>6. AllIds("devices") \subseteq IdsOfKind["DEVICE"]
  <2>1. ASSUME NEW r \in db["devices"] PROVE DeviceGraphId(r) \in IdsOfKind["DEVICE"]
    <3>1. DeviceGraphId(r) \in Known(history).devices
      BY <1>1, <1>2 DEF IsSeen
    <3>2. PICK v \in Orgs : DeviceGraphId(r) \in Okta!Facts(v)["devices"]
      BY <1>3, <3>1, KnownWasTrue
    <3>3. Okta!Facts(v)["devices"] = {DeviceGraphId(d) : d \in v.devices}
      BY DEF Okta!Facts
    <3>4. PICK d \in v.devices : DeviceGraphId(r) = DeviceGraphId(d)
      BY <3>2, <3>3, Zenon
    <3>5. QED
      BY <3>4, IdsAreOfKinds
  <2>2. QED
    BY <2>1 DEF AllIds, GraphId
<1>7. ASSUME NEW t \in {"application_secrets", "api_service_secrets"}
      PROVE  AllIds(t) \subseteq IdsOfKind["CLIENT_SECRET"]
  <2>1. ASSUME NEW r \in db[t] PROVE r.id \in IdsOfKind["CLIENT_SECRET"]
    <3>1. r \in Known(history).secrets
      BY <1>1, <1>2 DEF IsSeen
    <3>2. PICK v \in Orgs : r \in Okta!Facts(v)["secrets"]
      BY <1>3, <3>1, KnownWasTrue
    <3>3. r \in v.secrets
      BY <3>2 DEF Okta!Facts
    <3>4. QED
      BY <3>3, IdsAreOfKinds DEF Ids
  <2>2. QED
    BY <2>1 DEF AllIds, GraphId
<1>8. /\ AllIds("policies") \subseteq IdsOfKind["POLICY"]
      /\ AllIds("identity_providers") \subseteq IdsOfKind["IDP"]
      /\ AllIds("authorization_servers") \subseteq IdsOfKind["AUTH_SERVER"]
      /\ AllIds("custom_roles") \subseteq IdsOfKind["CUSTOM_ROLE"]
  BY <1>1, <1>2 DEF IsSeen, AllIds, GraphId
<1>9. /\ IdsOfKind["USER"] = UserIds /\ IdsOfKind["GROUP"] = GroupIds
      /\ IdsOfKind["APPLICATION"] = AppIds
  BY DEF IdsOfKind
<1>10. QED
  BY <1>4, <1>5, <1>6, <1>7, <1>8, <1>9 DEF KindTables

LEMMA KindIs ==
  ASSUME NEW node, NEW k \in KindsOf(node)
  PROVE  \/ k \in DOMAIN KindTables /\ Len(node) = 1
              /\ \E t \in KindTables[k] : node[1] \in AllIds(t)
         \/ k = "ORG" /\ node = Node(OrgId)
         \/ k = "ROLE" /\ \E type \in BuiltInRoles : node = BuiltInRoleNode(type)
         \/ k = "ROLE_ASSIGNMENT" /\ node \in AssignmentNodes
         \/ k = "RESOURCE_SET" /\ \E s \in db["resource_sets"] : node = ResourceSetNode(s.id)
<1>1. k \in NodeKinds
  BY DEF KindsOf
<1>2. k \in DOMAIN KindTables \/ k \in {"ORG", "ROLE", "ROLE_ASSIGNMENT", "RESOURCE_SET"}
  BY <1>1 DEF NodeKinds, ResourceKinds, KindTables
<1>3. {"ORG", "ROLE", "ROLE_ASSIGNMENT", "RESOURCE_SET"} \cap DOMAIN KindTables = {}
  BY DEF KindTables
<1>4. CASE k \in DOMAIN KindTables
  BY <1>3, <1>4 DEF KindsOf
<1>5. CASE k = "ORG"
  BY <1>3, <1>5 DEF KindsOf
<1>6. CASE k = "ROLE"
  BY <1>3, <1>6 DEF KindsOf
<1>7. CASE k = "ROLE_ASSIGNMENT"
  BY <1>3, <1>7 DEF KindsOf
<1>8. CASE k = "RESOURCE_SET"
  BY <1>3, <1>8 DEF KindsOf
<1>9. QED
  BY <1>2, <1>4, <1>5, <1>6, <1>7, <1>8

\* The holders of the rows of assignments.
LEMMA HoldersHaveKinds ==
  ASSUME TablesAreKnown, NEW t \in RoleTables, NEW a \in db[t]
  PROVE  /\ a.source \in UserIds \cup GroupIds \cup AppIds
         /\ \E h \in Holders : a.source \in IdsOfKind[h]
<1>1. /\ a.source \in HolderIds[RoleHolder[t]] /\ RoleHolder[t] \in {"user", "group", "client"}
  BY DEF TablesAreKnown, IsKnown, RoleTables, RoleHolder, Stored, Tables
<1>2. /\ HolderIds["user"] = UserIds /\ HolderIds["group"] = GroupIds
      /\ HolderIds["client"] = AppIds
      /\ IdsOfKind["USER"] = UserIds /\ IdsOfKind["GROUP"] = GroupIds
      /\ IdsOfKind["APPLICATION"] = AppIds
  BY DEF HolderIds, IdsOfKind
<1>3. QED
  BY <1>1, <1>2 DEF Holders

LEMMA AssignmentNodesAre ==
  ASSUME TablesAreKnown, NEW node \in AssignmentNodes
  PROVE  \E id : \E source \in UserIds \cup GroupIds \cup AppIds :
           node = AssignmentNode(id, source)
<1>1. PICK t \in RoleTables : node \in {AssignmentNode(a.id, a.source) : a \in db[t]}
  BY Zenon DEF AssignmentNodes
<1>2. PICK a \in db[t] : node = AssignmentNode(a.id, a.source)
  BY <1>1, Zenon
<1>3. QED
  BY <1>2, HoldersHaveKinds

LEMMA DomainIsNoHolder == \A source \in UserIds \cup GroupIds \cup AppIds : source # TenantDomain
BY IdsAssumption

LEMMA KindsOfIds ==
  ASSUME TablesAreKnown, HistoryInv, SeenInv, NEW k \in DOMAIN IdsOfKind, NEW id \in IdsOfKind[k]
  PROVE  KindsOf(Node(id)) \subseteq {k}
<1>1. SUFFICES ASSUME NEW j \in KindsOf(Node(id)) PROVE j = k
  OBVIOUS
<1>2. Node(id) = <<id>> /\ Len(<<id>>) = 1 /\ <<id>>[1] = id
  BY DEF Node
<1>3. \A x, y : <<id>> # <<x, y>>
  OBVIOUS
<1>4. j \in DOMAIN IdsOfKind /\ id \in IdsOfKind[j]
  <2>1. CASE j \in DOMAIN KindTables /\ \E t \in KindTables[j] : Node(id)[1] \in AllIds(t)
    <3>1. id \in IdsOfKind[j]
      BY <1>2, <2>1, TablesHaveKinds
    <3>2. j \in DOMAIN IdsOfKind
      BY <2>1 DEF KindTables, IdsOfKind
    <3>3. QED
      BY <3>1, <3>2
  <2>2. CASE j = "ORG" /\ Node(id) = Node(OrgId)
    <3>1. id = OrgId
      BY <1>2, <2>2 DEF Node
    <3>2. QED
      BY <2>2, <3>1 DEF IdsOfKind
  <2>3. CASE j = "ROLE" /\ \E type \in BuiltInRoles : Node(id) = BuiltInRoleNode(type)
    BY <1>2, <1>3, <2>3 DEF BuiltInRoleNode
  <2>4. CASE j = "ROLE_ASSIGNMENT" /\ Node(id) \in AssignmentNodes
    BY <1>2, <1>3, <2>4, AssignmentNodesAre DEF AssignmentNode
  <2>5. CASE j = "RESOURCE_SET" /\ \E s \in db["resource_sets"] : Node(id) = ResourceSetNode(s.id)
    <3>1. PICK s \in db["resource_sets"] : Node(id) = ResourceSetNode(s.id)
      BY <2>5
    <3>2. ResourceSetNode(s.id) = <<s.id, TenantDomain>> \/ ResourceSetNode(s.id) = <<s.id>>
      BY DEF ResourceSetNode, Node
    <3>3. id = s.id
      BY <1>2, <1>3, <3>1, <3>2
    <3>4. s.id \in IdsOfKind["RESOURCE_SET"]
      BY DEF SeenInv, IsSeen, Stored
    <3>5. QED
      BY <2>5, <3>3, <3>4 DEF IdsOfKind
  <2>6. QED
    BY <2>1, <2>2, <2>3, <2>4, <2>5, KindIs
<1>5. QED
  BY <1>4, IdsAssumption

\* A pair is no node with an id of its own.
LEMMA KindsOfPairs ==
  ASSUME TablesAreKnown, NEW x, NEW y, NEW k \in KindsOf(<<x, y>>)
  PROVE  \/ k = "ROLE" /\ x \in BuiltInRoles /\ y = TenantDomain
         \/ k = "ROLE_ASSIGNMENT" /\ y \in UserIds \cup GroupIds \cup AppIds
         \/ k = "RESOURCE_SET" /\ x = "WORKFLOWS_IAM_POLICY" /\ y = TenantDomain
<1>1. Len(<<x, y>>) = 2 /\ \A z : <<x, y>> # <<z>>
  OBVIOUS
<1>2. CASE k = "ORG" /\ <<x, y>> = Node(OrgId)
  BY <1>1, <1>2 DEF Node
<1>3. CASE k = "ROLE" /\ \E type \in BuiltInRoles : <<x, y>> = BuiltInRoleNode(type)
  BY <1>3 DEF BuiltInRoleNode
<1>4. CASE k = "ROLE_ASSIGNMENT" /\ <<x, y>> \in AssignmentNodes
  <2>1. \E id : \E source \in UserIds \cup GroupIds \cup AppIds :
          <<x, y>> = AssignmentNode(id, source)
    BY <1>4, AssignmentNodesAre
  <2>2. PICK id : \E source \in UserIds \cup GroupIds \cup AppIds :
          <<x, y>> = AssignmentNode(id, source)
    BY <2>1
  <2>3. PICK source \in UserIds \cup GroupIds \cup AppIds : <<x, y>> = AssignmentNode(id, source)
    BY <2>2
  <2>4. QED
    BY <1>4, <2>3 DEF AssignmentNode
<1>5. CASE k = "RESOURCE_SET" /\ \E s \in db["resource_sets"] : <<x, y>> = ResourceSetNode(s.id)
  <2>1. PICK s \in db["resource_sets"] : <<x, y>> = ResourceSetNode(s.id)
    BY <1>5
  <2>2. QED
    BY <1>1, <1>5, <2>1 DEF ResourceSetNode, Node
<1>6. QED
  BY <1>1, <1>2, <1>3, <1>4, <1>5, KindIs

LEMMA KindsOfOthers ==
  ASSUME TablesAreKnown, HistoryInv, SeenInv
  PROVE  /\ \A id : \A source \in UserIds \cup GroupIds \cup AppIds :
              KindsOf(AssignmentNode(id, source)) \subseteq {"ROLE_ASSIGNMENT"}
         /\ \A type \in BuiltInRoles : KindsOf(BuiltInRoleNode(type)) \subseteq {"ROLE"}
         /\ \A set \in IdsOfKind["RESOURCE_SET"] :
              KindsOf(ResourceSetNode(set)) \subseteq {"RESOURCE_SET"}
<1>1. ASSUME NEW id, NEW source \in UserIds \cup GroupIds \cup AppIds,
             NEW k \in KindsOf(AssignmentNode(id, source))
      PROVE  k = "ROLE_ASSIGNMENT"
  BY <1>1, KindsOfPairs, DomainIsNoHolder DEF AssignmentNode
<1>2. "WORKFLOWS_IAM_POLICY" \notin BuiltInRoles
  BY DEF BuiltInRoles
<1>3. ASSUME NEW type \in BuiltInRoles, NEW k \in KindsOf(BuiltInRoleNode(type))
      PROVE  k = "ROLE"
  BY <1>2, <1>3, KindsOfPairs, DomainIsNoHolder DEF BuiltInRoleNode
<1>4. ASSUME NEW set \in IdsOfKind["RESOURCE_SET"], NEW k \in KindsOf(ResourceSetNode(set))
      PROVE  k = "RESOURCE_SET"
  <2>1. CASE ResourceSetNode(set) = <<set, TenantDomain>> /\ set = "WORKFLOWS_IAM_POLICY"
    BY <1>2, <1>4, <2>1, KindsOfPairs, DomainIsNoHolder
  <2>2. CASE ResourceSetNode(set) = Node(set)
    <3>1. "RESOURCE_SET" \in DOMAIN IdsOfKind
      BY DEF IdsOfKind
    <3>2. QED
      BY <1>4, <2>2, <3>1, KindsOfIds
  <2>3. QED
    BY <2>1, <2>2 DEF ResourceSetNode
<1>5. QED
  BY <1>1, <1>3, <1>4


-----------------------------------------------------------------------------
(* The edges of an assignment are declared. *)

\* What is known before the conversion.
Told == TablesAreKnown /\ HistoryInv /\ SeenInv /\ stage = "convert" /\ DerivedInv

Fits(e) ==
  /\ e.kind \in EdgeKinds
  /\ e.kind \notin Undeclared =>
       \A start \in KindsOf(e.start), end \in KindsOf(e.end) :
         <<e.kind, start, end>> \in Declarations

AllFit(edges) == \A e \in edges : Fits(e)

\* The kinds of the targets of each permission.
TargetKinds ==
  [ADD_MEMBER |-> {"GROUP"}, APP_ADMIN |-> {"APPLICATION", "INTEGRATION"},
   GROUP_ADMIN |-> {"GROUP", "USER"}, GROUP_MEMBERSHIP_ADMIN |-> {"GROUP"},
   HELPDESK_ADMIN |-> {"USER"}, MOBILE_ADMIN |-> {"DEVICE"},
   ORG_ADMIN |-> {"USER", "GROUP", "DEVICE"}, SUPER_ADMIN |-> {"ORG"},
   READ_CLIENT_SECRET |-> {"CLIENT_SECRET"}]

LEMMA PermissionsAreDeclared ==
  ASSUME NEW kind \in DOMAIN TargetKinds, NEW holder \in Holders, NEW k \in TargetKinds[kind]
  PROVE  <<kind, holder, k>> \in Declarations
<1>1. CASE kind = "READ_CLIENT_SECRET"
  <2>1. holder \in {"USER", "GROUP", "APPLICATION"} /\ k = "CLIENT_SECRET"
    BY <1>1 DEF Holders, TargetKinds
  <2>2. <<kind, "USER", k>> \in UserAssignmentDefs
    BY <1>1, <2>1 DEF UserAssignmentDefs, UserRoleDefs, Declare
  <2>3. <<kind, "GROUP", k>> \in GroupAssignmentDefs
    BY <1>1, <2>1 DEF GroupAssignmentDefs, SingleHolderDefs, Declare
  <2>4. <<kind, "APPLICATION", k>> \in ClientAssignmentDefs
    BY <1>1, <2>1 DEF ClientAssignmentDefs, SingleHolderDefs, Declare
  <2>5. QED
    BY <2>1, <2>2, <2>3, <2>4 DEF Declarations
<1>2. CASE kind \in {"ADD_MEMBER", "APP_ADMIN", "GROUP_ADMIN"}
  <2>1. <<kind, holder, k>> \in TargetDefs(Holders)
    BY <1>2 DEF TargetDefs, TargetKinds, Declare
  <2>2. QED
    BY <2>1 DEF Declarations, UserAssignmentDefs, UserHeldDefs
<1>3. CASE kind \in {"GROUP_MEMBERSHIP_ADMIN", "HELPDESK_ADMIN", "MOBILE_ADMIN"}
  <2>1. <<kind, holder, k>> \in RoleDefs(Holders)
    BY <1>3 DEF RoleDefs, TargetKinds, Declare
  <2>2. QED
    BY <2>1 DEF Declarations, UserAssignmentDefs, UserRoleDefs
<1>4. CASE kind \in {"ORG_ADMIN", "SUPER_ADMIN"}
  <2>1. <<kind, holder, k>> \in OrgDefs(Holders)
    BY <1>4 DEF OrgDefs, TargetKinds, Declare
  <2>2. QED
    BY <2>1 DEF Declarations, UserAssignmentDefs, UserOrgDefs
<1>5. QED
  BY <1>1, <1>2, <1>3, <1>4 DEF TargetKinds

LEMMA AssignmentsAreDeclared ==
  /\ <<"CONTAINS", "ORG", "ROLE_ASSIGNMENT">> \in Declarations
  /\ \A holder \in Holders :
       /\ <<"HAS_ROLE_ASSIGNMENT", holder, "ROLE_ASSIGNMENT">> \in Declarations
       /\ \A k \in {"ROLE", "CUSTOM_ROLE"} : <<"HAS_ROLE", holder, k>> \in Declarations
<1>1. ASSUME NEW holders
      PROVE  /\ <<"CONTAINS", "ORG", "ROLE_ASSIGNMENT">> \in AssignmentDefs(holders)
             /\ \A holder \in holders :
                  /\ <<"HAS_ROLE_ASSIGNMENT", holder, "ROLE_ASSIGNMENT">>
                       \in AssignmentDefs(holders)
                  /\ \A k \in {"ROLE", "CUSTOM_ROLE"} :
                       <<"HAS_ROLE", holder, k>> \in AssignmentDefs(holders)
  BY DEF AssignmentDefs, Declare
<1>2. /\ AssignmentDefs({"USER", "GROUP"}) \subseteq Declarations
      /\ AssignmentDefs({"APPLICATION"}) \subseteq Declarations
  BY DEF Declarations, UserAssignmentDefs, UserHeldDefs, ClientAssignmentDefs, SingleHolderDefs
<1>3. QED
  BY <1>1, <1>2 DEF Holders

LEMMA ScopesAreDeclared ==
  ASSUME NEW k \in {"GROUP", "ORG", "APPLICATION", "INTEGRATION", "RESOURCE_SET"}
  PROVE  <<"SCOPED_TO", "ROLE_ASSIGNMENT", k>> \in Declarations
<1>1. CASE k = "RESOURCE_SET"
  BY <1>1 DEF Declarations, BindingDefs, Declare
<1>2. CASE k \in {"GROUP", "ORG", "APPLICATION", "INTEGRATION"}
  <2>1. <<"SCOPED_TO", "ROLE_ASSIGNMENT", k>> \in ScopeDefs
    BY <1>2 DEF ScopeDefs, Declare
  <2>2. QED
    BY <2>1 DEF Declarations, UserAssignmentDefs, UserOrgDefs
<1>3. QED
  BY <1>1, <1>2

\* The node of a holder is one.
LEMMA HolderNodes ==
  ASSUME Told, NEW t \in RoleTables, NEW a \in db[t]
  PROVE  KindsOf(Node(a.source)) \subseteq Holders
<1>1. PICK h \in Holders : a.source \in IdsOfKind[h]
  BY HoldersHaveKinds DEF Told
<1>2. h \in DOMAIN IdsOfKind
  BY DEF Holders, IdsOfKind
<1>3. QED
  BY <1>1, <1>2, KindsOfIds DEF Told

LEMMA AssignmentIsANode ==
  ASSUME Told, NEW t \in RoleTables, NEW a \in db[t]
  PROVE  KindsOf(AssignmentNode(a.id, a.source)) \subseteq {"ROLE_ASSIGNMENT"}
BY HoldersHaveKinds, KindsOfOthers DEF Told

IdsOf(kinds) == UNION {IdsOfKind[k] : k \in kinds}

LEMMA NodesOf ==
  ASSUME Told, NEW kinds, kinds \subseteq DOMAIN IdsOfKind, NEW id \in IdsOf(kinds)
  PROVE  KindsOf(Node(id)) \subseteq kinds
<1>1. PICK k \in kinds : id \in IdsOfKind[k]
  BY DEF IdsOf
<1>2. QED
  BY <1>1, KindsOfIds DEF Told

LEMMA PermissionsFit ==
  ASSUME Told, NEW t \in RoleTables, NEW a \in db[t], NEW kind \in DOMAIN TargetKinds,
         NEW ids, ids \subseteq IdsOf(TargetKinds[kind])
  PROVE  AllFit(FromHolder(a, kind, ids))
<1>1. SUFFICES ASSUME NEW e \in FromHolder(a, kind, ids) PROVE Fits(e)
  BY DEF AllFit
<1>2. PICK id \in ids : e = Edge(kind, Node(a.source), Node(id))
  BY <1>1, Zenon DEF FromHolder
<1>3. e.kind = kind /\ e.start = Node(a.source) /\ e.end = Node(id)
  BY <1>2 DEF Edge
<1>4. kind \in EdgeKinds /\ TargetKinds[kind] \subseteq DOMAIN IdsOfKind
  BY DEF TargetKinds, EdgeKinds, PermissionKinds, IdsOfKind
<1>5. KindsOf(Node(id)) \subseteq TargetKinds[kind]
  BY <1>4, NodesOf
<1>6. QED
  BY <1>3, <1>4, <1>5, HolderNodes, PermissionsAreDeclared DEF Fits

LEMMA UndeclaredFit ==
  ASSUME NEW a, NEW kind \in Undeclared, NEW ids
  PROVE  AllFit(FromHolder(a, kind, ids))
<1>1. SUFFICES ASSUME NEW e \in FromHolder(a, kind, ids) PROVE e.kind = kind
  BY DEF AllFit, Fits, Undeclared, EdgeKinds, PermissionKinds
<1>2. PICK id \in ids : e = Edge(kind, Node(a.source), Node(id))
  BY <1>1, Zenon DEF FromHolder
<1>3. QED
  BY <1>2 DEF Edge

LEMMA ScopesFit ==
  ASSUME Told, NEW t \in RoleTables, NEW a \in db[t], NEW ids,
         ids \subseteq IdsOf({"GROUP", "ORG", "APPLICATION", "INTEGRATION"})
  PROVE  AllFit(ScopedTo(a, ids))
<1>1. SUFFICES ASSUME NEW e \in ScopedTo(a, ids) PROVE Fits(e)
  BY DEF AllFit
<1>2. PICK id \in ids : e = Edge("SCOPED_TO", AssignmentNode(a.id, a.source), Node(id))
  BY <1>1, Zenon DEF ScopedTo
<1>3. /\ e.kind = "SCOPED_TO" /\ e.start = AssignmentNode(a.id, a.source)
      /\ e.end = Node(id) /\ "SCOPED_TO" \in EdgeKinds
  BY <1>2 DEF Edge, EdgeKinds
<1>4. {"GROUP", "ORG", "APPLICATION", "INTEGRATION"} \subseteq DOMAIN IdsOfKind
  BY DEF IdsOfKind
<1>5. KindsOf(Node(id)) \subseteq {"GROUP", "ORG", "APPLICATION", "INTEGRATION"}
  BY <1>4, NodesOf
<1>6. QED
  BY <1>3, <1>5, AssignmentIsANode, ScopesAreDeclared DEF Fits


\* What the lookups of a generator find is of their kinds.
LEMMA TablesFit ==
  ASSUME Told
  PROVE  /\ AllIds("users") \subseteq IdsOf({"USER"})
         /\ AllIds("groups") \subseteq IdsOf({"GROUP"})
         /\ AllIds("applications") \subseteq IdsOf({"APPLICATION"})
         /\ AllIds("api_services") \subseteq IdsOf({"INTEGRATION"})
         /\ AllIds("devices") \subseteq IdsOf({"DEVICE"})
         /\ AllIds("non_admin_users") \subseteq IdsOf({"USER"})
         /\ AllIds("non_admin_groups") \subseteq IdsOf({"GROUP"})
         /\ AllIds("non_admin_apps") \subseteq IdsOf({"APPLICATION"})
<1>1. \A k : IdsOf({k}) = IdsOfKind[k]
  BY DEF IdsOf
<1>2. \A k \in DOMAIN KindTables : \A u \in KindTables[k] : AllIds(u) \subseteq IdsOfKind[k]
  BY TablesHaveKinds DEF Told
<1>3. /\ "USER" \in DOMAIN KindTables /\ "users" \in KindTables["USER"]
      /\ "GROUP" \in DOMAIN KindTables /\ "groups" \in KindTables["GROUP"]
      /\ "APPLICATION" \in DOMAIN KindTables /\ "applications" \in KindTables["APPLICATION"]
      /\ "INTEGRATION" \in DOMAIN KindTables /\ "api_services" \in KindTables["INTEGRATION"]
      /\ "DEVICE" \in DOMAIN KindTables /\ "devices" \in KindTables["DEVICE"]
  BY DEF KindTables
<1>4. ASSUME NEW derived, NEW t \in {"users", "groups", "applications"}, NEW type,
             derived \in {"non_admin_users", "non_admin_groups", "non_admin_apps"},
             db[derived] = NonAdmins(t, type)
      PROVE  AllIds(derived) \subseteq AllIds(t)
  <2>1. ASSUME NEW row \in NonAdmins(t, type) PROVE row.id \in AllIds(t)
    <3>1. PICK s \in db[t] :
            row.id = s.id /\ [id |-> s.id, type |-> type] \notin PrincipalsWithAdminRoles
      BY <2>1, NonAdminsAre
    <3>2. GraphId(t, s) = s.id
      BY <1>4 DEF GraphId
    <3>3. QED
      BY <3>1, <3>2 DEF AllIds
  <2>2. QED
    BY <1>4, <2>1 DEF AllIds, GraphId
<1>5. /\ AllIds("non_admin_users") \subseteq AllIds("users")
      /\ AllIds("non_admin_groups") \subseteq AllIds("groups")
      /\ AllIds("non_admin_apps") \subseteq AllIds("applications")
  BY <1>4 DEF Told, DerivedInv
<1>6. QED
  BY <1>1, <1>2, <1>3, <1>5

LEMMA LookupsFit ==
  ASSUME Told
  PROVE  /\ \A groups : GroupUserIds(groups) \subseteq IdsOf({"USER"})
         /\ \A type : AppsAndIntegrationsByType(type) \subseteq IdsOf({"APPLICATION", "INTEGRATION"})
         /\ \A type : PoliciesOfType(type) \subseteq IdsOf({"POLICY"})
         /\ \A app : SecretsOf(app) \subseteq IdsOf({"CLIENT_SECRET"})
<1>1. ASSUME NEW m \in db["group_memberships"] PROVE m.id \in IdsOf({"USER"})
  <2>1. m \in Known(history).members
    BY DEF Told, SeenInv, IsSeen, Stored, Tables
  <2>2. "members" \in Okta!FactNames \ Okta!Exclusions
    BY DEF Okta!FactNames, Okta!Exclusions
  <2>3. PICK v \in Orgs : m \in Okta!Facts(v)["members"]
    BY <2>1, <2>2, KnownWasTrue DEF Told
  <2>4. m \in v.members
    BY <2>3 DEF Okta!Facts
  <2>5. QED
    BY <2>4, IdsAreOfKinds DEF IdsOf
<1>2. \A k \in DOMAIN KindTables : \A u \in KindTables[k] : AllIds(u) \subseteq IdsOfKind[k]
  BY TablesHaveKinds DEF Told
<1>3. /\ "POLICY" \in DOMAIN KindTables /\ "policies" \in KindTables["POLICY"]
      /\ "CLIENT_SECRET" \in DOMAIN KindTables
      /\ "application_secrets" \in KindTables["CLIENT_SECRET"]
      /\ "api_service_secrets" \in KindTables["CLIENT_SECRET"]
  BY DEF KindTables
<1>4. /\ \A r \in db["policies"] : r.id \in IdsOfKind["POLICY"]
      /\ \A r \in db["application_secrets"] \cup db["api_service_secrets"] :
           r.id \in IdsOfKind["CLIENT_SECRET"]
  BY <1>2, <1>3 DEF AllIds, GraphId
<1>5. /\ \A r \in db["applications"] : r.id \in IdsOf({"APPLICATION"})
      /\ \A r \in db["api_services"] : r.id \in IdsOf({"INTEGRATION"})
  BY TablesFit DEF AllIds, GraphId
<1>6. QED
  BY <1>1, <1>4, <1>5 DEF GroupUserIds, AppsAndIntegrationsByType, PoliciesOfType, SecretsOf, IdsOf

LEMMA TargetsFit ==
  ASSUME Told, NEW a
  PROVE  /\ PermissionAppIds(a) \subseteq IdsOf({"APPLICATION", "INTEGRATION"})
         /\ PermissionGroupIds(a) \subseteq IdsOf({"GROUP"})
         /\ PermissionUserIds(a) \subseteq IdsOf({"USER"})
         /\ BoundPlainGroupIds(a) \subseteq IdsOf({"GROUP"})
         /\ ScopedGroupIds(a) \subseteq IdsOf({"GROUP"})
         /\ ScopedAppIds(a) \subseteq IdsOf({"APPLICATION", "INTEGRATION"})
<1>1. PermissionAppIds(a) \subseteq IdsOf({"APPLICATION"}) \cup IdsOf({"INTEGRATION"})
  BY TablesFit DEF PermissionAppIds
<1>2. IdsOf({"APPLICATION"}) \cup IdsOf({"INTEGRATION"}) = IdsOf({"APPLICATION", "INTEGRATION"})
  BY DEF IdsOf
<1>3. PermissionGroupIds(a) \subseteq IdsOf({"GROUP"}) /\ BoundPlainGroupIds(a) \subseteq IdsOf({"GROUP"})
  BY TablesFit DEF PermissionGroupIds, BoundPlainGroupIds
<1>4. PermissionUserIds(a) \subseteq IdsOf({"USER"})
  BY TablesFit DEF PermissionUserIds
<1>5. ScopedGroupIds(a) \subseteq IdsOf({"GROUP"})
  BY TablesFit DEF ScopedGroupIds
<1>6. \A target : TargetApps(target) \subseteq IdsOf({"APPLICATION", "INTEGRATION"})
  <2>1. ASSUME NEW target PROVE TargetApps(target) \subseteq IdsOf({"APPLICATION", "INTEGRATION"})
    <3>1. TargetApps(target) \subseteq AllIds("applications")
            \/ TargetApps(target) = AppsAndIntegrationsByType(target.name)
      BY Zenon DEF TargetApps
    <3>2. QED
      BY <1>2, <3>1, TablesFit, LookupsFit
  <2>2. QED
    BY <2>1
<1>7. ScopedAppIds(a) \subseteq IdsOf({"APPLICATION", "INTEGRATION"})
  BY <1>6 DEF ScopedAppIds
<1>8. QED
  BY <1>1, <1>2, <1>3, <1>4, <1>5, <1>7

\* The role of an assignment is a node of its own or a built-in one.
LEMMA RolesFit ==
  ASSUME Told, NEW t \in RoleTables, NEW a \in db[t]
  PROVE  AllFit(HasRole(a).edges)
<1>1. IsDirectActive(a) /\ Okta!Role(a) \in Known(history).roles
  BY DEF Told, SeenInv, IsSeen, AssignmentIsSeen, RoleTables, Stored, Tables
<1>2. a.type = "CUSTOM" => a.role \in IdsOfKind["CUSTOM_ROLE"]
  <2>1. PICK v \in ToSet(history) : \E b \in Okta!Held(v) : Okta!Role(a) = Okta!Role(b)
    BY <1>1, RoleIsHeld
  <2>2. PICK b \in Okta!Held(v) : Okta!Role(a) = Okta!Role(b)
    BY <2>1
  <2>3. a.type = b.type /\ a.role = b.role /\ b \in v.roles
    BY <2>2 DEF Okta!Role, Okta!Held
  <2>4. v \in Orgs
    BY VersionsAreSeen DEF Told, ToSet
  <2>5. QED
    BY <2>3, <2>4, IdsAreOfKinds
<1>3. DEFINE end == IF a.type = "CUSTOM" THEN Node(a.role) ELSE BuiltInRoleNode(a.type)
<1>4. KindsOf(end) \subseteq {"ROLE", "CUSTOM_ROLE"}
  <2>1. CASE a.type = "CUSTOM"
    <3>1. "CUSTOM_ROLE" \in DOMAIN IdsOfKind
      BY DEF IdsOfKind
    <3>2. QED
      BY <1>2, <2>1, <3>1, KindsOfIds DEF Told
  <2>2. CASE a.type # "CUSTOM"
    <3>1. a.type \in BuiltInRoles
      BY <1>1, <2>2 DEF IsDirectActive, SupportedTypes
    <3>2. QED
      BY <2>2, <3>1, KindsOfOthers DEF Told
  <2>3. QED
    BY <2>1, <2>2
<1>5. HasRole(a).edges = {Edge("HAS_ROLE", Node(a.source), end)}
  BY DEF HasRole, Yields
<1>6. HIDE DEF end
<1>7. Fits(Edge("HAS_ROLE", Node(a.source), end))
  BY <1>4, HolderNodes, AssignmentsAreDeclared DEF Edge, Fits, EdgeKinds
<1>8. QED
  BY <1>5, <1>7 DEF AllFit

LEMMA CustomFits ==
  ASSUME NEW a, NEW permissions, NEW edges, AllFit(edges)
  PROVE  AllFit(Custom(a, permissions, edges).edges)
BY DEF Custom, Nothing, AllFit

LEMMA YieldsFit ==
  ASSUME NEW a, NEW type, NEW edges, AllFit(edges)
  PROVE  AllFit(Yields(edges).edges) /\ AllFit(YieldsFor(a, type, edges).edges)
BY DEF Yields, YieldsFor, Nothing, AllFit

LEMMA LinksFit ==
  ASSUME Told, NEW t \in RoleTables, NEW a \in db[t]
  PROVE  AllFit(OrgContains(a).edges) /\ AllFit(HasRoleAssignment(a).edges)
<1>1. KindsOf(AssignmentNode(a.id, a.source)) \subseteq {"ROLE_ASSIGNMENT"}
  BY AssignmentIsANode
<1>2. KindsOf(Node(OrgId)) \subseteq {"ORG"}
  <2>1. "ORG" \in DOMAIN IdsOfKind /\ OrgId \in IdsOfKind["ORG"]
    BY DEF IdsOfKind
  <2>2. QED
    BY <2>1, KindsOfIds DEF Told
<1>3. /\ OrgContains(a).edges = {Edge("CONTAINS", Node(OrgId), AssignmentNode(a.id, a.source))}
      /\ HasRoleAssignment(a).edges =
           {Edge("HAS_ROLE_ASSIGNMENT", Node(a.source), AssignmentNode(a.id, a.source))}
  BY DEF OrgContains, HasRoleAssignment, Yields
<1>4. /\ Fits(Edge("CONTAINS", Node(OrgId), AssignmentNode(a.id, a.source)))
      /\ Fits(Edge("HAS_ROLE_ASSIGNMENT", Node(a.source), AssignmentNode(a.id, a.source)))
  BY <1>1, <1>2, HolderNodes, AssignmentsAreDeclared DEF Edge, Fits, EdgeKinds
<1>5. QED
  BY <1>3, <1>4 DEF AllFit


LEMMA SecretsFit ==
  ASSUME Told, NEW t \in RoleTables, NEW a \in db[t]
  PROVE  AllFit(ReadClientSecret(a).edges)
<1>1. ASSUME NEW apps PROVE AllFit(ReadSecrets(a, apps))
  <2>1. UNION {SecretsOf(app) : app \in apps} \subseteq IdsOf({"CLIENT_SECRET"})
    BY LookupsFit
  <2>2. /\ "READ_CLIENT_SECRET" \in DOMAIN TargetKinds
        /\ TargetKinds["READ_CLIENT_SECRET"] = {"CLIENT_SECRET"}
    BY DEF TargetKinds
  <2>3. QED
    BY <2>1, <2>2, PermissionsFit DEF ReadSecrets
<1>2. AllFit(Custom(a, ReadSecretPermissions, ReadSecrets(a, BoundApplicationIds(a))).edges)
  BY <1>1, CustomFits
<1>3. AllFit({})
  BY DEF AllFit
<1>4. CASE a.type = "APP_ADMIN"
  <2>1. ReadClientSecret(a).edges = {} \/ \E apps : ReadClientSecret(a).edges = ReadSecrets(a, apps)
    BY <1>4 DEF ReadClientSecret, Yields
  <2>2. QED
    BY <1>1, <1>3, <2>1
<1>5. CASE a.type \in {"API_ACCESS_MANAGEMENT_ADMIN", "READ_ONLY_ADMIN"}
  BY <1>1, <1>5 DEF ReadClientSecret, Yields
<1>6. CASE a.type \notin {"APP_ADMIN", "API_ACCESS_MANAGEMENT_ADMIN", "READ_ONLY_ADMIN"}
  BY <1>2, <1>6 DEF ReadClientSecret
<1>7. QED
  BY <1>4, <1>5, <1>6

LEMMA ScopeEdgesFit ==
  ASSUME Told, NEW t \in RoleTables, NEW a \in db[t]
  PROVE  /\ AllFit(ScopedToApps(a).edges) /\ AllFit(ScopedToGroups(a).edges)
         /\ AllFit(ScopedToOrg(a).edges)
<1>1. /\ IdsOf({"GROUP"}) \subseteq IdsOf({"GROUP", "ORG", "APPLICATION", "INTEGRATION"})
      /\ IdsOf({"APPLICATION", "INTEGRATION"})
           \subseteq IdsOf({"GROUP", "ORG", "APPLICATION", "INTEGRATION"})
      /\ {OrgId} \subseteq IdsOf({"GROUP", "ORG", "APPLICATION", "INTEGRATION"})
  BY DEF IdsOf, IdsOfKind
<1>2. /\ AllFit(ScopedTo(a, ScopedAppIds(a))) /\ AllFit(ScopedTo(a, ScopedGroupIds(a)))
      /\ AllFit(ScopedTo(a, {OrgId}))
  BY <1>1, TargetsFit, ScopesFit
<1>3. AllFit({})
  BY DEF AllFit
<1>4. QED
  BY <1>2, <1>3 DEF ScopedToApps, ScopedToGroups, ScopedToOrg, Yields

LEMMA GeneratorsFit ==
  ASSUME Told, NEW t \in RoleTables, NEW a \in db[t], NEW g \in Generators(a)
  PROVE  AllFit(g.edges)
<1>1. /\ AllFit(OrgContains(a).edges) /\ AllFit(HasRoleAssignment(a).edges)
      /\ AllFit(HasRole(a).edges) /\ AllFit(ReadClientSecret(a).edges)
      /\ AllFit(ScopedToApps(a).edges) /\ AllFit(ScopedToGroups(a).edges)
      /\ AllFit(ScopedToOrg(a).edges)
  BY LinksFit, RolesFit, SecretsFit, ScopeEdgesFit
<1>2. /\ TargetKinds["ADD_MEMBER"] = {"GROUP"}
      /\ TargetKinds["APP_ADMIN"] = {"APPLICATION", "INTEGRATION"}
      /\ TargetKinds["GROUP_ADMIN"] = {"GROUP", "USER"}
      /\ TargetKinds["GROUP_MEMBERSHIP_ADMIN"] = {"GROUP"}
      /\ TargetKinds["HELPDESK_ADMIN"] = {"USER"} /\ TargetKinds["MOBILE_ADMIN"] = {"DEVICE"}
      /\ TargetKinds["ORG_ADMIN"] = {"USER", "GROUP", "DEVICE"}
      /\ TargetKinds["SUPER_ADMIN"] = {"ORG"}
      /\ {"ADD_MEMBER", "APP_ADMIN", "GROUP_ADMIN", "GROUP_MEMBERSHIP_ADMIN", "HELPDESK_ADMIN",
          "MOBILE_ADMIN", "ORG_ADMIN", "SUPER_ADMIN"} \subseteq DOMAIN TargetKinds
  BY DEF TargetKinds
<1>3. AllFit(AppAdmin(a).edges) /\ AllFit(GroupMembershipAdmin(a).edges)
  <2>1. /\ AllFit(FromHolder(a, "APP_ADMIN", PermissionAppIds(a)))
        /\ AllFit(FromHolder(a, "GROUP_MEMBERSHIP_ADMIN", PermissionGroupIds(a)))
    BY <1>2, TargetsFit, PermissionsFit
  <2>2. QED
    BY <2>1, YieldsFit DEF AppAdmin, GroupMembershipAdmin
<1>4. /\ AllFit(MobileAdmin(a).edges) /\ AllFit(SuperAdmin(a).edges)
      /\ AllFit(OrgAdmin(a).edges)
  <2>1. OrgId \in IdsOf({"ORG"})
    BY DEF IdsOf, IdsOfKind
  <2>2. IdsOf({"USER"}) \cup IdsOf({"GROUP"}) \cup IdsOf({"DEVICE"})
          = IdsOf({"USER", "GROUP", "DEVICE"})
    BY DEF IdsOf
  <2>3. AllIds("non_admin_users") \cup AllIds("non_admin_groups") \cup AllIds("devices")
          \subseteq IdsOf({"USER", "GROUP", "DEVICE"})
    BY <2>2, TablesFit
  <2>4. /\ AllFit(FromHolder(a, "MOBILE_ADMIN", AllIds("devices")))
        /\ AllFit(FromHolder(a, "SUPER_ADMIN", {OrgId}))
        /\ AllFit(FromHolder(a, "ORG_ADMIN", AllIds("non_admin_users")
                                               \cup AllIds("non_admin_groups")
                                               \cup AllIds("devices")))
    BY <1>2, <2>1, <2>3, TablesFit, PermissionsFit
  <2>5. QED
    BY <2>4, YieldsFit DEF MobileAdmin, SuperAdmin, OrgAdmin
<1>5. AllFit(HelpdeskAdmin(a).edges) /\ AllFit(UserAdmin(a).edges)
  <2>1. IdsOf({"GROUP"}) \cup IdsOf({"USER"}) = IdsOf({"GROUP", "USER"})
    BY DEF IdsOf
  <2>2. /\ AllFit(FromHolder(a, "HELPDESK_ADMIN", PermissionUserIds(a)))
        /\ AllFit(FromHolder(a, "GROUP_ADMIN", PermissionGroupIds(a) \cup PermissionUserIds(a)))
    BY <1>2, <2>1, TargetsFit, PermissionsFit
  <2>3. AllFit({})
    BY DEF AllFit
  <2>4. QED
    BY <2>2, <2>3 DEF HelpdeskAdmin, UserAdmin, Nothing
<1>6. /\ AllFit(ManageApp(a).edges) /\ AllFit(ResetFactors(a).edges)
      /\ AllFit(ResetPassword(a).edges)
  <2>1. \A kind \in {"MANAGE_APP", "RESET_FACTORS", "RESET_PASSWORD"} : \A ids :
          AllFit(FromHolder(a, kind, ids))
    BY UndeclaredFit DEF Undeclared
  <2>2. QED
    BY <2>1, CustomFits DEF ManageApp, ResetFactors, ResetPassword
<1>7. AllFit(AddMember(a).edges)
  <2>1. AllFit(FromHolder(a, "ADD_MEMBER", BoundPlainGroupIds(a)))
    BY <1>2, TargetsFit, PermissionsFit
  <2>2. QED
    BY <2>1, CustomFits DEF AddMember
<1>8. QED
  BY <1>1, <1>3, <1>4, <1>5, <1>6, <1>7 DEF Generators

LEMMA AssignmentsFit ==
  ASSUME Told, NEW t \in RoleTables, NEW a \in db[t]
  PROVE  AllFit(EdgesOf(t, a))
<1>1. SUFFICES ASSUME NEW e \in EdgesOf(t, a) PROVE Fits(e)
  BY DEF AllFit
<1>2. StagesOf(t, a) = Stages(t, a)
  BY DEF StagesOf, RoleTables
<1>3. PICK i \in DOMAIN Stages(t, a) : e \in Stages(t, a)[i].edges
  BY <1>1, <1>2 DEF EdgesOf
<1>4. Stages(t, a)[i] \in Generators(a)
  BY <1>3, StagesAreGenerators, LenProperties, ElementOfSeq
<1>5. QED
  BY <1>3, <1>4, GeneratorsFit DEF AllFit

-----------------------------------------------------------------------------
(* So are those of resources and of bindings. *)

ResourceIds == IdsOf(ResourceKinds)
ResourceTables ==
  {"users", "groups", "applications", "api_services", "devices", "authorization_servers",
   "identity_providers", "policies"}

LEMMA ResourceTablesFit ==
  ASSUME Told, NEW t \in ResourceTables
  PROVE  AllIds(t) \subseteq ResourceIds
<1>1. PICK k \in ResourceKinds : k \in DOMAIN KindTables /\ t \in KindTables[k]
  BY DEF ResourceTables, ResourceKinds, KindTables
<1>2. AllIds(t) \subseteq IdsOfKind[k]
  BY <1>1, TablesHaveKinds DEF Told
<1>3. QED
  BY <1>1, <1>2 DEF ResourceIds, IdsOf

LEMMA FoundFit ==
  ASSUME Told
  PROVE  /\ \A groups : GroupUserIds(groups) \subseteq ResourceIds
         /\ \A type : AppsAndIntegrationsByType(type) \subseteq ResourceIds
         /\ \A type : PoliciesOfType(type) \subseteq ResourceIds
         /\ \A tables \in SUBSET ResourceTables :
              /\ UNION {AllIds(t) : t \in tables} \subseteq ResourceIds
              /\ \A id : UNION {ExistingIds(t, id) : t \in tables} \subseteq ResourceIds
<1>1. /\ IdsOf({"USER"}) \subseteq ResourceIds /\ IdsOf({"POLICY"}) \subseteq ResourceIds
      /\ IdsOf({"APPLICATION", "INTEGRATION"}) \subseteq ResourceIds
  BY DEF IdsOf, ResourceIds, ResourceKinds
<1>2. ASSUME NEW t \in ResourceTables
      PROVE  AllIds(t) \subseteq ResourceIds /\ \A id : ExistingIds(t, id) \subseteq ResourceIds
  BY ResourceTablesFit, ExistingIsOne
<1>3. QED
  BY <1>1, <1>2, LookupsFit

LEMMA UrlsFit ==
  ASSUME Told, NEW url
  PROVE  ResolveUrl(url) \subseteq ResourceIds
<1>1. DEFINE tables == IF url.path[1] \in DOMAIN UrlTables THEN UrlTables[url.path[1]] ELSE {}
<1>2. tables \in SUBSET ResourceTables
  BY DEF UrlTables, ResourceTables
<1>3. \/ \E groups : ResolveUrl(url) = GroupUserIds(groups)
      \/ \E type : ResolveUrl(url) = AppsAndIntegrationsByType(type)
      \/ \E type : ResolveUrl(url) = PoliciesOfType(type)
      \/ ResolveUrl(url) = {}
      \/ ResolveUrl(url) = UNION {AllIds(t) : t \in tables}
      \/ \E id : ResolveUrl(url) = UNION {ExistingIds(t, id) : t \in tables}
  BY Zenon DEF ResolveUrl
<1>4. HIDE DEF tables
<1>5. QED
  BY <1>2, <1>3, FoundFit

LEMMA OrnsFit ==
  ASSUME Told, NEW orn
  PROVE  ResolveOrn(orn) \subseteq ResourceIds
<1>1. \A k \in DOMAIN OrnTables : OrnTables[k] \in SUBSET ResourceTables
  BY DEF OrnTables, ResourceTables
<1>2. \A k \in DOMAIN OrnOrder : OrnOrder[k] \in DOMAIN OrnTables
  BY DEF OrnOrder, OrnTables
<1>3. TablesNamed(orn) \in SUBSET ResourceTables
  BY <1>1, <1>2 DEF TablesNamed, FirstNamed, Named
<1>4. \/ ResolveOrn(orn) = {}
      \/ \E groups : ResolveOrn(orn) = GroupUserIds(groups)
      \/ \E type : ResolveOrn(orn) = AppsAndIntegrationsByType(type)
      \/ \E type : ResolveOrn(orn) = PoliciesOfType(type)
      \/ \E k \in DOMAIN OrnTables : ResolveOrn(orn) = UNION {AllIds(t) : t \in OrnTables[k]}
      \/ \E id : ResolveOrn(orn) = UNION {ExistingIds(t, id) : t \in TablesNamed(orn)}
  BY Zenon DEF ResolveOrn
<1>5. QED
  BY <1>1, <1>3, <1>4, FoundFit

LEMMA ResolvedFit ==
  ASSUME Told, NEW r
  PROVE  Resolve(r) \subseteq ResourceIds
BY UrlsFit, OrnsFit DEF Resolve


LEMMA SetNodes ==
  ASSUME Told, NEW t \in {"resources", "resource_set_role_assignments"}, NEW r \in db[t]
  PROVE  KindsOf(ResourceSetNode(r.set)) \subseteq {"RESOURCE_SET"}
<1>1. r.set \in IdsOfKind["RESOURCE_SET"]
  <2>1. {"resources", "bindings"} \subseteq Okta!FactNames \ Okta!Exclusions
    BY DEF Okta!FactNames, Okta!Exclusions
  <2>2. CASE t = "resources"
    <3>1. r \in Known(history).resources
      BY <2>2 DEF Told, SeenInv, IsSeen, Stored, Tables
    <3>2. PICK v \in Orgs : r \in Okta!Facts(v)["resources"]
      BY <2>1, <3>1, KnownWasTrue DEF Told
    <3>3. QED
      BY <3>2, IdsAreOfKinds DEF Okta!Facts
  <2>3. CASE t = "resource_set_role_assignments"
    <3>1. r \in Known(history).bindings
      BY <2>3 DEF Told, SeenInv, IsSeen, Stored, Tables
    <3>2. PICK v \in Orgs : r \in Okta!Facts(v)["bindings"]
      BY <2>1, <3>1, KnownWasTrue DEF Told
    <3>3. QED
      BY <3>2, IdsAreOfKinds DEF Okta!Facts
  <2>4. QED
    BY <2>2, <2>3
<1>2. QED
  BY <1>1, KindsOfOthers DEF Told

LEMMA MemberKindsAreDeclared ==
  /\ \A k \in ResourceKinds : <<"RESOURCE_SET_CONTAINS", "RESOURCE_SET", k>> \in Declarations
  /\ <<"RESOURCE_SET_CONTAINS_MEMBERS_OF", "RESOURCE_SET", "GROUP">> \in Declarations
  /\ <<"RESOURCE_SET_CONTAINS_INDIRECT", "RESOURCE_SET", "USER">> \in Declarations
BY DEF Declarations, ResourceDefs, Declare

LEMMA ContainmentFits ==
  ASSUME Told, NEW r \in db["resources"], NEW kinds, kinds \subseteq DOMAIN IdsOfKind,
         NEW kind \in {"RESOURCE_SET_CONTAINS", "RESOURCE_SET_CONTAINS_MEMBERS_OF",
                       "RESOURCE_SET_CONTAINS_INDIRECT"},
         NEW id \in IdsOf(kinds),
         \A k \in kinds : <<kind, "RESOURCE_SET", k>> \in Declarations
  PROVE  Fits(Edge(kind, ResourceSetNode(r.set), Node(id)))
<1>1. KindsOf(ResourceSetNode(r.set)) \subseteq {"RESOURCE_SET"}
  BY SetNodes
<1>2. KindsOf(Node(id)) \subseteq kinds
  BY NodesOf
<1>3. kind \in EdgeKinds
  BY DEF EdgeKinds
<1>4. QED
  BY <1>1, <1>2, <1>3 DEF Edge, Fits

LEMMA ResourcesFit ==
  ASSUME Told, NEW r \in db["resources"]
  PROVE  AllFit(EdgesOf("resources", r))
<1>1. SUFFICES ASSUME NEW e \in EdgesOf("resources", r) PROVE Fits(e)
  BY DEF AllFit
<1>2. DEFINE group == ResourceMemberGroupId(r.url, r.orn)
             set == ResourceSetNode(r.set)
             members == {Edge("RESOURCE_SET_CONTAINS", set, Node(id)) : id \in Resolve(r)}
             marker == {Edge("RESOURCE_SET_CONTAINS_MEMBERS_OF", set, Node(g)) :
                          g \in {group} \cap AllIds("groups")}
             indirect == {Edge("RESOURCE_SET_CONTAINS_INDIRECT", set, Node(u)) :
                            u \in GroupUserIds({group})}
<1>3. e \in members \/ e \in marker \/ e \in indirect
  <2>1. StagesOf("resources", r) = ResourceStages(r)
    BY DEF StagesOf, RoleTables
  <2>2. \/ ResourceStages(r) = <<Yields(members)>>
        \/ ResourceStages(r) =
             <<Yields(marker), [needs |-> {"group_memberships"}, edges |-> indirect]>>
    BY Zenon DEF ResourceStages
  <2>3. PICK i \in DOMAIN ResourceStages(r) : e \in ResourceStages(r)[i].edges
    BY <1>1, <2>1 DEF EdgesOf
  <2>4. HIDE DEF members, marker, indirect
  <2>5. QED
    BY <2>2, <2>3 DEF Yields
<1>4. /\ ResourceKinds \subseteq DOMAIN IdsOfKind
      /\ {"GROUP"} \subseteq DOMAIN IdsOfKind /\ {"USER"} \subseteq DOMAIN IdsOfKind
  BY DEF ResourceKinds, IdsOfKind
<1>5. ASSUME e \in members PROVE Fits(e)
  <2>1. PICK id \in Resolve(r) : e = Edge("RESOURCE_SET_CONTAINS", set, Node(id))
    BY <1>5, Zenon
  <2>2. id \in IdsOf(ResourceKinds)
    BY <2>1, ResolvedFit DEF ResourceIds
  <2>3. QED
    BY <1>4, <2>1, <2>2, ContainmentFits, MemberKindsAreDeclared
<1>6. ASSUME e \in marker PROVE Fits(e)
  <2>1. PICK g \in {group} \cap AllIds("groups") :
          e = Edge("RESOURCE_SET_CONTAINS_MEMBERS_OF", set, Node(g))
    BY <1>6, Zenon
  <2>2. g \in IdsOf({"GROUP"})
    BY <2>1, TablesFit
  <2>3. QED
    BY <1>4, <2>1, <2>2, ContainmentFits, MemberKindsAreDeclared
<1>7. ASSUME e \in indirect PROVE Fits(e)
  <2>1. PICK u \in GroupUserIds({group}) :
          e = Edge("RESOURCE_SET_CONTAINS_INDIRECT", set, Node(u))
    BY <1>7, Zenon
  <2>2. u \in IdsOf({"USER"})
    BY <2>1, LookupsFit
  <2>3. QED
    BY <1>4, <2>1, <2>2, ContainmentFits, MemberKindsAreDeclared
<1>8. QED
  BY <1>3, <1>5, <1>6, <1>7

LEMMA BindingsFit ==
  ASSUME Told, NEW b \in db["resource_set_role_assignments"]
  PROVE  AllFit(EdgesOf("resource_set_role_assignments", b))
<1>1. SUFFICES ASSUME NEW e \in EdgesOf("resource_set_role_assignments", b) PROVE Fits(e)
  BY DEF AllFit
<1>2. StagesOf("resource_set_role_assignments", b) = BindingStages(b)
  BY DEF StagesOf, RoleTables
<1>3. /\ RoleAssignmentExists(b.id, b.assignee)
      /\ e = Edge("SCOPED_TO", AssignmentNode(b.id, b.assignee), ResourceSetNode(b.set))
  <2>1. PICK i \in DOMAIN BindingStages(b) : e \in BindingStages(b)[i].edges
    BY <1>1, <1>2 DEF EdgesOf
  <2>2. QED
    BY <2>1 DEF BindingStages, Yields
<1>4. PICK t \in RoleTables : \E a \in db[t] : a.id = b.id /\ a.source = b.assignee
  BY <1>3 DEF RoleAssignmentExists
<1>5. PICK a \in db[t] : a.id = b.id /\ a.source = b.assignee
  BY <1>4
<1>6. KindsOf(AssignmentNode(b.id, b.assignee)) \subseteq {"ROLE_ASSIGNMENT"}
  BY <1>5, AssignmentIsANode
<1>7. KindsOf(ResourceSetNode(b.set)) \subseteq {"RESOURCE_SET"}
  BY SetNodes
<1>8. QED
  BY <1>3, <1>6, <1>7, ScopesAreDeclared DEF Edge, Fits, EdgeKinds

LEMMA ConvertFits ==
  ASSUME Inv, TellInv, Convert
  PROVE  (\A e \in graph : e.kind \in EdgeKinds)' /\ EdgesAreDeclared'
<1>1. Told
  BY DEF Told, Inv, TellInv, Convert
<1>2. AllFit(graph')
  <2>1. SUFFICES ASSUME NEW e \in graph' PROVE Fits(e)
    BY DEF AllFit
  <2>2. PICK x \in RowsToConvert : e \in EdgesOf(x[1], x[2])
    BY <2>1 DEF Convert
  <2>3. PICK t \in Converted : x \in {t} \X db[t]
    BY <2>2 DEF RowsToConvert
  <2>4. x[1] = t /\ x[2] \in db[t]
    BY <2>3
  <2>5. AllFit(EdgesOf(t, x[2]))
    BY <1>1, <2>4, AssignmentsFit, ResourcesFit, BindingsFit DEF Converted
  <2>6. QED
    BY <2>2, <2>4, <2>5 DEF AllFit
<1>3. \A node : KindsOf(node)' = KindsOf(node)
  <2>1. db' = db
    BY DEF Convert
  <2>2. \A t : AllIds(t)' = AllIds(t)
    BY <2>1 DEF AllIds
  <2>3. AssignmentNodes' = AssignmentNodes
    BY <2>1 DEF AssignmentNodes
  <2>4. QED
    BY <2>1, <2>2, <2>3 DEF KindsOf
<1>4. QED
  BY <1>2, <1>3 DEF AllFit, Fits, EdgesAreDeclared

-----------------------------------------------------------------------------

\* The bounds of a run, and what it can lose.
BoundInv == faults <= MaxFaults /\ lost \subseteq ToSet(Order)

LEMMA BoundStep == StageInv /\ BoundInv /\ [Next]_vars => BoundInv'
<1>1. SUFFICES ASSUME StageInv, BoundInv, [Next]_vars PROVE BoundInv'
  OBVIOUS
<1>2. ASSUME NEW t \in ToSet(Order), NEW rows, Partial(t, rows) PROVE BoundInv'
  BY <1>1, <1>2, BoundAssumption DEF Partial, BoundInv, StageInv
<1>3. ASSUME UNCHANGED <<faults, lost>> PROVE BoundInv'
  BY <1>1, <1>3 DEF BoundInv
<1>4. ASSUME NEW t \in ToSet(Order), CollectListing(t) PROVE BoundInv'
  BY <1>2, <1>3, <1>4 DEF CollectListing
<1>5. ASSUME NEW t \in ToSet(Order), CollectChildren(t) PROVE BoundInv'
  BY <1>2, <1>3, <1>5 DEF CollectChildren, Collected
<1>6. ASSUME NEW t \in ToSet(Order), CollectAssignments(t) PROVE BoundInv'
  <2>1. CASE \E rows : Partial(t, rows)
    BY <1>2, <2>1
  <2>2. CASE faults' <= MaxFaults /\ UNCHANGED lost
    BY <1>1, <2>2 DEF BoundInv
  <2>3. QED
    BY <1>6, <2>1, <2>2 DEF CollectAssignments
<1>7. CASE CollectionFails
  BY <1>1, <1>7, BoundAssumption DEF CollectionFails, BoundInv, StageInv
<1>8. CASE Preprocess \/ Convert \/ Ended \/ UNCHANGED vars
  BY <1>3, <1>8 DEF Preprocess, Convert, Ended, vars
<1>9. Listings \cup DOMAIN Parent \cup RoleTables \subseteq ToSet(Order)
  BY Positions DEF Listings, ToSet, Parent, RoleTables
<1>10. QED
  BY <1>1, <1>4, <1>5, <1>6, <1>7, <1>8, <1>9 DEF Next

\* "Keep EdgeDef(...) declarations aligned with the asset class that actually
\* emits those edges" (.agents/standards/openhound.md): whatever of any org is
\* collected and lost, an edge of a declared kind joins nodes of kinds that an
\* asset declares for it; and the state is typed.
THEOREM GraphsAreWellFormed == Spec => []GraphIsWellFormed
<1>1. DEFINE Kinded == (\A e \in graph : e.kind \in EdgeKinds) /\ EdgesAreDeclared
<1>2. Init => BoundInv /\ Kinded
  BY BoundAssumption DEF Init, BoundInv, EdgesAreDeclared
<1>3. Inv /\ TellInv /\ BoundInv /\ Kinded /\ [Next]_vars => BoundInv' /\ Kinded'
  <2>1. SUFFICES ASSUME Inv, TellInv, BoundInv, Kinded, [Next]_vars PROVE BoundInv' /\ Kinded'
    OBVIOUS
  <2>2. BoundInv'
    BY <2>1, BoundStep DEF TellInv
  <2>3. CASE graph = {} /\ UNCHANGED graph
    BY <2>2, <2>3 DEF EdgesAreDeclared
  <2>4. CASE UNCHANGED <<graph, db>>
    <3>1. \A node : KindsOf(node)' = KindsOf(node)
      <4>1. \A t : AllIds(t)' = AllIds(t)
        BY <2>4 DEF AllIds
      <4>2. AssignmentNodes' = AssignmentNodes
        BY <2>4 DEF AssignmentNodes
      <4>3. QED
        BY <2>4, <4>1, <4>2 DEF KindsOf
    <3>2. QED
      BY <2>1, <2>2, <2>4, <3>1 DEF EdgesAreDeclared
  <2>5. stage = "collect" => graph = {}
    BY <2>1 DEF Inv, GraphInv
  <2>6. \/ stage = "collect" /\ UNCHANGED graph
        \/ UNCHANGED <<graph, db>>
        \/ Convert
    BY <2>1 DEF Next, CollectListing, CollectChildren, CollectAssignments, Due,
       CollectionFails, Preprocess, Ended, vars
  <2>7. QED
    BY <2>1, <2>2, <2>3, <2>4, <2>5, <2>6, ConvertFits
<1>4. Inv /\ TellInv /\ BoundInv /\ Kinded => GraphIsWellFormed
  BY BoundAssumption DEF Inv, TellInv, TablesAreKnown, StageInv, BoundInv, GraphIsWellFormed,
     TypeOK
<1>5. QED
  <2>1. Init /\ [][Next]_vars => [](Inv /\ TellInv)
    BY InvHolds, TellHolds, PTL DEF Spec
  <2>2. QED
    BY <1>2, <1>3, <1>4, <2>1, PTL DEF Spec
=============================================================================
