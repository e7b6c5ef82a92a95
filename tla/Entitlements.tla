---------------------------- MODULE Entitlements ----------------------------
(***************************************************************************)
(* What the roles of an org entitle their holders to, in Okta's own terms:  *)
(* the abstract specification that Pipeline is held against.  It knows      *)
(* nothing of tables, lookups, URLs or transforms.  Facts(org) are those of *)
(* one version; as the definitions below are monotone in the facts, those   *)
(* that hold in some version, and those that hold in all of them, bound     *)
(* what a collection that reads several versions may find: also that        *)
(* somebody is no administrator is a fact that may hold at some time.       *)
(***************************************************************************)
EXTENDS GraphKinds, FiniteSets

CONSTANTS
  SupportedRoles,    \* the role types that count
  Labels,            \* the permissions that entitle to each edge of a custom role
  OrgNode,           \* the org as a target
  GraphIdOf(_)       \* the id of a device

Ids(things) == {x.id : x \in things}

IsHeld(a) ==
  /\ a.status = "ACTIVE" /\ a.type \in SupportedRoles
  /\ <<a.from, a.assignmentType>>
       \in {<<"user", "USER">>, <<"group", "GROUP">>, <<"client", "CLIENT">>}

Held(org) == {a \in org.roles : IsHeld(a)}
HeldBy(org, from) == {a.source : a \in {b \in Held(org) : b.from = from}}

\* Users who hold a role, be it as members of a group.
AdminUsers(org) ==
  {a.source : a \in {b \in org.roles : b.from = "user"}}
    \cup {m.id : m \in {n \in org.members :
                          \E a \in org.roles : a.from = "group" /\ a.source = n.group}}

\* An assignment, and what it is limited to, which Okta tells separately.
Role(a) == [id |-> a.id, from |-> a.from, source |-> a.source, type |-> a.type,
            role |-> a.role]
Scope(a) == [id |-> a.id, source |-> a.source, apps |-> a.appTargets,
             groups |-> a.groupTargets]

Facts(org) ==
  [roles |-> {Role(a) : a \in Held(org)}, scopes |-> {Scope(a) : a \in org.roles},
   users |-> org.users, groups |-> org.groups,
   adminUsers |-> AdminUsers(org), adminGroups |-> HeldBy(org, "group"),
   adminApps |-> HeldBy(org, "client"), apps |-> org.apps, services |-> org.services,
   devices |-> {GraphIdOf(d) : d \in org.devices}, members |-> org.members,
   secrets |-> org.secrets, permissions |-> org.permissions,
   resources |-> org.resources, bindings |-> org.bindings]

FactNames ==
  {"roles", "scopes", "users", "groups", "adminUsers", "adminGroups", "adminApps",
   "apps", "services", "devices", "members", "secrets", "permissions", "resources",
   "bindings"}

\* What these hold is excluded from the targets: the less, the more is granted.
Exclusions == {"adminUsers", "adminGroups", "adminApps"}

Sometimes(n, versions) == UNION {Facts(v)[n] : v \in versions}
Throughout(n, versions) ==
  {x \in Sometimes(n, versions) : \A v \in versions : x \in Facts(v)[n]}

Ever(versions) ==
  [n \in FactNames |-> IF n \in Exclusions THEN Throughout(n, versions)
                                            ELSE Sometimes(n, versions)]
Always(versions) ==
  [n \in FactNames |-> IF n \in Exclusions THEN Sometimes(n, versions)
                                            ELSE Throughout(n, versions)]

PlainUsers(F) == F.users \ F.adminUsers
PlainGroups(F) == F.groups \ F.adminGroups
PlainApps(F) == Ids(F.apps) \ F.adminApps

-----------------------------------------------------------------------------
(* Scopes. *)

AppsNamed(F, name) ==
  Ids({a \in F.apps : a.name = name}) \cup Ids({s \in F.services : s.type = name})

ScopesOf(F, a) == {s \in F.scopes : s.id = a.id /\ s.source = a.source}

\* A scope of no targets is the org.
ScopeGroups(F, s) == IF s.groups = {} THEN F.groups ELSE s.groups \cap F.groups

ScopeUsers(F, s) ==
  IF s.groups = {} THEN F.users
  ELSE {m.id : m \in {n \in F.members : n.group \in s.groups}}

TargetApps(F, t) == IF t.id = "" THEN AppsNamed(F, t.name) ELSE {t.id} \cap Ids(F.apps)

ScopeApps(F, s) ==
  IF s.apps = {} THEN Ids(F.apps) \cup Ids(F.services)
  ELSE UNION {TargetApps(F, t) : t \in {u \in s.apps : u.status = "ACTIVE"}}

\* What a resource of a resource set stands for: all things of a kind, one of
\* them, the applications of a type, the members of a group, or things that no
\* role changes.
Things(F) ==
  [users |-> F.users, groups |-> F.groups, apps |-> Ids(F.apps) \cup Ids(F.services)]

Stands(F, r) ==
  CASE r.means[1] = "all" /\ r.means[2] \in DOMAIN Things(F) -> Things(F)[r.means[2]]
    [] r.means[1] = "one" /\ r.means[2] \in DOMAIN Things(F)
         -> {r.means[3]} \cap Things(F)[r.means[2]]
    [] r.means[1] = "type" /\ r.means[2] = "apps" -> AppsNamed(F, r.means[3])
    [] r.means[1] = "members" -> {m.id : m \in {n \in F.members : n.group = r.means[2]}}
    [] OTHER -> {}

BoundTo(F, a) ==
  UNION {Stands(F, r) :
           r \in {s \in F.resources : \E b \in F.bindings :
                    b.id = a.id /\ b.assignee = a.source /\ b.set = s.set}}

SecretsOfAny(F, apps) == Ids({s \in F.secrets : s.app \in apps})

-----------------------------------------------------------------------------
(* Entitlements: sets of <<kind, target>>. *)

\* A role whose scope is s.
ScopedTargets(F, type, s) ==
  CASE type = "APP_ADMIN"
         -> ({"APP_ADMIN"} \X (ScopeApps(F, s) \cap (PlainApps(F) \cup Ids(F.services))))
              \cup ({"READ_CLIENT_SECRET"}
                      \X SecretsOfAny(F, IF s.apps = {} THEN Ids(F.apps)
                                                        ELSE ScopeApps(F, s)))
    [] type = "GROUP_MEMBERSHIP_ADMIN"
         -> {"GROUP_MEMBERSHIP_ADMIN"} \X (ScopeGroups(F, s) \cap PlainGroups(F))
    [] type = "HELP_DESK_ADMIN"
         -> {"HELPDESK_ADMIN"} \X (ScopeUsers(F, s) \cap PlainUsers(F))
    [] type = "USER_ADMIN"
         -> {"GROUP_ADMIN"} \X ((ScopeGroups(F, s) \cap PlainGroups(F))
                                  \cup (ScopeUsers(F, s) \cap PlainUsers(F)))
    [] OTHER -> {}

\* A role that is always of the whole org.
OrgTargets(F, type) ==
  CASE type = "ORG_ADMIN"
         -> {"ORG_ADMIN"} \X (PlainUsers(F) \cup PlainGroups(F) \cup F.devices)
    [] type = "MOBILE_ADMIN" -> {"MOBILE_ADMIN"} \X F.devices
    [] type = "SUPER_ADMIN" -> {<<"SUPER_ADMIN", OrgNode>>}
    [] type \in {"API_ACCESS_MANAGEMENT_ADMIN", "READ_ONLY_ADMIN"}
         -> {"READ_CLIENT_SECRET"} \X SecretsOfAny(F, Ids(F.apps))
    [] OTHER -> {}

\* A custom role: its permissions, on what its resource sets stand for.
CustomKinds(F, a) ==
  {k \in DOMAIN Labels : \E p \in F.permissions : p.role = a.role /\ p.label \in Labels[k]}

Reach(F, a, kind) ==
  CASE kind = "ADD_MEMBER" -> BoundTo(F, a) \cap PlainGroups(F)
    [] kind = "MANAGE_APP" -> BoundTo(F, a) \cap PlainApps(F)
    [] kind \in {"RESET_FACTORS", "RESET_PASSWORD"} -> BoundTo(F, a) \cap PlainUsers(F)
    [] kind = "READ_CLIENT_SECRET" -> SecretsOfAny(F, BoundTo(F, a) \cap Ids(F.apps))

CustomTargets(F, a) == UNION {{k} \X Reach(F, a, k) : k \in CustomKinds(F, a)}

TargetsOf(F, a) ==
  IF a.type = "CUSTOM" THEN CustomTargets(F, a)
  ELSE OrgTargets(F, a.type) \cup UNION {ScopedTargets(F, a.type, s) : s \in ScopesOf(F, a)}

Grants(F) == UNION {{a.source} \X TargetsOf(F, a) : a \in F.roles}
=============================================================================
