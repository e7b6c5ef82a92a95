----------------------------- MODULE MCPipeline -----------------------------
(***************************************************************************)
(* Instances of Pipeline for TLC: an org of three users, two groups, two    *)
(* applications of one type and an integration of it, with two role         *)
(* assignments, which changes once while it is collected.                   *)
(***************************************************************************)
EXTENDS Pipeline

Url(path) == [path |-> path, query |-> <<>>]
Orn(service, rest) == <<"orn", "okta", service, "o">> \o rest

Thing(set, means, url, orn) == [set |-> set, means |-> means, url |-> url, orn |-> orn]

\* Resources by URL and ORN, of two resource sets.
SetOne ==
  {Thing("rs1", <<"one", "users", "u2">>, Url(<<"users", "u2">>),
         Orn("directory", <<"users", "u2">>)),
   Thing("rs1", <<"type", "apps", "hub">>,
         [path |-> <<"apps">>, query |-> <<"filter", "hub">>],
         Orn("idp", <<"apps", "hub">>)),
   Thing("rs1", <<"all", "groups">>, Url(<<"groups">>), Orn("directory", <<"groups">>))}
SetTwo ==
  {Thing("WORKFLOWS_IAM_POLICY", <<"members", "g1">>, Url(<<"groups", "g1", "users">>),
         Orn("directory", <<"groups", "g1", "contained_resources">>)),
   Thing("WORKFLOWS_IAM_POLICY", <<"one", "apps", "a1">>, NoUrl,
         Orn("idp", <<"apps", "hub", "a1">>))}
SetThree ==
  {Thing("rs3", <<"all", "users">>, Url(<<"users">>), Orn("directory", <<"users">>)),
   Thing("rs3", <<"one", "groups", "g2">>, Url(<<"groups", "g2">>),
         Orn("directory", <<"groups", "g2">>)),
   Thing("rs3", <<"all", "apps">>, Url(<<"apps">>), Orn("idp", <<"apps">>)),
   Thing("rs3", <<"type", "policies", "OKTA_SIGN_ON">>, Url(<<"policies", "OKTA_SIGN_ON">>),
         Orn("idp", <<"policies", "OKTA_SIGN_ON">>)),
   Thing("rs3", <<"all", "idps">>, Url(<<"idps">>), Orn("idp", <<"identity_provider">>)),
   Thing("rs3", <<"one", "devices", "d1">>, Url(<<"devices", "d1">>),
         Orn("directory", <<"devices", "d1">>)),
   Thing("rs3", <<"one", "servers", "s1">>, Url(<<"authorizationServers", "s1">>),
         Orn("idp", <<"authorization_servers", "s1">>)),
   Thing("rs3", <<"other">>, Url(<<"flows">>), Orn("workflow", <<"flows">>))}

Member(u, g) == [id |-> u, group |-> g]

Base ==
  [users |-> {"u1", "u2", "u3"}, groups |-> {"g1", "g2"},
   members |-> {Member("u1", "g1"), Member("u2", "g2")},
   apps |-> {[id |-> "a1", name |-> "hub"], [id |-> "a2", name |-> "hub"]},
   services |-> {[id |-> "i1", type |-> "hub"]},
   clients |-> {[id |-> "a2", service |-> TRUE]},
   devices |-> {[id |-> "d1", udid |-> "x1"], [id |-> "d2", udid |-> ""]},
   policies |-> {[id |-> "p1", type |-> "OKTA_SIGN_ON"]},
   idps |-> {"n1"}, servers |-> {"s1"},
   secrets |-> {[id |-> "k1", app |-> "a1"], [id |-> "k2", app |-> "i1"],
                [id |-> "k3", app |-> "a2"]},
   resources |-> {}, bindings |-> {}, permissions |-> {}, roles |-> {}]

Role(from, source, type, apps, groups) ==
  [id |-> type, from |-> from, source |-> source,
   assignmentType |-> DirectType(from), status |-> "ACTIVE", type |-> type,
   role |-> "", appTargets |-> apps, groupTargets |-> groups]

CustomRole(from, source) == [Role(from, source, "CUSTOM", {}, {}) EXCEPT !.role = "c1"]

AppScopes ==
  {{}, {[id |-> "a1", name |-> "hub", status |-> "ACTIVE"]},
   {[id |-> "", name |-> "hub", status |-> "ACTIVE"],
    [id |-> "a2", name |-> "hub", status |-> "INACTIVE"]}}

GroupScopes == {{}, {"g1"}}

BuiltIns ==
  {Role("user", "u3", "APP_ADMIN", s, {}) : s \in AppScopes}
    \cup {Role("user", "u3", t, {}, s) : t \in GroupTargetedTypes, s \in GroupScopes}
    \cup {Role("client", "a2", t, {}, {}) :
            t \in {"ORG_ADMIN", "SUPER_ADMIN", "MOBILE_ADMIN", "READ_ONLY_ADMIN",
                   "WORKFLOWS_ADMIN"}}

\* The org with the first role.
Org(role) == [Base EXCEPT !.roles = {role}]

\* A custom role of u3, bound to a resource set.
CustomOrg(labels, set, resources) ==
  [Base EXCEPT !.roles = {CustomRole("user", "u3")},
               !.permissions = {[id |-> l, role |-> "c1", label |-> l] : l \in labels},
               !.resources = resources,
               !.bindings = {[id |-> "CUSTOM", set |-> set, assignee |-> "u3"]}]

LabelSets ==
  {{"okta.groups.manage", "okta.apps.manage"}, {"okta.users.manage"},
   {"okta.users.credentials.resetFactors", "okta.apps.clientCredentials.read"}}

CustomOrgs ==
  {CustomOrg(l, "rs1", SetOne) : l \in LabelSets}
    \cup {CustomOrg(l, "WORKFLOWS_IAM_POLICY", SetTwo) : l \in LabelSets}
    \cup {CustomOrg({"okta.users.manage"}, "rs3", SetThree)}
    \cup {CustomOrg({}, "rs1", SetOne)}

\* What may change: a user joins or leaves a group, the first role is revoked,
\* its scope changes, or a user, a group or a client becomes an administrator.
Join(o) == [o EXCEPT !.members = @ \cup {Member("u2", "g1")}]
Leave(o) == [o EXCEPT !.members = @ \ {Member("u1", "g1")}]
Revoke(o) == [o EXCEPT !.roles = {}]
Rescope(o) == [o EXCEPT !.roles = {[r EXCEPT !.groupTargets = {"g2"}] : r \in @}]
Admin(o, from, source) ==
  [o EXCEPT !.roles = @ \cup {Role(from, source, "REPORT_ADMIN", {}, {})}]
Dormant(o) ==
  [o EXCEPT !.roles = @ \cup {[Role("group", "g1", "REPORT_ADMIN", {}, {})
                                 EXCEPT !.status = "INACTIVE"]}]

GroupChanges(o) ==
  {Join(o), Leave(o), Revoke(o), Rescope(o), Dormant(o), Admin(o, "user", "u1"),
   Admin(o, "group", "g1")}
AppChanges(o) == {Revoke(o), Admin(o, "client", "a2")}
CustomChanges(o) == {Join(o), Leave(o), Admin(o, "group", "g1"), Admin(o, "client", "a2")}

MCHistories ==
  UNION {{<<Org(r), c>> : c \in GroupChanges(Org(r))} :
           r \in {s \in BuiltIns : s.type \in GroupTargetedTypes}}
    \cup UNION {{<<Org(r), c>> : c \in AppChanges(Org(r))} :
                  r \in {s \in BuiltIns : s.type \notin GroupTargetedTypes}}
    \cup UNION {{<<o, c>> : c \in CustomChanges(o)} : o \in CustomOrgs}

\* A group is created and the scope of a role is set to it.
Created(o) ==
  [o EXCEPT !.groups = @ \cup {"g3"}, !.roles = {[r EXCEPT !.groupTargets = {"g3"}] : r \in @}]
MCCreation ==
  {<<Base, Created(Org(r))>> : r \in {s \in BuiltIns : s.type \in GroupTargetedTypes}}
=============================================================================
