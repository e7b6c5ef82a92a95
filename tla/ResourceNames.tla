--------------------------- MODULE ResourceNames ---------------------------
(***************************************************************************)
(* How Okta names the members of a resource set.  What a member means is    *)
(* all things of a kind, one of them, those of a type, the members of a     *)
(* group, or something else; its URL and its ORN are two forms of that,     *)
(* those that the lookups of lookup.py expect, and one of them may be       *)
(* missing.                                                                *)
(***************************************************************************)
EXTENDS Lookup

UrlWords ==
  [users |-> "users", groups |-> "groups", apps |-> "apps", devices |-> "devices",
   servers |-> "authorizationServers", idps |-> "idps", policies |-> "policies"]

OrnWords ==
  [users |-> "users", groups |-> "groups", apps |-> "apps", devices |-> "devices",
   servers |-> "authorization_servers", idps |-> "identity_provider",
   policies |-> "policies"]

\* No id, type or other name is one of these.
Words ==
  {"users", "groups", "apps", "devices", "authorizationServers", "idps", "policies",
   "authorization_servers", "identity_provider", "contained_resources", None}

Path(segments) == [path |-> segments, query |-> <<>>]

\* orn:{partition}:{service}:{orgId}: and n parts in all.
IsOrn(orn, n) == orn \in Seq(STRING) /\ Len(orn) = n /\ \A i \in 1 .. 4 : orn[i] \notin Words

IsAll(r, kind) ==
  /\ r.means = <<"all", kind>>
  /\ r.url \in {NoUrl, Path(<<UrlWords[kind]>>)}
  /\ r.orn = <<>> \/ (IsOrn(r.orn, 5) /\ r.orn[5] = OrnWords[kind])

\* The type of an application precedes its id in an ORN.
IsOne(r, kind, id) ==
  /\ r.means = <<"one", kind, id>> /\ id \notin Words
  /\ r.url \in {NoUrl, Path(<<UrlWords[kind], id>>)}
  /\ \/ r.orn = <<>>
     \/ kind # "apps" /\ IsOrn(r.orn, 6) /\ r.orn[5] = OrnWords[kind] /\ r.orn[6] = id
     \/ /\ kind = "apps" /\ IsOrn(r.orn, 7)
        /\ r.orn[5] = "apps" /\ r.orn[6] \notin Words /\ r.orn[7] = id

TypeUrls(kind, type) ==
  IF kind = "apps" THEN {[path |-> <<"apps">>, query |-> <<"filter", type>>]}
  ELSE {Path(<<"policies", type>>), [path |-> <<"policies">>, query |-> <<"type", type>>]}

IsType(r, kind, type) ==
  /\ r.means = <<"type", kind, type>> /\ type \notin Words
  /\ r.url \in {NoUrl} \cup TypeUrls(kind, type)
  /\ r.orn = <<>> \/ (IsOrn(r.orn, 6) /\ r.orn[5] = kind /\ r.orn[6] = type)

IsMembers(r, group) ==
  /\ r.means = <<"members", group>> /\ group \notin Words
  /\ r.url \in {NoUrl, Path(<<"groups", group, "users">>)}
  /\ \/ r.orn = <<>>
     \/ /\ IsOrn(r.orn, 7)
        /\ r.orn[5] = "groups" /\ r.orn[6] = group /\ r.orn[7] = "contained_resources"

\* Of something that no lookup supports, such as the flows of Workflows.
IsOther(r) ==
  /\ r.means = <<"other">>
  /\ r.url = NoUrl \/ r.url.path[1] \notin Words
  /\ \/ r.orn = <<>>
     \/ /\ r.orn \in Seq(STRING)
        /\ \A i \in DOMAIN r.orn : r.orn[i] \notin Words \ {"contained_resources"}

\* Okta never references individual policies.
IsNamed(r) ==
  \/ \E kind \in DOMAIN UrlWords : IsAll(r, kind)
  \/ Len(r.means) = 3 /\ \E kind \in DOMAIN UrlWords \ {"policies"} : IsOne(r, kind, r.means[3])
  \/ Len(r.means) = 3 /\ \E kind \in {"apps", "policies"} : IsType(r, kind, r.means[3])
  \/ Len(r.means) = 2 /\ IsMembers(r, r.means[2])
  \/ IsOther(r)
=============================================================================
