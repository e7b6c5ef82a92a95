-------------------------- MODULE Federation_proofs --------------------------
(***************************************************************************)
(* Proofs about Federation, for any histories of an org and any number of  *)
(* requests that fail.                                                     *)
(*                                                                         *)
(*   Inv       what is collected comes from versions of the org: the users *)
(*             from one, the assignments from any behind their application's*)
(*             row; there is one row for each application; the edges are   *)
(*             those of the collected tables.                              *)
(*   WholeInv  Inv, and: the ids in the rows are those of the org, each of *)
(*             its kind; an IdP has one row; a user that Okta has linked is*)
(*             linked to a collected IdP, once.                            *)
(*                                                                         *)
(* The theorems, each behind the lemmas that it needs:                     *)
(*   EvidenceIsHonest     an edge tells no less of an assertion than it    *)
(*                        claims to, and is there for eligible users only; *)
(*   RoutesAreProvable    the routes of an application are those that its  *)
(*                        configuration proves;                            *)
(*   GraphsAreWhole       the ends of the edges are there and of the kinds *)
(*                        that an asset declares, each route and account   *)
(*                        once: every generator of edges fits a definition *)
(*                        (Fits), and a node has one kind;                 *)
(*   RulesFollowPolicies  a rule finds the account that Okta would find,   *)
(*                        and all of them but those whose link names none. *)
(* RoutesAreProvable is about lists that are made one element after the    *)
(* other: the lemmas on recursion before it say that such a function exists,*)
(* and where its values are, by the least number that would be an exception.*)
(***************************************************************************)
EXTENDS Federation, WellFoundedInduction, FiniteSetTheorems, TLAPS

HistoryInv == history \in Histories /\ asOf \in Versions

UsersAreListed == \E v \in SeenVersions :
  db["users"] \subseteq v.users /\ (turn > 0 /\ "users" \notin lost => db["users"] = v.users)

AppsAreUnique ==
  /\ \A r, s \in db["applications"] : r.id = s.id => r = s
  /\ \A r \in db["applications"] : IsApplication(r)

IsSeenRow(u, a) == \E v \in SeenVersions : u \in ApplicationUserRows(a, v)

AssignmentsAreSeen ==
  \A u \in db["application_users"] : \E a \in db["applications"] : IsSeenRow(u, a)

TablesAreListed ==
  /\ DOMAIN db = Tables
  /\ turn < 4 => db["application_users"] = {}
  /\ UsersAreListed /\ AppsAreUnique /\ AssignmentsAreSeen

\* One step makes all the edges, when everything has been collected.
GraphInv ==
  /\ turn \in 0 .. Len(Order)
  /\ stage \in {"collect", "convert", "done", "failed"}
  /\ stage \in {"convert", "done"} => turn = Len(Order)
  /\ stage \in {"collect", "convert"} => graph = {}
  /\ stage = "done" => graph = AllEdges
  /\ graph # {} => graph = AllEdges /\ turn = Len(Order)

Inv == HistoryInv /\ TablesAreListed /\ GraphInv

-----------------------------------------------------------------------------

LEMMA OrderIs ==
  /\ Len(Order) = 7
  /\ Order[1] = "users" /\ Order[2] = "groups" /\ Order[3] = "applications"
  /\ Order[4] = "application_users" /\ Order[5] = "application_group_push_mappings"
  /\ Order[6] = "identity_providers" /\ Order[7] = "identity_provider_users"
BY DEF Order

LEMMA TablesAre ==
  Tables = {"users", "groups", "applications", "application_users",
            "application_group_push_mappings", "identity_providers",
            "identity_provider_users"}
<1>1. DOMAIN Order = 1 .. 7
  BY DEF Order
<1>2. QED
  BY <1>1, OrderIs DEF Tables, ToSet

LEMMA HistoryIs ==
  ASSUME history \in Histories
  PROVE  /\ Len(history) \in Nat \ {0} /\ DOMAIN history = Versions
         /\ \A i \in Versions : history[i] \in SeenVersions /\ history[i] \in Orgs
<1>1. history \in Seq(Orgs) /\ history # <<>>
  BY OrgsAssumption
<1>2. Len(history) \in Nat /\ DOMAIN history = 1 .. Len(history)
  BY <1>1
<1>3. Len(history) # 0
  BY <1>1
<1>4. QED
  BY <1>1, <1>2, <1>3 DEF Versions, SeenVersions, ToSet

LEMMA PositionIs ==
  ASSUME turn \in 0 .. Len(Order), NEW t \in Tables, Due(t)
  PROVE  /\ turn < 7 /\ turn' = turn + 1 /\ stage = "collect"
         /\ UNCHANGED <<history, stage, graph>>
         /\ t = "users" => turn = 0
         /\ t # "users" => turn > 0
         /\ t = "applications" => turn = 2
         /\ t = "application_users" => turn = 3
<1>1. turn \in 0 .. 6 /\ Order[turn + 1] = t
  BY OrderIs DEF Due
<1>2. turn \in {0, 1, 2, 3, 4, 5, 6}
  BY <1>1
<1>3. /\ t = "users" => turn = 0
      /\ t # "users" => turn > 0
      /\ t = "applications" => turn = 2
      /\ t = "application_users" => turn = 3
  BY <1>1, <1>2, OrderIs
<1>4. turn < 7 /\ turn' = turn + 1 /\ stage = "collect"
  BY OrderIs DEF Due
<1>5. UNCHANGED <<history, stage, graph>>
  BY DEF Due
<1>6. QED
  BY <1>3, <1>4, <1>5

\* What a step leaves in a table that it does not fill.
LEMMA FullLeaves ==
  ASSUME DOMAIN db = Tables, NEW t \in Tables, NEW rows, Full(t, rows)
  PROVE  DOMAIN db' = Tables /\ db'[t] = rows /\ \A u \in Tables \ {t} : db'[u] = db[u]
BY DEF Full

LEMMA CollectedIs ==
  ASSUME NEW t \in Tables, NEW rows, Collected(t, rows)
  PROVE  /\ \E kept \in SUBSET rows : Full(t, kept)
         /\ t \notin lost' => Full(t, rows)
         /\ lost \subseteq lost'
BY DEF Collected, Partial

-----------------------------------------------------------------------------
(* The invariant. *)

LEMMA InvInit == Init => Inv
<1>1. SUFFICES ASSUME Init PROVE Inv
  OBVIOUS
<1>2. history \in Histories /\ turn = 0 /\ asOf = 1 /\ lost = {} /\ stage = "collect"
      /\ graph = {} /\ db = [t \in Tables |-> {}]
  BY <1>1 DEF Init
<1>3. DOMAIN db = Tables /\ db["users"] = {} /\ db["applications"] = {}
      /\ db["application_users"] = {}
  BY <1>2, TablesAre
<1>4. Len(history) \in Nat \ {0} /\ 1 \in Versions /\ history[1] \in SeenVersions
  BY <1>2, HistoryIs DEF Versions
<1>5. UsersAreListed
  <2>1. ~(turn > 0) /\ db["users"] \subseteq history[1].users
    BY <1>2, <1>3
  <2>2. QED
    BY <1>4, <2>1, Zenon DEF UsersAreListed
<1>6. TablesAreListed
  BY <1>3, <1>5 DEF TablesAreListed, AppsAreUnique, AssignmentsAreSeen
<1>7. GraphInv
  BY <1>2, OrderIs DEF GraphInv
<1>8. QED
  BY <1>2, <1>4, <1>6, <1>7 DEF Inv, HistoryInv

\* What holds after all steps that fill a table.
LEMMA DueKeeps ==
  ASSUME Inv, NEW t \in Tables, Due(t), asOf' \in Versions
  PROVE  HistoryInv' /\ GraphInv'
<1>1. turn \in 0 .. Len(Order) /\ turn < 7 /\ turn' = turn + 1 /\ stage = "collect"
      /\ UNCHANGED <<history, stage, graph>>
  BY PositionIs DEF Inv, GraphInv
<1>2. HistoryInv'
  BY <1>1 DEF Inv, HistoryInv, Versions
<1>3. GraphInv'
  BY <1>1, OrderIs DEF Inv, GraphInv
<1>4. QED
  BY <1>2, <1>3

LEMMA UsersAreKept ==
  ASSUME Inv, NEW t \in Tables \ {"users"}, Due(t), lost \subseteq lost',
         db'["users"] = db["users"]
  PROVE  UsersAreListed'
<1>1. turn > 0 /\ SeenVersions' = SeenVersions
  BY PositionIs DEF Inv, GraphInv, SeenVersions
<1>2. PICK v \in SeenVersions :
        db["users"] \subseteq v.users /\ ("users" \notin lost => db["users"] = v.users)
  BY <1>1 DEF Inv, TablesAreListed, UsersAreListed
<1>3. QED
  BY <1>1, <1>2 DEF UsersAreListed

LEMMA OtherTablesKeep ==
  ASSUME Inv, NEW t \in Tables \ {"users", "applications", "application_users"},
         Due(t), asOf' \in Versions, NEW rows, Full(t, rows), lost \subseteq lost'
  PROVE  Inv'
<1>1. HistoryInv' /\ GraphInv'
  BY DueKeeps
<1>2. DOMAIN db' = Tables /\ \A u \in Tables \ {t} : db'[u] = db[u]
  BY FullLeaves DEF Inv, TablesAreListed
<1>3. db'["users"] = db["users"] /\ db'["applications"] = db["applications"]
      /\ db'["application_users"] = db["application_users"]
  BY <1>2, TablesAre
<1>4. UsersAreListed'
  BY <1>3, UsersAreKept
<1>5. SeenVersions' = SeenVersions /\ turn' = turn + 1 /\ turn \in 0 .. 7
  BY PositionIs, OrderIs DEF Inv, GraphInv, SeenVersions
<1>6. turn' < 4 => db'["application_users"] = {}
  BY <1>3, <1>5 DEF Inv, TablesAreListed
<1>7. AppsAreUnique' /\ AssignmentsAreSeen'
  BY <1>3, <1>5 DEF Inv, TablesAreListed, AppsAreUnique, AssignmentsAreSeen, IsSeenRow
<1>8. QED
  BY <1>1, <1>2, <1>4, <1>6, <1>7 DEF Inv, TablesAreListed

LEMMA UsersKeep == Inv /\ CollectUsers => Inv'
<1>1. SUFFICES ASSUME Inv, CollectUsers PROVE Inv'
  OBVIOUS
<1>2. Due("users")
  BY <1>1 DEF CollectUsers
<1>3. PICK v \in Versions : asOf' = v /\ Collected("users", history[v].users)
  BY <1>1 DEF CollectUsers
<1>4. "users" \in Tables /\ turn = 0 /\ turn' = 1 /\ SeenVersions' = SeenVersions
  BY <1>1, <1>2, PositionIs, TablesAre DEF Inv, GraphInv, SeenVersions
<1>5. PICK kept \in SUBSET history[v].users : Full("users", kept)
  BY <1>3, <1>4, CollectedIs
<1>6. DOMAIN db' = Tables /\ \A u \in Tables \ {"users"} : db'[u] = db[u]
  BY <1>1, <1>4, <1>5, FullLeaves DEF Inv, TablesAreListed
<1>7. db'["applications"] = db["applications"] /\ db'["application_users"] = {}
  BY <1>1, <1>4, <1>6, TablesAre DEF Inv, TablesAreListed
<1>8. db'["users"] = kept /\ ("users" \notin lost' => kept = history[v].users)
  <2>1. db'["users"] = kept
    BY <1>1, <1>4, <1>5, FullLeaves DEF Inv, TablesAreListed
  <2>2. CASE "users" \notin lost'
    <3>1. Full("users", history[v].users)
      BY <1>3, <1>4, <2>2, CollectedIs
    <3>2. db'["users"] = history[v].users
      BY <1>1, <1>4, <3>1, FullLeaves DEF Inv, TablesAreListed
    <3>3. QED
      BY <2>1, <3>2
  <2>3. QED
    BY <2>1, <2>2
<1>9. UsersAreListed'
  <2>1. history[v] \in SeenVersions'
    BY <1>1, <1>3, <1>4, HistoryIs DEF Inv, HistoryInv
  <2>2. QED
    BY <1>4, <1>5, <1>8, <2>1 DEF UsersAreListed
<1>10. HistoryInv' /\ GraphInv'
  BY <1>1, <1>2, <1>3, <1>4, DueKeeps
<1>11. AppsAreUnique' /\ AssignmentsAreSeen'
  BY <1>1, <1>7 DEF Inv, TablesAreListed, AppsAreUnique, AssignmentsAreSeen
<1>12. QED
  BY <1>6, <1>7, <1>9, <1>10, <1>11 DEF Inv, TablesAreListed

LEMMA ApplicationsKeep == Inv /\ CollectApplications => Inv'
<1>1. SUFFICES ASSUME Inv, CollectApplications PROVE Inv'
  OBVIOUS
<1>2. Due("applications") /\ UNCHANGED lost
  BY <1>1 DEF CollectApplications
<1>3. PICK v \in Versions :
        \E hidden \in SUBSET {a \in history[v].applications : IsSamlApplication(a)} :
          /\ asOf' = v
          /\ Full("applications",
                  {IF a \in hidden THEN [a EXCEPT !.metadata = NoText] ELSE a :
                     a \in history[v].applications})
  BY <1>1 DEF CollectApplications
<1>4. PICK hidden \in SUBSET {a \in history[v].applications : IsSamlApplication(a)} :
        /\ asOf' = v
        /\ Full("applications",
                {IF a \in hidden THEN [a EXCEPT !.metadata = NoText] ELSE a :
                   a \in history[v].applications})
  BY <1>3
<1> DEFINE Shown(a) == IF a \in hidden THEN [a EXCEPT !.metadata = NoText] ELSE a
           rows == {Shown(a) : a \in history[v].applications}
<1>5. "applications" \in Tables /\ turn = 2 /\ turn' = 3 /\ SeenVersions' = SeenVersions
  BY <1>1, <1>2, PositionIs, TablesAre DEF Inv, GraphInv, SeenVersions
<1>6. /\ DOMAIN db' = Tables /\ db'["applications"] = rows
      /\ \A u \in Tables \ {"applications"} : db'[u] = db[u]
  BY <1>1, <1>4, <1>5, FullLeaves DEF Inv, TablesAreListed
<1>7. db'["users"] = db["users"] /\ db'["application_users"] = {}
  BY <1>1, <1>5, <1>6, TablesAre DEF Inv, TablesAreListed
<1>8. AppsAreUnique'
  <2>1. history[v] \in Orgs
    BY <1>1, HistoryIs DEF Inv, HistoryInv
  <2>2. ASSUME NEW a \in history[v].applications
        PROVE  Shown(a).id = a.id
    <3>1. "id" \in DOMAIN a
      BY <2>1, <2>2, OrgsAssumption
    <3>2. [a EXCEPT !.metadata = NoText].id = a.id
      BY <3>1
    <3>3. QED
      BY <3>2
  <2>3. ASSUME NEW a \in history[v].applications, NEW b \in history[v].applications,
               Shown(a).id = Shown(b).id
        PROVE  Shown(a) = Shown(b)
    <3>1. a.id = b.id
      BY <2>2, <2>3
    <3>2. a = b
      BY <2>1, <3>1, OrgsAssumption
    <3>3. QED
      BY <3>2
  <2> HIDE DEF Shown
  <2>4. \A r, s \in rows : r.id = s.id => r = s
    BY <2>3
  <2>5. \A a \in history[v].applications : IsApplication(Shown(a))
    <3>1. SUFFICES ASSUME NEW a \in history[v].applications
                   PROVE  IsApplication([a EXCEPT !.metadata = NoText]) /\ IsApplication(a)
      BY DEF Shown
    <3> DEFINE r == [a EXCEPT !.metadata = NoText]
    <3>2. IsApplication(a)
      BY <2>1, OrgsAssumption
    <3>3. DOMAIN r = DOMAIN a /\ r.mode = a.mode /\ r.signOn = a.signOn
      BY <3>2 DEF IsApplication
    <3> HIDE DEF r
    <3>4. IsApplication(r)
      BY <3>2, <3>3 DEF IsApplication, IsSamlApplication
    <3>5. QED
      BY <3>2, <3>4 DEF r
  <2>6. \A r \in rows : IsApplication(r)
    BY <2>5
  <2>7. QED
    BY <1>6, <2>4, <2>6 DEF AppsAreUnique
<1>9. UsersAreListed'
  BY <1>1, <1>2, <1>5, <1>7, UsersAreKept, TablesAre
<1>10. HistoryInv' /\ GraphInv'
  BY <1>1, <1>2, <1>4, <1>5, DueKeeps
<1>11. AssignmentsAreSeen'
  BY <1>7 DEF AssignmentsAreSeen
<1>12. QED
  BY <1>5, <1>6, <1>7, <1>8, <1>9, <1>10, <1>11 DEF Inv, TablesAreListed

LEMMA ApplicationUsersKeep == Inv /\ CollectApplicationUsers => Inv'
<1>1. SUFFICES ASSUME Inv, CollectApplicationUsers PROVE Inv'
  OBVIOUS
<1>2. Due("application_users") /\ UNCHANGED asOf
  BY <1>1 DEF CollectApplicationUsers
<1>3. PICK v \in Views("applications") :
        Collected("application_users",
                  UNION {ApplicationUserRows(a, history[v[a]]) : a \in DOMAIN v})
  BY <1>1 DEF CollectApplicationUsers
<1> DEFINE rows == UNION {ApplicationUserRows(a, history[v[a]]) : a \in DOMAIN v}
<1>4. /\ "application_users" \in Tables /\ turn = 3 /\ turn' = 4
      /\ SeenVersions' = SeenVersions /\ history' = history
  BY <1>1, <1>2, PositionIs, TablesAre DEF Inv, GraphInv, SeenVersions
<1>5. PICK kept \in SUBSET rows : Full("application_users", kept)
  BY <1>3, <1>4, CollectedIs
<1>6. /\ DOMAIN db' = Tables /\ db'["application_users"] = kept
      /\ \A u \in Tables \ {"application_users"} : db'[u] = db[u]
  BY <1>1, <1>4, <1>5, FullLeaves DEF Inv, TablesAreListed
<1>7. db'["users"] = db["users"] /\ db'["applications"] = db["applications"]
  BY <1>6, TablesAre
<1>8. AssignmentsAreSeen'
  <2>1. SUFFICES ASSUME NEW u \in db'["application_users"]
                 PROVE  \E a \in db["applications"] : \E org \in SeenVersions :
                          u \in ApplicationUserRows(a, org)
    BY <1>4, <1>7, Zenon DEF AssignmentsAreSeen, IsSeenRow
  <2>2. u \in rows
    BY <1>6, <2>1
  <2>3. PICK a \in DOMAIN v : u \in ApplicationUserRows(a, history[v[a]])
    BY <2>2
  <2>4. DOMAIN v = db["applications"] /\ v[a] \in asOf .. Len(history)
    BY <2>3 DEF Views
  <2>5. v[a] \in Versions
    BY <1>1, <2>4, HistoryIs DEF Inv, HistoryInv, Versions
  <2>6. history[v[a]] \in SeenVersions
    BY <1>1, <2>5, HistoryIs DEF Inv, HistoryInv
  <2>7. QED
    BY <2>3, <2>4, <2>6
<1>9. UsersAreListed'
  <2>1. lost \subseteq lost'
    BY <1>3, <1>4, CollectedIs
  <2>2. QED
    BY <1>1, <1>2, <1>7, <2>1, UsersAreKept, TablesAre
<1>10. HistoryInv' /\ GraphInv'
  BY <1>1, <1>2, <1>4, DueKeeps DEF Inv, HistoryInv
<1>11. AppsAreUnique'
  BY <1>1, <1>7 DEF Inv, TablesAreListed, AppsAreUnique
<1>12. QED
  BY <1>4, <1>6, <1>8, <1>9, <1>10, <1>11 DEF Inv, TablesAreListed

\* The edges depend on the tables alone.
LEMMA EdgesStay ==
  ASSUME db' = db
  PROVE  AllEdges' = AllEdges
<1>1. \A u : SourceUser(u)' = SourceUser(u) /\ ClaimMappingsOf(u)' = ClaimMappingsOf(u)
      /\ DirectlyLinkedIds(u)' = DirectlyLinkedIds(u)
  BY DEF SourceUser, RowsOf, ClaimMappingsOf, DirectlyLinkedIds
<1>2. \A u : ApplicationUserEdges(u)' = ApplicationUserEdges(u)
  BY <1>1 DEF ApplicationUserEdges, AssertionEdges, Evidence, IsEligible
<1>3. \A g, n : SyncTargets(g, n)' = SyncTargets(g, n)
  BY DEF SyncTargets, RowsOf
<1>4. \A g : GroupEdges(g)' = GroupEdges(g) /\ GroupMappingEdges(g)' = GroupMappingEdges(g)
  BY <1>3 DEF GroupEdges, RowsOf, GroupMappingEdges
<1>5. \A u : IdpUserEdges(u)' = IdpUserEdges(u)
  <2>1. ASSUME NEW u PROVE LinkedAccountEdges(u)' = LinkedAccountEdges(u)
    <3>1. SourceUser(u.id)' = SourceUser(u.id)
      BY <1>1
    <3>2. QED
      BY <3>1 DEF LinkedAccountEdges
  <2>2. QED
    BY <2>1 DEF IdpUserEdges
<1>6. \A p : ServiceProviderEdges(p)' = ServiceProviderEdges(p)
  BY <1>1 DEF ServiceProviderEdges, ServiceProviderRaises, TableExists, AccountEdges, Unlinked
<1>7. FederationProviders' = FederationProviders /\ ServiceProviders' = ServiceProviders
      /\ Rules' = Rules
  BY DEF FederationProviders, ServiceProviders, Rules, RowsFrom
<1>8. /\ RowsFrom("application_users", ApplicationUserEdges)'
            = RowsFrom("application_users", ApplicationUserEdges)
      /\ RowsFrom("groups", GroupEdges)' = RowsFrom("groups", GroupEdges)
      /\ RowsFrom("application_group_push_mappings", GroupMappingEdges)'
            = RowsFrom("application_group_push_mappings", GroupMappingEdges)
      /\ RowsFrom("identity_provider_users", IdpUserEdges)'
            = RowsFrom("identity_provider_users", IdpUserEdges)
  BY <1>2, <1>4, <1>5 DEF RowsFrom
<1>9. /\ RowsFrom("applications", ApplicationEdges)'
            = RowsFrom("applications", ApplicationEdges)
      /\ RowsFrom("identity_providers", IdentityProviderEdges)'
            = RowsFrom("identity_providers", IdentityProviderEdges)
  BY DEF RowsFrom
<1>10. UNION {ServiceProviderEdges(p) : p \in ServiceProviders}'
         = UNION {ServiceProviderEdges(p) : p \in ServiceProviders}
  BY <1>6, <1>7
<1>11. QED
  BY <1>7, <1>8, <1>9, <1>10 DEF AllEdges

LEMMA GroupsKeep == Inv /\ CollectGroups => Inv'
<1>1. SUFFICES ASSUME Inv, CollectGroups PROVE Inv'
  OBVIOUS
<1>2. "groups" \in Tables \ {"users", "applications", "application_users"}
  BY TablesAre
<1>3. PICK v \in Versions : asOf' = v /\ Collected("groups", history[v].groups)
  BY <1>1 DEF CollectGroups
<1>4. PICK kept \in SUBSET history[v].groups : Full("groups", kept)
  BY <1>2, <1>3, CollectedIs
<1>5. Due("groups") /\ lost \subseteq lost' /\ asOf' \in Versions
  BY <1>1, <1>2, <1>3, CollectedIs DEF CollectGroups
<1>6. QED
  BY <1>1, <1>2, <1>4, <1>5, OtherTablesKeep

LEMMA MappingsKeep == Inv /\ CollectMappings => Inv'
<1>1. SUFFICES ASSUME Inv, CollectMappings PROVE Inv'
  OBVIOUS
<1> DEFINE t == "application_group_push_mappings"
<1>2. t \in Tables \ {"users", "applications", "application_users"}
  BY TablesAre
<1>3. Due(t) /\ asOf' \in Versions
  BY <1>1 DEF CollectMappings, Inv, HistoryInv
<1>4. lost \subseteq lost' /\ \E rows : Full(t, rows)
  BY <1>1 DEF CollectMappings, Partial
<1>5. PICK rows : Full(t, rows)
  BY <1>4
<1>6. QED
  BY <1>1, <1>2, <1>3, <1>4, <1>5, OtherTablesKeep

LEMMA IdentityProvidersKeep == Inv /\ CollectIdentityProviders => Inv'
<1>1. SUFFICES ASSUME Inv, CollectIdentityProviders PROVE Inv'
  OBVIOUS
<1> DEFINE t == "identity_providers"
<1>2. t \in Tables \ {"users", "applications", "application_users"}
  BY TablesAre
<1>3. Due(t)
  BY <1>1 DEF CollectIdentityProviders
<1>4. asOf' \in Versions /\ lost \subseteq lost' /\ \E rows : Full(t, rows)
  <2>1. PICK v \in Versions :
          /\ asOf' = v
          /\ \/ \E hidden \in SUBSET {i \in history[v].idps : IsSamlIdentityProvider(i)} :
                 /\ Full(t, {IF i \in hidden THEN WithoutMetadata(i) ELSE i :
                               i \in history[v].idps})
                 /\ UNCHANGED lost
             \/ Partial(t, history[v].idps)
    BY <1>1 DEF CollectIdentityProviders
  <2>2. CASE Partial(t, history[v].idps)
    BY <2>1, <2>2 DEF Partial
  <2>3. QED
    BY <2>1, <2>2
<1>5. PICK rows : Full(t, rows)
  BY <1>4
<1>6. QED
  BY <1>1, <1>2, <1>3, <1>4, <1>5, OtherTablesKeep

LEMMA IdpUsersKeep == Inv /\ CollectIdpUsers => Inv'
<1>1. SUFFICES ASSUME Inv, CollectIdpUsers PROVE Inv'
  OBVIOUS
<1> DEFINE t == "identity_provider_users"
<1>2. t \in Tables \ {"users", "applications", "application_users"}
  BY TablesAre
<1>3. Due(t) /\ asOf' \in Versions
  BY <1>1 DEF CollectIdpUsers, Inv, HistoryInv
<1>4. lost \subseteq lost' /\ \E rows : Full(t, rows)
  BY <1>1 DEF CollectIdpUsers, Collected, Partial
<1>5. PICK rows : Full(t, rows)
  BY <1>4
<1>6. QED
  BY <1>1, <1>2, <1>3, <1>4, <1>5, OtherTablesKeep

LEMMA UnchangedTablesKeep ==
  ASSUME Inv, UNCHANGED <<history, turn, asOf, lost, db>>, GraphInv'
  PROVE  Inv'
<1>1. HistoryInv' /\ Versions' = Versions /\ SeenVersions' = SeenVersions
  BY DEF Inv, HistoryInv, Versions, SeenVersions
<1>2. UsersAreListed' /\ AppsAreUnique'
  BY <1>1 DEF Inv, TablesAreListed, UsersAreListed, AppsAreUnique
<1>3. AssignmentsAreSeen'
  BY <1>1 DEF Inv, TablesAreListed, AssignmentsAreSeen, IsSeenRow
<1>4. QED
  BY <1>1, <1>2, <1>3 DEF Inv, TablesAreListed

LEMMA InvNext == Inv /\ [Next]_vars => Inv'
<1>1. SUFFICES ASSUME Inv, [Next]_vars PROVE Inv'
  OBVIOUS
<1>2. CASE CollectionFails
  <2>1. UNCHANGED <<history, turn, asOf, lost, db, graph>> /\ stage' = "failed"
        /\ stage = "collect"
    BY <1>2 DEF CollectionFails
  <2>2. GraphInv'
    BY <1>1, <2>1 DEF Inv, GraphInv
  <2>3. QED
    BY <1>1, <2>1, <2>2, UnchangedTablesKeep
<1>3. CASE Preprocess
  <2>1. UNCHANGED <<history, turn, asOf, lost, db, graph>> /\ stage' \in {"convert", "failed"}
        /\ stage = "collect" /\ turn = Len(Order)
    BY <1>3 DEF Preprocess
  <2>2. GraphInv'
    BY <1>1, <2>1 DEF Inv, GraphInv
  <2>3. QED
    BY <1>1, <2>1, <2>2, UnchangedTablesKeep
<1>4. CASE Convert
  <2>1. UNCHANGED <<history, turn, asOf, lost, db>> /\ stage' \in {"done", "failed"}
        /\ stage = "convert" /\ graph' = AllEdges
    BY <1>4 DEF Convert
  <2>2. AllEdges' = AllEdges
    BY <2>1, EdgesStay
  <2>3. GraphInv'
    BY <1>1, <2>1, <2>2 DEF Inv, GraphInv
  <2>4. QED
    BY <1>1, <2>1, <2>3, UnchangedTablesKeep
<1>5. CASE UNCHANGED vars
  <2>1. UNCHANGED <<history, turn, asOf, lost, db>> /\ UNCHANGED <<stage, graph>>
    BY <1>5 DEF vars
  <2>2. AllEdges' = AllEdges
    BY <2>1, EdgesStay
  <2>3. GraphInv'
    BY <1>1, <2>1, <2>2 DEF Inv, GraphInv
  <2>4. QED
    BY <1>1, <2>1, <2>3, UnchangedTablesKeep
<1>6. QED
  BY <1>1, <1>2, <1>3, <1>4, <1>5, UsersKeep, GroupsKeep, ApplicationsKeep,
     ApplicationUsersKeep, MappingsKeep, IdentityProvidersKeep, IdpUsersKeep
     DEF Next, Ended

LEMMA InvHolds == Spec => []Inv
<1>1. Init => Inv
  BY InvInit
<1>2. Inv /\ [Next]_vars => Inv'
  BY InvNext
<1>3. QED
  BY <1>1, <1>2, PTL DEF Spec

-----------------------------------------------------------------------------
(* The rules of the service providers. *)

\* A rule is made only of a policy that compares a whole field with the login.
LEMMA RulesAreExact ==
  ASSUME NEW idp, NEW rule \in AccountResolutionRuleRows(idp)
  PROVE  /\ IsExactLoginMatch(idp.policy)
         /\ \/ rule.assertionField = "email" /\ idp.policy.template = <<"idpuser", "email">>
            \/ rule.assertionField = "scoped" /\ idp.policy.template # <<"idpuser", "email">>
<1> DEFINE template == idp.policy.template
<1>1. ResolvingField(idp) # NoField /\ rule.assertionField = ResolvingField(idp)
  BY DEF AccountResolutionRuleRows
<1>2. IsExactLoginMatch(idp.policy) /\ ResolvingField(idp) = TemplateField(template)
  BY <1>1 DEF ResolvingField
<1>3. \/ TemplateField(template) = "email" /\ template = <<"idpuser", "email">>
      \/ TemplateField(template) = "scoped" /\ template # <<"idpuser", "email">>
  <2>1. CASE template = <<"idpuser", "email">>
    <3>1. template \notin {<<"idpuser", "subjectNameId">>, <<"saml", "subjectNameId">>}
      BY <2>1
    <3>2. QED
      BY <2>1, <3>1 DEF TemplateField
  <2>2. CASE template # <<"idpuser", "email">>
    <3>1. TemplateField(template) \in {"scoped", NoField}
      BY <2>2 DEF TemplateField
    <3>2. QED
      BY <1>1, <1>2, <2>2, <3>1
  <2>3. QED
    BY <2>1, <2>2
<1>4. QED
  BY <1>1, <1>2, <1>3

LEMMA RulesResolve ==
  ASSUME NEW idp, NEW rule \in AccountResolutionRuleRows(idp)
  PROVE  ResolvesAsOkta(rule, idp.policy)
<1>1. SUFFICES ASSUME NEW assertion \in Assertions, NEW user \in db["users"],
                      assertion[rule.assertionField] \in Logins(user)
               PROVE  SurelyResolves(idp.policy, assertion, user)
  BY DEF ResolvesAsOkta
<1>2. /\ IsExactLoginMatch(idp.policy)
      /\ \/ rule.assertionField = "email" /\ idp.policy.template = <<"idpuser", "email">>
         \/ rule.assertionField = "scoped" /\ idp.policy.template # <<"idpuser", "email">>
  BY RulesAreExact
<1>3. PolicyName(idp.policy, assertion) = assertion[rule.assertionField]
  BY <1>2 DEF PolicyName
<1>4. QED
  BY <1>1, <1>2, <1>3 DEF SurelyResolves, IsExactLoginMatch

-----------------------------------------------------------------------------
(* Where the edges that carry evidence come from. *)

EvidenceKinds == {"SAML_ELIGIBLE_FOR", "SAML_HAS_ACCOUNT"}

LEMMA EdgeIs ==
  \A kind, start, end, data :
    LET e == EdgeWith(kind, start, end, data)
    IN e.kind = kind /\ e.start = start /\ e.end = end /\ e.data = data
BY DEF EdgeWith

LEMMA PlainEdgeIs ==
  \A kind, start, end :
    LET e == Edge(kind, start, end)
    IN e.kind = kind /\ e.start = start /\ e.end = end
BY DEF Edge, EdgeWith

LEMMA ApplicationKinds ==
  ASSUME NEW app, NEW e \in ApplicationEdges(app)
  PROVE  e.kind \notin EvidenceKinds
<1>1. CASE e \in Contained(app.id)
  BY <1>1, PlainEdgeIs DEF Contained, EvidenceKinds
<1>2. CASE e \in {Edge(x[1], Node(app.id), x[2]) :
                    x \in ApplicationSignOnKinds(app) \X OutboundTrustTargets(app)}
  <2>1. PICK x \in ApplicationSignOnKinds(app) \X OutboundTrustTargets(app) :
          e = Edge(x[1], Node(app.id), x[2])
    BY <1>2
  <2>2. e.kind \in ApplicationSignOnKinds(app)
    BY <2>1, PlainEdgeIs
  <2>3. QED
    BY <2>2 DEF ApplicationSignOnKinds, EvidenceKinds
<1>3. QED
  BY <1>1, <1>2 DEF ApplicationEdges

LEMMA ProviderKinds ==
  ASSUME NEW p, NEW e \in FederationProviderEdges(p)
  PROVE  e.kind \notin EvidenceKinds
BY PlainEdgeIs DEF FederationProviderEdges, EvidenceKinds

LEMMA ApplicationUserKinds ==
  ASSUME NEW u, NEW e \in ApplicationUserEdges(u), e.kind \in EvidenceKinds
  PROVE  e \in AssertionEdges(u)
<1>1. e \notin AssignmentEdges(u)
  BY PlainEdgeIs DEF AssignmentEdges, When, EvidenceKinds
<1>2. e \notin PushPullEdges(u)
  BY PlainEdgeIs DEF PushPullEdges, When, EvidenceKinds
<1>3. e \notin AdSyncEdges(u)
  BY PlainEdgeIs DEF AdSyncEdges, When, EvidenceKinds
<1>4. e \notin Org2OrgEdges(u)
  BY PlainEdgeIs DEF Org2OrgEdges, When, EvidenceKinds
<1>5. e \notin HybridSignOnEdges(u)
  <2>1. SUFFICES ASSUME e \in HybridSignOnEdges(u) PROVE FALSE
    OBVIOUS
  <2>2. PICK x \in UserSignOnKinds(u.app.mode)
                     \X HybridUserTargets(u.app, TextOf(u.username), u.externalId) :
          e = Edge(x[1], Node(u.id), x[2])
    BY <2>1 DEF HybridSignOnEdges
  <2>3. e.kind \in UserSignOnKinds(u.app.mode)
    BY <2>2, PlainEdgeIs
  <2>4. UserSignOnKinds(u.app.mode) \subseteq {"OUTBOUND_SSO", "SWA"}
    BY DEF UserSignOnKinds, SsoSignOnModes, SamlSignOnModes, SwaSignOnModes
  <2>5. QED
    BY <2>3, <2>4 DEF EvidenceKinds
<1>6. QED
  BY <1>1, <1>2, <1>3, <1>4, <1>5 DEF ApplicationUserEdges

LEMMA GroupKinds ==
  ASSUME NEW g, NEW e \in GroupEdges(g) \cup GroupMappingEdges(g)
  PROVE  e.kind \notin EvidenceKinds
<1>1. CASE e \in GroupEdges(g)
  BY <1>1, PlainEdgeIs DEF GroupEdges, Contained, When, EvidenceKinds
<1>2. CASE e \in GroupMappingEdges(g)
  BY <1>2, PlainEdgeIs DEF GroupMappingEdges, When, EvidenceKinds
<1>3. QED
  BY <1>1, <1>2

LEMMA IdentityProviderKinds ==
  ASSUME NEW idp, NEW e \in IdentityProviderEdges(idp)
  PROVE  e.kind \notin EvidenceKinds
BY PlainEdgeIs DEF IdentityProviderEdges, Contained, When, EvidenceKinds

LEMMA IdpUserKinds ==
  ASSUME NEW u, NEW e \in IdpUserEdges(u), e.kind \in EvidenceKinds
  PROVE  e \in LinkedAccountEdges(u)
<1>1. e \notin InboundSsoEdges(u)
  <2>1. ASSUME NEW v \in u.msObjectId, NEW node,
               e = Edge("INBOUND_SSO", node, Node(u.id))
        PROVE  FALSE
    BY <2>1, PlainEdgeIs DEF EvidenceKinds
  <2>2. QED
    BY <2>1, Zenon DEF InboundSsoEdges, When
<1>2. e # Edge("IDENTITY_PROVIDER_FOR", Node(u.idp), Node(u.id))
  BY PlainEdgeIs DEF EvidenceKinds
<1>3. QED
  BY <1>1, <1>2 DEF IdpUserEdges

LEMMA ServiceProviderKinds ==
  ASSUME NEW p, NEW e \in ServiceProviderEdges(p), e.kind \in EvidenceKinds
  PROVE  ~ServiceProviderRaises(p) /\ e \in AccountEdges(p)
<1>1. e \notin ServiceProviderRoutes(p)
  BY PlainEdgeIs DEF ServiceProviderRoutes, EvidenceKinds
<1>2. QED
  BY <1>1 DEF ServiceProviderEdges, When

LEMMA RuleKinds ==
  ASSUME NEW r, NEW e \in RuleEdges(r)
  PROVE  e.kind \notin EvidenceKinds
BY PlainEdgeIs DEF RuleEdges, EvidenceKinds

LEMMA EvidenceIsFrom ==
  ASSUME NEW e \in AllEdges, e.kind \in EvidenceKinds
  PROVE  \/ \E u \in db["application_users"] : e \in AssertionEdges(u)
         \/ \E u \in db["identity_provider_users"] : e \in LinkedAccountEdges(u)
         \/ \E p \in ServiceProviders : e \in AccountEdges(p)
<1>1. CASE e \in RowsFrom("applications", ApplicationEdges)
  BY <1>1, ApplicationKinds DEF RowsFrom
<1>2. CASE e \in RowsFrom("application_users", ApplicationUserEdges)
  BY <1>2, ApplicationUserKinds DEF RowsFrom
<1>3. CASE e \in RowsFrom("groups", GroupEdges)
  BY <1>3, GroupKinds DEF RowsFrom
<1>4. CASE e \in RowsFrom("application_group_push_mappings", GroupMappingEdges)
  BY <1>4, GroupKinds DEF RowsFrom
<1>5. CASE e \in RowsFrom("identity_providers", IdentityProviderEdges)
  BY <1>5, IdentityProviderKinds DEF RowsFrom
<1>6. CASE e \in RowsFrom("identity_provider_users", IdpUserEdges)
  BY <1>6, IdpUserKinds DEF RowsFrom
<1>7. CASE e \in UNION {FederationProviderEdges(p) : p \in FederationProviders}
  BY <1>7, ProviderKinds
<1>8. CASE e \in UNION {ServiceProviderEdges(p) : p \in ServiceProviders}
  BY <1>8, ServiceProviderKinds
<1>9. CASE e \in UNION {RuleEdges(r) : r \in Rules}
  BY <1>9, RuleKinds
<1>10. QED
  BY <1>1, <1>2, <1>3, <1>4, <1>5, <1>6, <1>7, <1>8, <1>9 DEF AllEdges

-----------------------------------------------------------------------------
(* What the collected profiles tell of the values of an assertion. *)

LEMMA SeenAreOrgs == Inv => SeenVersions \subseteq Orgs
BY DEF Inv, HistoryInv, SeenVersions, Orgs

\* A profile of which a part, or everything, may be missing.
LEMMA TrimmedAttribute ==
  ASSUME NEW profile, NEW k
  PROVE  Attribute(Trimmed(profile), k) \in {Attribute(profile, k), {}}
BY DEF Trimmed, Attribute

LEMMA ToldOrNothing ==
  ASSUME NEW expression, NEW u, NEW x, NEW known, NEW whole,
         u.username = x.username, u.profile = Trimmed(x.profile),
         known = whole \/ DOMAIN known = {}
  PROVE  DirectValues(expression, u, known)
           \in {DirectValues(expression, x, whole), {}}
<1>1. \A k : Attribute(u.profile, k) \in {Attribute(x.profile, k), {}}
  BY TrimmedAttribute
<1>2. \A k : Attribute(known, k) \in {Attribute(whole, k), {}}
  BY DEF Attribute
<1>3. QED
  BY <1>1, <1>2, Zenon DEF DirectValues

\* The row of an application is the only one with its id.
LEMMA MappingsAreThoseOfTheRow ==
  ASSUME Inv, NEW a \in db["applications"]
  PROVE  ClaimMappingsOf(a.id) = SamlClaimMappingRows(a)
<1>1. RowsOf("applications", a.id) = {a}
  BY DEF RowsOf, Inv, TablesAreListed, AppsAreUnique
<1>2. QED
  BY <1>1 DEF ClaimMappingsOf

LEMMA EvidenceIs ==
  ASSUME NEW u, NEW rows, NEW source, NEW f \in CommonFields
  PROVE  LET values(row) == DirectValues(row.mapping.expression, u, source)
             told == {row \in rows : ClaimFamily(row.mapping) = f}
             evidence == AssertionEvidence(u, rows, source)
         IN /\ UNION {Canonical(f, values(row)) : row \in told} \subseteq evidence.fields[f]
            /\ evidence.fields[f]
                 \subseteq (UNION {Canonical(f, values(row)) : row \in told})
                   \cup IF f = "email"
                          THEN UNION {LoginAddresses(row.mapping, values(row)) : row \in rows}
                          ELSE {}
            /\ f \notin evidence.incomplete =>
                 \A row \in told : ~IsIncomplete(row.mapping, values(row))
<1> DEFINE values(row) == DirectValues(row.mapping.expression, u, source)
           family(row) == ClaimFamily(row.mapping)
           common == {row \in rows : family(row) \in CommonFields}
           raw == {row \in rows : family(row) = "raw_name_id" /\ values(row) # {}}
           told(g) == {row \in common : family(row) = g}
           addresses ==
             UNION {LoginAddresses(row.mapping, values(row)) : row \in common \cup raw}
           evidence == AssertionEvidence(u, rows, source)
<1>1. /\ evidence.fields =
            [g \in CommonFields |->
               (IF g = "email" THEN addresses ELSE {})
                 \cup UNION {Canonical(g, values(row)) : row \in told(g)}]
      /\ evidence.incomplete =
            IF rows = {} THEN CommonFields
            ELSE {g \in CommonFields :
                    \E row \in told(g) : IsIncomplete(row.mapping, values(row))}
  BY DEF AssertionEvidence
<1>2. told(f) = {row \in rows : ClaimFamily(row.mapping) = f}
  OBVIOUS
<1>3. addresses \subseteq UNION {LoginAddresses(row.mapping, values(row)) : row \in rows}
  OBVIOUS
<1>4. evidence.fields[f] = (IF f = "email" THEN addresses ELSE {})
                             \cup UNION {Canonical(f, values(row)) : row \in told(f)}
  BY <1>1
<1>5. f \notin evidence.incomplete =>
        \A row \in told(f) : ~IsIncomplete(row.mapping, values(row))
  BY <1>1, Zenon
<1> HIDE DEF told, addresses, values, evidence
<1>6. /\ UNION {Canonical(f, values(row)) : row \in told(f)} \subseteq evidence.fields[f]
      /\ evidence.fields[f]
           \subseteq (UNION {Canonical(f, values(row)) : row \in told(f)})
             \cup IF f = "email"
                    THEN UNION {LoginAddresses(row.mapping, values(row)) : row \in rows}
                    ELSE {}
  <2> DEFINE direct == UNION {Canonical(f, values(row)) : row \in told(f)}
             all == UNION {LoginAddresses(row.mapping, values(row)) : row \in rows}
  <2> HIDE DEF direct, all
  <2>1. evidence.fields[f] = (IF f = "email" THEN addresses ELSE {}) \cup direct
    BY <1>4 DEF direct
  <2>2. addresses \subseteq all
    BY <1>3 DEF all
  <2>3. direct \subseteq evidence.fields[f]
        /\ evidence.fields[f] \subseteq direct \cup IF f = "email" THEN all ELSE {}
    BY <2>1, <2>2
  <2>4. QED
    BY <2>3 DEF direct, all
<1>7. QED
  BY <1>2, <1>5, <1>6 DEF values, evidence

LEMMA EligibleIsFrom ==
  ASSUME Inv, NEW e \in Within("SAML_ELIGIBLE_FOR")
  PROVE  /\ turn > 0
         /\ \E u \in db["application_users"] :
              /\ IsEligible(u)
              /\ e.start = Node(u.id) /\ e.end = SamlProviderId(u.app.id)
              /\ e.data.fields = Evidence(u).fields
              /\ e.data.incomplete = Evidence(u).incomplete
<1>1. e \in graph /\ e.kind = "SAML_ELIGIBLE_FOR"
  BY DEF Within
<1>2. e \in AllEdges /\ turn > 0
  BY <1>1, OrderIs DEF Inv, GraphInv
<1>3. e.kind \in EvidenceKinds
  BY <1>1 DEF EvidenceKinds
<1>a. \A s, t, d : /\ e # EdgeWith("SAML_HAS_ACCOUNT", s, t, d)
                  /\ e # EdgeWith("SAML_HAS_VALUE", s, t, d)
  BY <1>1, EdgeIs
<1>4. \A u : e \notin LinkedAccountEdges(u)
  BY <1>a, Zenon DEF LinkedAccountEdges, When
<1>5. \A p : e \notin AccountEdges(p)
  BY <1>a, Zenon DEF AccountEdges
<1>6. PICK u \in db["application_users"] : e \in AssertionEdges(u)
  BY <1>2, <1>3, <1>4, <1>5, EvidenceIsFrom
<1> DEFINE data == [match |-> Evidence(u).match, fields |-> Evidence(u).fields,
                    incomplete |-> Evidence(u).incomplete]
<1>7. IsEligible(u)
  BY <1>6 DEF AssertionEdges, When
<1>8. \A c : e # EdgeWith("SAML_HAS_CLAIM_VALUE", Node(u.id), c.mapping, c)
  BY <1>1, EdgeIs
<1>9. e = EdgeWith("SAML_ELIGIBLE_FOR", Node(u.id), SamlProviderId(u.app.id), data)
  BY <1>6, <1>7, <1>8, Zenon DEF AssertionEdges, When
<1>10. e.start = Node(u.id) /\ e.end = SamlProviderId(u.app.id) /\ e.data = data
  BY <1>9, EdgeIs
<1>11. QED
  BY <1>2, <1>7, <1>10

LEMMA RowIsFrom ==
  ASSUME Inv, NEW u \in db["application_users"]
  PROVE  \E v \in SeenVersions : \E x \in v.assignments :
           /\ u.app \in db["applications"] /\ x.app = u.app.id /\ u.id = x.id
           /\ u.username = x.username /\ u.profile = Trimmed(x.profile)
<1>1. PICK a \in db["applications"] : IsSeenRow(u, a)
  BY DEF Inv, TablesAreListed, AssignmentsAreSeen
<1>2. PICK v \in SeenVersions : u \in ApplicationUserRows(a, v)
  BY <1>1 DEF IsSeenRow
<1>3. PICK x \in v.assignments :
        /\ x.app = a.id
        /\ u = [id |-> x.id, app |-> a, scope |-> x.scope, status |-> x.status,
                syncState |-> x.syncState, username |-> x.username,
                externalId |-> x.externalId, profile |-> Trimmed(x.profile)]
  BY <1>2 DEF ApplicationUserRows
<1>4. /\ u.app = a /\ u.id = x.id /\ u.username = x.username
      /\ u.profile = Trimmed(x.profile)
  BY <1>3
<1>5. QED
  BY <1>3, <1>4

\* The user whose profile is known, or one who is not in the table.
LEMMA SourceIs ==
  ASSUME Inv, NEW id, \E v \in SeenVersions : \E x \in v.assignments : x.id = id
  PROVE  \E v \in SeenVersions : \E w \in v.users :
           /\ w.id = id
           /\ SourceUser(id).profile = w.profile \/ DOMAIN SourceUser(id).profile = {}
<1>1. CASE RowsOf("users", id) = {}
  <2>1. SourceUser(id) = UnknownUser
    BY <1>1 DEF SourceUser
  <2>2. DOMAIN SourceUser(id).profile = {}
    BY <2>1 DEF UnknownUser
  <2>3. PICK v \in SeenVersions : \E x \in v.assignments : x.id = id
    OBVIOUS
  <2>4. \E w \in v.users : w.id = id
    BY <2>3, SeenAreOrgs, OrgsAssumption
  <2>5. QED
    BY <2>2, <2>4
<1>2. CASE RowsOf("users", id) # {}
  <2>1. SourceUser(id) \in RowsOf("users", id)
    BY <1>2 DEF SourceUser
  <2>2. SourceUser(id) \in db["users"] /\ SourceUser(id).id = id
    BY <2>1 DEF RowsOf
  <2>3. PICK v \in SeenVersions : db["users"] \subseteq v.users
    BY DEF Inv, TablesAreListed, UsersAreListed
  <2>4. QED
    BY <2>2, <2>3
<1>3. QED
  BY <1>1, <1>2

\* A field that is not marked incomplete is told from the whole profiles.
LEMMA FieldIsComplete ==
  ASSUME NEW e, NEW u, NEW x, NEW w, NEW source, NEW f \in CommonFields,
         u.username = x.username, u.profile = Trimmed(x.profile),
         source = w.profile \/ DOMAIN source = {},
         NEW a, NEW evidence,
         evidence = AssertionEvidence(u, SamlClaimMappingRows(a), source),
         e.data.fields = evidence.fields, f \notin evidence.incomplete
  PROVE  IsComplete(f, e, a, x, w)
<1> DEFINE rows == SamlClaimMappingRows(a)
           values(row) == DirectValues(row.mapping.expression, u, source)
           whole(m) == DirectValues(m.expression, x, w.profile)
           told == {row \in rows : ClaimFamily(row.mapping) = f}
           all == UNION {Canonical(f, whole(m)) : m \in MappingsTo(f, a)}
           addresses == UNION {LoginAddresses(row.mapping, whole(row.mapping)) : row \in rows}
<1>1. /\ UNION {Canonical(f, values(row)) : row \in told} \subseteq e.data.fields[f]
      /\ e.data.fields[f]
           \subseteq (UNION {Canonical(f, values(row)) : row \in told})
             \cup IF f = "email"
                    THEN UNION {LoginAddresses(row.mapping, values(row)) : row \in rows}
                    ELSE {}
      /\ \A row \in told : ~IsIncomplete(row.mapping, values(row))
  BY EvidenceIs
<1>2. \A row \in rows : values(row) \in {whole(row.mapping), {}}
  BY ToldOrNothing
<1>3. \A row \in told : IsDirect(row.mapping.expression) /\ values(row) # {}
  BY <1>1, Zenon DEF IsIncomplete
<1>4. \A row \in told : values(row) = whole(row.mapping)
  BY <1>2, <1>3
<1>5. MappingsTo(f, a) = {row.mapping : row \in told}
  BY DEF MappingsTo
<1>6. \A m \in MappingsTo(f, a) : IsDirect(m.expression)
  BY <1>3, <1>5
<1>7. \A m \in MappingsTo(f, a) : f = "entra" => "" \notin {v.uuid : v \in whole(m)}
  <2>1. SUFFICES ASSUME NEW row \in told, f = "entra"
                 PROVE  "" \notin {v.uuid : v \in whole(row.mapping)}
    BY <1>5, Zenon
  <2>2. ClaimFamily(row.mapping) = "entra"
    BY <2>1
  <2>3. ~\E v \in values(row) : v.uuid = ""
    BY <1>1, <2>2, Zenon DEF IsIncomplete
  <2>4. QED
    BY <1>4, <2>3, Zenon
<1>8. all = UNION {Canonical(f, values(row)) : row \in told}
  <2>1. all = UNION {Canonical(f, whole(row.mapping)) : row \in told}
    BY <1>5
  <2>2. QED
    BY <1>4, <2>1
<1>9. UNION {LoginAddresses(row.mapping, values(row)) : row \in rows} \subseteq addresses
  <2>1. SUFFICES ASSUME NEW row \in rows
                 PROVE  LoginAddresses(row.mapping, values(row))
                          \subseteq LoginAddresses(row.mapping, whole(row.mapping))
    OBVIOUS
  <2>2. CASE values(row) = {}
    BY <2>2 DEF LoginAddresses
  <2>3. CASE values(row) = whole(row.mapping)
    BY <2>3
  <2>4. QED
    BY <1>2, <2>2, <2>3
<1>10. addresses = Addresses(a, x, w)
  BY DEF Addresses, Told
<1>11. all \subseteq e.data.fields[f]
       /\ e.data.fields[f] \subseteq all \cup IF f = "email" THEN addresses ELSE {}
  <2> DEFINE partial == UNION {LoginAddresses(row.mapping, values(row)) : row \in rows}
  <2> HIDE DEF all, addresses, partial
  <2>1. e.data.fields[f] \subseteq all \cup IF f = "email" THEN partial ELSE {}
    BY <1>1, <1>8 DEF partial
  <2>2. partial \subseteq addresses
    BY <1>9 DEF partial
  <2>3. QED
    BY <1>1, <1>8, <2>1, <2>2
<1>12. QED
  BY <1>6, <1>7, <1>10, <1>11, Zenon DEF IsComplete, Told

\* Nobody is eligible whom Okta keeps out all the time.
LEMMA EligibleAreIn ==
  ASSUME Inv, turn > 0, NEW u, IsEligible(u), "users" \notin lost
  PROVE  \E v \in SeenVersions : \A w \in v.users : w.id = u.id => w.status \notin KeptOut
<1>1. PICK v \in SeenVersions : db["users"] = v.users
  BY DEF Inv, TablesAreListed, UsersAreListed
<1>2. v \in Orgs
  BY SeenAreOrgs
<1>3. ASSUME NEW w \in v.users, w.id = u.id
      PROVE  w.status \notin KeptOut
  <2>1. \A r \in v.users : r.id = u.id => r = w
    BY <1>2, <1>3, OrgsAssumption
  <2>2. RowsOf("users", u.id) = {w}
    BY <1>1, <1>3, <2>1 DEF RowsOf
  <2>3. SourceUser(u.id) = w
    BY <2>2 DEF SourceUser
  <2>4. QED
    BY <2>3 DEF IsEligible, KeptOut
<1>4. QED
  BY <1>3

\* Whatever is lost, and however the org changes, a field that is not marked
\* incomplete is what Okta asserts of the user (saml_application_assertion_evidence).
THEOREM EvidenceIsHonest == Spec => []AssertionsAreHonest
<1>1. ASSUME Inv, NEW e \in Within("SAML_ELIGIBLE_FOR")
      PROVE  LET app == CHOOSE a \in db["applications"] : a.id = e.end[2]
                 users == {u \in UNION {v.users : v \in SeenVersions} : u.id = e.start[1]}
                 assignments ==
                   {x \in UNION {v.assignments : v \in SeenVersions} :
                      x.id = e.start[1] /\ x.app = app.id}
             IN /\ \E x \in assignments, u \in users :
                     \A f \in CommonFields \ e.data.incomplete : IsComplete(f, e, app, x, u)
                /\ app.status \in {"ACTIVE", Unstated}
                /\ "users" \notin lost =>
                     \E v \in SeenVersions : \A u \in v.users :
                       u.id = e.start[1] => u.status \notin KeptOut
  <2> DEFINE app == CHOOSE a \in db["applications"] : a.id = e.end[2]
             users == {u \in UNION {v.users : v \in SeenVersions} : u.id = e.start[1]}
             assignments ==
               {x \in UNION {v.assignments : v \in SeenVersions} :
                  x.id = e.start[1] /\ x.app = app.id}
  <2>1. turn > 0
    BY <1>1, EligibleIsFrom
  <2>2. PICK u \in db["application_users"] :
          /\ IsEligible(u)
          /\ e.start = Node(u.id) /\ e.end = SamlProviderId(u.app.id)
          /\ e.data.fields = Evidence(u).fields
          /\ e.data.incomplete = Evidence(u).incomplete
    BY <1>1, EligibleIsFrom
  <2>3. PICK v \in SeenVersions : \E x \in v.assignments :
          /\ u.app \in db["applications"] /\ x.app = u.app.id /\ u.id = x.id
          /\ u.username = x.username /\ u.profile = Trimmed(x.profile)
    BY <1>1, <2>2, RowIsFrom
  <2>4. PICK x \in v.assignments :
          /\ u.app \in db["applications"] /\ x.app = u.app.id /\ u.id = x.id
          /\ u.username = x.username /\ u.profile = Trimmed(x.profile)
    BY <2>3
  <2>5. e.start[1] = u.id /\ e.end[2] = u.app.id
    BY <2>2 DEF Node, SamlProviderId
  <2>6. app = u.app
    BY <1>1, <2>4, <2>5 DEF Inv, TablesAreListed, AppsAreUnique
  <2>7. PICK s \in SeenVersions : \E w \in s.users :
          /\ w.id = u.id
          /\ SourceUser(u.id).profile = w.profile \/ DOMAIN SourceUser(u.id).profile = {}
    BY <1>1, <2>3, <2>4, SourceIs
  <2>8. PICK w \in s.users :
          /\ w.id = u.id
          /\ SourceUser(u.id).profile = w.profile \/ DOMAIN SourceUser(u.id).profile = {}
    BY <2>7
  <2>9. Evidence(u)
          = AssertionEvidence(u, SamlClaimMappingRows(app), SourceUser(u.id).profile)
    BY <1>1, <2>4, <2>6, MappingsAreThoseOfTheRow DEF Evidence
  <2>10. \A f \in CommonFields \ e.data.incomplete : IsComplete(f, e, app, x, w)
    <3>1. SUFFICES ASSUME NEW f \in CommonFields, f \notin e.data.incomplete
                   PROVE  IsComplete(f, e, app, x, w)
      OBVIOUS
    <3>2. f \notin Evidence(u).incomplete
      BY <2>2, <3>1
    <3>3. QED
      BY <2>2, <2>4, <2>8, <2>9, <3>2, FieldIsComplete
  <2>11. x \in assignments /\ w \in users
    BY <2>3, <2>4, <2>5, <2>6, <2>7, <2>8
  <2>12. app.status \in {"ACTIVE", Unstated}
    BY <2>2, <2>6 DEF IsEligible
  <2>13. "users" \notin lost =>
           \E t \in SeenVersions : \A z \in t.users :
             z.id = e.start[1] => z.status \notin KeptOut
    BY <1>1, <2>1, <2>2, <2>5, EligibleAreIn
  <2> HIDE DEF app, users, assignments
  <2>14. /\ \E y \in assignments, z \in users :
             \A f \in CommonFields \ e.data.incomplete : IsComplete(f, e, app, y, z)
         /\ app.status \in {"ACTIVE", Unstated}
         /\ "users" \notin lost =>
              \E t \in SeenVersions : \A z \in t.users :
                z.id = e.start[1] => z.status \notin KeptOut
    BY <2>10, <2>11, <2>12, <2>13, Zenon
  <2>15. QED
    BY <2>14, Zenon DEF app, users, assignments
<1>2. Inv => AssertionsAreHonest
  BY <1>1, Zenon DEF AssertionsAreHonest
<1>3. QED
  BY <1>2, InvHolds, PTL

-----------------------------------------------------------------------------
(* Functions that are defined by recursion over the places of a sequence. *)

Less == OpToRel(<, Nat)

LEMMA LessIs == \A x, y \in Nat : <<x, y>> \in Less <=> x < y
BY DEF Less, OpToRel

\* Every set of natural numbers that has an element has a least one.
LEMMA Least ==
  ASSUME NEW S \in SUBSET Nat, S # {}
  PROVE  \E x \in S : \A y \in S : x <= y
<1>1. IsWellFoundedOn(Less, Nat)
  BY NatLessThanWellFounded DEF Less, OpToRel
<1>2. PICK x \in S : \A y \in S : ~(<<y, x>> \in Less)
  BY <1>1, WFMin
<1>3. \A y \in S : ~(y < x)
  BY <1>2, LessIs
<1>4. QED
  BY <1>3

LEMMA Induct ==
  ASSUME NEW S \in SUBSET Nat, 0 \in S, \A n \in S : n + 1 \in S
  PROVE  S = Nat
<1>1. SUFFICES ASSUME Nat \ S # {} PROVE FALSE
  OBVIOUS
<1>2. PICK m \in Nat \ S : \A n \in Nat \ S : m <= n
  BY <1>1, Least
<1>3. m # 0 /\ m - 1 \in Nat
  BY <1>2
<1>4. m - 1 \in S
  BY <1>2, <1>3
<1>5. QED
  BY <1>2, <1>4

Steps(N, S) == [1 .. N -> [S -> S]]

\* A function that is defined by recursion over the places of a sequence.
LEMMA RecursionExists ==
  ASSUME NEW N \in Nat, NEW S, NEW b \in S, NEW F \in Steps(N, S)
  PROVE  \E g \in [0 .. N -> S] :
           g[0] = b /\ \A n \in 1 .. N : g[n] = F[n][g[n - 1]]
<1> DEFINE Is(g, k) == g[0] = b /\ \A n \in 1 .. k : g[n] = F[n][g[n - 1]]
           Ks == {k \in Nat : k <= N => \E g \in [0 .. k -> S] : Is(g, k)}
<1> HIDE DEF Is
<1>1. 0 \in Ks
  <2> DEFINE g == [n \in 0 .. 0 |-> b]
  <2>1. g \in [0 .. 0 -> S] /\ Is(g, 0)
    BY DEF Is
  <2>2. QED
    BY <2>1
<1>2. ASSUME NEW k \in Ks
      PROVE  k + 1 \in Ks
  <2>1. SUFFICES ASSUME k + 1 <= N
                 PROVE  \E h \in [0 .. k + 1 -> S] : Is(h, k + 1)
    OBVIOUS
  <2>2. PICK g \in [0 .. k -> S] : Is(g, k)
    BY <2>1
  <2> DEFINE h == [n \in 0 .. k + 1 |-> IF n <= k THEN g[n] ELSE F[k + 1][g[k]]]
  <2>3. g[k] \in S /\ F[k + 1] \in [S -> S]
    BY <2>1 DEF Steps
  <2>4. h \in [0 .. k + 1 -> S]
    BY <2>3
  <2>5. ASSUME NEW n \in 1 .. k + 1
        PROVE  h[n] = F[n][h[n - 1]]
    <3>1. CASE n <= k
      <4>1. g[n] = F[n][g[n - 1]]
        BY <2>2, <3>1 DEF Is
      <4>2. h[n] = g[n] /\ h[n - 1] = g[n - 1]
        BY <3>1
      <4>3. QED
        BY <4>1, <4>2
    <3>2. CASE n = k + 1
      BY <3>2
    <3>3. QED
      BY <3>1, <3>2
  <2>6. Is(h, k + 1)
    <3>1. h[0] = b
      BY <2>2 DEF Is
    <3> HIDE DEF h
    <3>2. QED
      BY <2>5, <3>1 DEF Is
  <2>7. QED
    <3> HIDE DEF h
    <3>1. QED
      BY <2>4, <2>6
<1>3. Ks = Nat
  <2> HIDE DEF Ks
  <2>1. Ks \in SUBSET Nat
    BY DEF Ks
  <2>2. QED
    BY <1>1, <1>2, <2>1, Induct
<1>4. QED
  BY <1>3 DEF Is

\* Such a function has its values in a set that the steps do not leave.
LEMMA StepsStay ==
  ASSUME NEW N \in Nat, NEW S, NEW f, f[0] \in S,
         \A n \in 1 .. N : f[n - 1] \in S => f[n] \in S
  PROVE  \A n \in 0 .. N : f[n] \in S
<1> DEFINE Ks == {k \in Nat : k <= N => f[k] \in S}
<1>1. 0 \in Ks
  OBVIOUS
<1>2. ASSUME NEW k \in Ks PROVE k + 1 \in Ks
  <2>1. k + 1 - 1 = k
    OBVIOUS
  <2>2. QED
    BY <2>1
<1>3. Ks = Nat
  <2> HIDE DEF Ks
  <2>1. Ks \in SUBSET Nat
    BY DEF Ks
  <2>2. QED
    BY <1>1, <1>2, <2>1, Induct
<1>4. QED
  BY <1>3

LEMMA DistinctIs ==
  ASSUME NEW T, NEW s \in Seq(T)
  PROVE  Distinct(s) \in Seq(T)
<1> DEFINE N == Len(s)
           Step(q, x) == IF Contains(q, x) THEN q ELSE Append(q, x)
           F == [n \in 1 .. N |-> [q \in Seq(T) |-> Step(q, s[n])]]
           Is(g) == g = [n \in 0 .. N |->
                           IF n = 0 THEN <<>>
                           ELSE IF Contains(g[n - 1], s[n]) THEN g[n - 1]
                           ELSE Append(g[n - 1], s[n])]
           f == CHOOSE g : Is(g)
<1>1. N \in Nat /\ \A n \in 1 .. N : s[n] \in T
  OBVIOUS
<1>2. F \in [1 .. N -> [Seq(T) -> Seq(T)]]
  BY <1>1
<1>3. \E g : Is(g)
  <2>1. PICK g \in [0 .. N -> Seq(T)] :
          g[0] = <<>> /\ \A n \in 1 .. N : g[n] = F[n][g[n - 1]]
    <3> HIDE DEF F, N
    <3> DEFINE b == <<>>
               Qs == Seq(T)
    <3>1. b \in Qs /\ F \in Steps(N, Qs)
      BY <1>2 DEF Steps
    <3>2. \E g \in [0 .. N -> Qs] :
            g[0] = b /\ \A n \in 1 .. N : g[n] = F[n][g[n - 1]]
      <4> HIDE DEF b, Qs, F, Step
      <4>1. QED
        BY <1>1, <3>1, RecursionExists, SMTT(30)
    <3>3. QED
      BY <3>2
  <2>2. ASSUME NEW n \in 0 .. N, n # 0
        PROVE  F[n][g[n - 1]] = Step(g[n - 1], s[n])
    <3>1. n \in 1 .. N /\ n - 1 \in 0 .. N
      BY <1>1, <2>2
    <3>2. g[n - 1] \in Seq(T)
      BY <2>1, <3>1
    <3>3. QED
      BY <3>1, <3>2
  <2>3. Is(g)
    <3> HIDE DEF F, Step
    <3>1. ASSUME NEW n \in 0 .. N, n # 0
          PROVE  g[n] = Step(g[n - 1], s[n])
      <4>1. n \in 1 .. N
        BY <1>1, <3>1
      <4>2. g[n] = F[n][g[n - 1]]
        BY <2>1, <4>1
      <4>3. QED
        BY <2>2, <3>1, <4>2
    <3> USE DEF Step
    <3>2. QED
      BY <2>1, <3>1
  <2> HIDE DEF Is
  <2>4. QED
    BY <2>3
<1>4. Is(f)
  <2> HIDE DEF Is
  <2>1. QED
    BY <1>3
<1>5. Distinct(s) = f[N]
  BY DEF Distinct
<1> HIDE DEF f
<1>6. ASSUME NEW n \in 0 .. N
      PROVE  f[n] = IF n = 0 THEN <<>> ELSE Step(f[n - 1], s[n])
  BY <1>4
<1>7. f[0] = <<>> /\ <<>> \in Seq(T)
  BY <1>1, <1>6
<1>8. ASSUME NEW n \in 1 .. N, f[n - 1] \in Seq(T)
      PROVE  f[n] \in Seq(T)
  <2>1. f[n] = Step(f[n - 1], s[n])
    BY <1>6
  <2>2. QED
    BY <1>1, <1>8, <2>1
<1> HIDE DEF Is, Step, F
<1>9. \A n \in 0 .. N : f[n] \in Seq(T)
  BY <1>1, <1>7, <1>8, StepsStay
<1>10. QED
  BY <1>1, <1>5, <1>9

LEMMA WithUrlsIs ==
  ASSUME NEW T, NEW s \in Seq(T)
  PROVE  WithUrls(s) \in Seq(T)
<1> DEFINE N == Len(s)
           Step(q, x) == IF Given(x.url) THEN Append(q, x) ELSE q
           F == [n \in 1 .. N |-> [q \in Seq(T) |-> Step(q, s[n])]]
           Is(g) == g = [n \in 0 .. N |->
                           IF n = 0 THEN <<>>
                           ELSE IF Given(s[n].url) THEN Append(g[n - 1], s[n])
                           ELSE g[n - 1]]
           f == CHOOSE g : Is(g)
<1>1. N \in Nat /\ \A n \in 1 .. N : s[n] \in T
  OBVIOUS
<1>2. F \in [1 .. N -> [Seq(T) -> Seq(T)]]
  BY <1>1
<1>3. \E g : Is(g)
  <2>1. PICK g \in [0 .. N -> Seq(T)] :
          g[0] = <<>> /\ \A n \in 1 .. N : g[n] = F[n][g[n - 1]]
    <3> HIDE DEF F, N
    <3> DEFINE b == <<>>
               Qs == Seq(T)
    <3>1. b \in Qs /\ F \in Steps(N, Qs)
      BY <1>2 DEF Steps
    <3>2. \E g \in [0 .. N -> Qs] :
            g[0] = b /\ \A n \in 1 .. N : g[n] = F[n][g[n - 1]]
      <4> HIDE DEF b, Qs, F, Step
      <4>1. QED
        BY <1>1, <3>1, RecursionExists, SMTT(30)
    <3>3. QED
      BY <3>2
  <2>2. ASSUME NEW n \in 0 .. N, n # 0
        PROVE  F[n][g[n - 1]] = Step(g[n - 1], s[n])
    <3>1. n \in 1 .. N /\ n - 1 \in 0 .. N
      BY <1>1, <2>2
    <3>2. g[n - 1] \in Seq(T)
      BY <2>1, <3>1
    <3>3. QED
      BY <3>1, <3>2
  <2>3. Is(g)
    <3> HIDE DEF F, Step
    <3>1. ASSUME NEW n \in 0 .. N, n # 0
          PROVE  g[n] = Step(g[n - 1], s[n])
      <4>1. n \in 1 .. N
        BY <1>1, <3>1
      <4>2. g[n] = F[n][g[n - 1]]
        BY <2>1, <4>1
      <4>3. QED
        BY <2>2, <3>1, <4>2
    <3> USE DEF Step
    <3>2. QED
      BY <2>1, <3>1
  <2> HIDE DEF Is
  <2>4. QED
    BY <2>3
<1>4. Is(f)
  <2> HIDE DEF Is
  <2>1. QED
    BY <1>3
<1>5. WithUrls(s) = f[N]
  BY DEF WithUrls
<1> HIDE DEF f
<1>6. ASSUME NEW n \in 0 .. N
      PROVE  f[n] = IF n = 0 THEN <<>> ELSE Step(f[n - 1], s[n])
  BY <1>4
<1>7. f[0] = <<>> /\ <<>> \in Seq(T)
  BY <1>1, <1>6
<1>8. ASSUME NEW n \in 1 .. N, f[n - 1] \in Seq(T)
      PROVE  f[n] \in Seq(T)
  <2>1. f[n] = Step(f[n - 1], s[n])
    BY <1>6
  <2>2. QED
    BY <1>1, <1>8, <2>1
<1> HIDE DEF Is, Step, F
<1>9. \A n \in 0 .. N : f[n] \in Seq(T)
  BY <1>1, <1>7, <1>8, StepsStay
<1>10. QED
  BY <1>1, <1>5, <1>9

-----------------------------------------------------------------------------
(* The rows of the routes of an application. *)

LEMMA SpanIsCounted ==
  ASSUME NEW a \in Int, NEW n \in Nat
  PROVE  IsFiniteSet(a .. a + n) /\ Cardinality(a .. a + n) = n + 1
<1>1. a + n \in Int /\ ~(a > a + n) /\ (a + n) - a + 1 = n + 1
  OBVIOUS
<1>2. QED
  BY <1>1, FS_Interval

LEMMA FreeIndexIs ==
  ASSUME NEW preferred \in Int, NEW used \in SUBSET Int, IsFiniteSet(used)
  PROVE  FreeIndex(preferred, used) \in Int \ used
<1> DEFINE c == Cardinality(used)
           I == preferred .. preferred + c
           D == {d \in Nat : preferred + d \in I \ used}
<1>1. c \in Nat
  BY FS_CardinalityType
<1>2. I \ used # {}
  <2>1. IsFiniteSet(I) /\ Cardinality(I) = c + 1
    BY <1>1, SpanIsCounted
  <2>2. I \notin SUBSET used
    BY <1>1, <2>1, FS_Subset
  <2>3. QED
    BY <2>2
<1>3. PICK i \in I : i \notin used
  BY <1>2
<1>4. i - preferred \in D
  BY <1>1, <1>3
<1>5. PICK d \in D : \A e \in D : d <= e
  <2> HIDE DEF D
  <2>1. D \in SUBSET Nat
    BY DEF D
  <2>2. QED
    BY <1>4, <2>1, Least
<1>6. preferred + d \in I /\ preferred + d \notin used
  BY <1>5
<1>7. ASSUME NEW j \in preferred .. preferred + d - 1, j \notin used
      PROVE  FALSE
  <2>1. j - preferred \in D
    BY <1>1, <1>5, <1>7
  <2>2. QED
    BY <1>5, <1>7, <2>1
<1>8. \E k \in I : k \notin used /\ preferred .. k - 1 \subseteq used
  BY <1>5, <1>6, <1>7
<1>9. FreeIndex(preferred, used) \in I /\ FreeIndex(preferred, used) \notin used
  BY <1>8 DEF FreeIndex
<1>10. QED
  BY <1>1, <1>9

RouteNames == {"url", "sp", "index", "binding", "default", "source", "conflict"}
IsRoute(r) == DOMAIN r = RouteNames /\ r.index \in Int

\* What the row of a route keeps of it.
IsSameWay(r, s) ==
  r.url = s.url /\ r.sp = s.sp /\ r.source = s.source /\ r.conflict = s.conflict

IsRowOf(row, app, route) ==
  /\ \E i \in Int : row.id = SamlAcsId(app.id, i)
  /\ row.app = app.id /\ IsSameWay(row.route, route)

RowsFor(app, T) ==
  [id : {SamlAcsId(app.id, i) : i \in Int}, app : {app.id},
   route : {[x[1] EXCEPT !.index = x[2]] : x \in T \X Int}]

LEMMA AddRowIs ==
  ASSUME NEW app, NEW T, NEW rows \in Seq(RowsFor(app, T)), NEW route \in T, IsRoute(route)
  PROVE  \E row \in RowsFor(app, T) :
           /\ AddRow(app, rows, route) = Append(rows, row)
           /\ IsRowOf(row, app, route)
           /\ \A i \in 1 .. Len(rows) : rows[i].id # row.id
<1> DEFINE preferred == IF route.index # NoIndex THEN route.index ELSE Len(rows)
           used == {r.id[3] : r \in ToSet(rows)}
           index == FreeIndex(preferred, used)
           row == [id |-> SamlAcsId(app.id, index), app |-> app.id,
                   route |-> [route EXCEPT !.index = IF @ # NoIndex THEN @ ELSE index]]
           f == [i \in 1 .. Len(rows) |-> rows[i].id[3]]
<1>1. Len(rows) \in Nat /\ DOMAIN rows = 1 .. Len(rows)
  OBVIOUS
<1>2. preferred \in Int
  BY <1>1 DEF IsRoute
<1>3. \A i \in 1 .. Len(rows) : rows[i].id[3] \in Int
                               /\ rows[i].id = SamlAcsId(app.id, rows[i].id[3])
  <2>1. ASSUME NEW i \in 1 .. Len(rows)
        PROVE  \E j \in Int : rows[i].id = SamlAcsId(app.id, j)
    <3>1. rows[i] \in RowsFor(app, T)
      OBVIOUS
    <3>2. QED
      BY <3>1 DEF RowsFor
  <2>2. QED
    BY <2>1 DEF SamlAcsId
<1>4. used = {rows[i].id[3] : i \in 1 .. Len(rows)}
  BY <1>1 DEF ToSet
<1>5. used \in SUBSET Int
  BY <1>3, <1>4
<1>6. IsFiniteSet(used)
  <2>1. f \in Surjection(1 .. Len(rows), used)
    BY <1>4 DEF Surjection
  <2>2. IsFiniteSet(1 .. Len(rows))
    BY <1>1, FS_Interval
  <2> HIDE DEF f, used
  <2>3. QED
    BY <2>1, <2>2, FS_Surjection
<1>7. index \in Int \ used
  <2> HIDE DEF preferred, used
  <2>1. QED
    BY <1>2, <1>5, <1>6, FreeIndexIs
<1> HIDE DEF preferred, used, index
<1>8. AddRow(app, rows, route) = Append(rows, row)
  BY DEF AddRow, preferred, used, index
<1>9. row.id = SamlAcsId(app.id, index) /\ row.app = app.id
  OBVIOUS
<1>10. IsSameWay(row.route, route)
  BY DEF IsSameWay, IsRoute, RouteNames
<1>a. row \in RowsFor(app, T)
  <2> DEFINE j == IF route.index # NoIndex THEN route.index ELSE index
  <2>1. j \in Int
    BY <1>7 DEF IsRoute
  <2>2. row.route = [route EXCEPT !.index = j]
    BY DEF IsRoute, RouteNames
  <2>3. row.route \in {[x[1] EXCEPT !.index = x[2]] : x \in T \X Int}
    <3> HIDE DEF j, row
    <3> DEFINE x == <<route, j>>
    <3>1. x \in T \X Int /\ x[1] = route /\ x[2] = j
      BY <2>1
    <3> HIDE DEF x
    <3>2. row.route = [x[1] EXCEPT !.index = x[2]]
      BY <2>2, <3>1
    <3>3. QED
      BY <3>1, <3>2
  <2>4. row.id \in {SamlAcsId(app.id, i) : i \in Int}
    BY <1>7, <1>9
  <2>5. row = [id |-> row.id, app |-> app.id, route |-> row.route]
    OBVIOUS
  <2> HIDE DEF row, j
  <2>6. QED
    BY <2>3, <2>4, <2>5 DEF RowsFor
<1> HIDE DEF row
<1>11. ASSUME NEW i \in 1 .. Len(rows), rows[i].id = row.id
       PROVE  FALSE
  <2>1. rows[i].id[3] = index
    BY <1>9, <1>11 DEF SamlAcsId
  <2>2. QED
    BY <1>4, <1>7, <2>1
<1>12. IsRowOf(row, app, route)
  BY <1>7, <1>9, <1>10 DEF IsRowOf
<1>13. QED
  BY <1>8, <1>a, <1>11, <1>12

LEMMA AcsRowsAre ==
  ASSUME NEW app, NEW T, NEW routes \in Seq(T), routes = SamlRoutesOf(app).routes,
         \A r \in T : IsRoute(r)
  PROVE  /\ SamlAcsRows(app) \in Seq(RowsFor(app, T))
         /\ Len(SamlAcsRows(app)) = Len(routes)
         /\ \A i \in 1 .. Len(routes) : IsRowOf(SamlAcsRows(app)[i], app, routes[i])
         /\ \A i, j \in 1 .. Len(routes) :
              SamlAcsRows(app)[i].id = SamlAcsRows(app)[j].id => i = j
<1> DEFINE N == Len(routes)
           Qs == Seq(RowsFor(app, T))
           F == [n \in 1 .. N |-> [q \in Qs |-> AddRow(app, q, routes[n])]]
           Is(g) == g = [n \in 0 .. N |->
                           IF n = 0 THEN <<>> ELSE AddRow(app, g[n - 1], routes[n])]
           f == CHOOSE g : Is(g)
<1>1. N \in Nat /\ \A n \in 1 .. N : routes[n] \in T
  OBVIOUS
<1>2. ASSUME NEW n \in 1 .. N, NEW q \in Qs
      PROVE  \E row \in RowsFor(app, T) :
               /\ AddRow(app, q, routes[n]) = Append(q, row)
               /\ IsRowOf(row, app, routes[n])
               /\ \A i \in 1 .. Len(q) : q[i].id # row.id
  BY <1>1, AddRowIs
<1>3. F \in [1 .. N -> [Qs -> Qs]]
  <2>1. ASSUME NEW n \in 1 .. N, NEW q \in Qs
        PROVE  AddRow(app, q, routes[n]) \in Qs
    <3>1. PICK row \in RowsFor(app, T) : AddRow(app, q, routes[n]) = Append(q, row)
      BY <1>2
    <3>2. QED
      BY <3>1
  <2> HIDE DEF Qs, N
  <2>2. QED
    BY <2>1
<1>4. \E g : Is(g)
  <2>1. PICK g \in [0 .. N -> Qs] :
          g[0] = <<>> /\ \A n \in 1 .. N : g[n] = F[n][g[n - 1]]
    <3> DEFINE b == <<>>
    <3>1. b \in Qs
      OBVIOUS
    <3> HIDE DEF F, N, Qs
    <3>2. F \in Steps(N, Qs)
      BY <1>3 DEF Steps
    <3>3. \E g \in [0 .. N -> Qs] :
            g[0] = b /\ \A n \in 1 .. N : g[n] = F[n][g[n - 1]]
      <4> HIDE DEF b
      <4>1. QED
        BY <1>1, <3>1, <3>2, RecursionExists
    <3>4. QED
      BY <3>3
  <2>2. ASSUME NEW n \in 0 .. N, n # 0
        PROVE  F[n][g[n - 1]] = AddRow(app, g[n - 1], routes[n])
    <3>1. n \in 1 .. N /\ n - 1 \in 0 .. N
      BY <1>1, <2>2
    <3> HIDE DEF Qs, N
    <3>2. g[n - 1] \in Qs
      BY <2>1, <3>1
    <3>3. QED
      BY <3>1, <3>2
  <2>3. Is(g)
    <3> HIDE DEF F, Qs
    <3>1. \A n \in 0 .. N : n # 0 => g[n] = AddRow(app, g[n - 1], routes[n])
      BY <1>1, <2>1, <2>2
    <3>2. QED
      BY <2>1, <3>1
  <2> HIDE DEF Is
  <2>4. QED
    BY <2>3
<1>5. Is(f)
  <2> HIDE DEF Is
  <2>1. QED
    BY <1>4
<1>6. SamlAcsRows(app) = f[N]
  BY DEF SamlAcsRows
<1> HIDE DEF f
<1>7. ASSUME NEW n \in 0 .. N
      PROVE  f[n] = IF n = 0 THEN <<>> ELSE AddRow(app, f[n - 1], routes[n])
  BY <1>5
<1>8. f[0] = <<>> /\ <<>> \in Qs
  BY <1>1, <1>7
<1> HIDE DEF Is, F
<1> DEFINE Good(q, n) ==
             /\ q \in Qs /\ Len(q) = n
             /\ \A i \in 1 .. n : IsRowOf(q[i], app, routes[i])
             /\ \A i, j \in 1 .. n : q[i].id = q[j].id => i = j
           Ks == {n \in Nat : n <= N => Good(f[n], n)}
<1>9. 0 \in Ks
  <2> DEFINE q == f[0]
  <2>1. q \in Qs /\ Len(q) = 0
    BY <1>8
  <2> HIDE DEF q, Qs
  <2>2. Good(q, 0)
    BY <2>1
  <2>3. QED
    BY <2>2 DEF q
<1>10. ASSUME NEW n \in Ks PROVE n + 1 \in Ks
  <2> HIDE DEF Good, Qs, N
  <2>1. SUFFICES ASSUME n + 1 <= N PROVE Good(f[n + 1], n + 1)
    OBVIOUS
  <2> USE DEF Good, Qs, N
  <2> DEFINE q == f[n]
  <2>2. n + 1 \in 1 .. N /\ Good(q, n)
    BY <1>1, <2>1
  <2>3. f[n + 1] = AddRow(app, q, routes[n + 1])
    BY <1>7, <2>2
  <2>4. PICK row \in RowsFor(app, T) :
          /\ AddRow(app, q, routes[n + 1]) = Append(q, row)
          /\ IsRowOf(row, app, routes[n + 1])
          /\ \A i \in 1 .. Len(q) : q[i].id # row.id
    <3>1. q \in Qs
      BY <2>2
    <3> HIDE DEF Qs, q, N, Ks
    <3>2. QED
      BY <1>2, <2>2, <3>1
  <2> HIDE DEF q
  <2>5. Good(Append(q, row), n + 1)
    <3> DEFINE s == Append(q, row)
    <3>1. /\ s \in Qs /\ Len(s) = n + 1 /\ s[n + 1] = row
          /\ \A i \in 1 .. n : s[i] = q[i]
      BY <2>2
    <3> HIDE DEF s, Qs, Ks
    <3>2. \A i \in 1 .. n + 1 : IsRowOf(s[i], app, routes[i])
      BY <2>2, <2>4, <3>1
    <3>3. \A i, j \in 1 .. n + 1 : s[i].id = s[j].id => i = j
      BY <2>2, <2>4, <3>1
    <3>4. QED
      BY <3>1, <3>2, <3>3 DEF s
  <2>6. QED
    BY <2>3, <2>4, <2>5
<1>11. Ks = Nat
  <2> HIDE DEF Ks
  <2>1. Ks \in SUBSET Nat
    BY DEF Ks
  <2>2. QED
    BY <1>9, <1>10, <2>1, Induct
<1>12. Good(f[N], N)
  BY <1>1, <1>11
<1>13. QED
  BY <1>6, <1>12

-----------------------------------------------------------------------------
(* What the settings of an application prove. *)

LEMMA FirstGivenIs ==
  ASSUME NEW texts, NEW n \in Nat, DOMAIN texts = 1 .. n
  PROVE  /\ (\E i \in 1 .. n : Given(texts[i])) =>
              \E k \in 1 .. n : Given(texts[k]) /\ FirstGiven(texts) = texts[k]
         /\ (\A i \in 1 .. n : ~Given(texts[i])) => FirstGiven(texts) = NoText
<1>1. ASSUME NEW i \in 1 .. n, Given(texts[i])
      PROVE  \E k \in 1 .. n : Given(texts[k]) /\ FirstGiven(texts) = texts[k]
  <2> DEFINE D == {k \in Nat : k \in 1 .. n /\ Given(texts[k])}
  <2>1. PICK k \in D : \A j \in D : k <= j
    <3>1. D \in SUBSET Nat /\ i \in D
      BY <1>1
    <3> HIDE DEF D
    <3>2. QED
      BY <3>1, Least
  <2>2. k \in 1 .. n /\ Given(texts[k]) /\ \A j \in 1 .. k - 1 : ~Given(texts[j])
    BY <2>1
  <2>3. \E j \in DOMAIN texts : Given(texts[j]) /\ \A m \in 1 .. j - 1 : ~Given(texts[m])
    BY <2>2
  <2> DEFINE c == CHOOSE j \in DOMAIN texts :
                    Given(texts[j]) /\ \A m \in 1 .. j - 1 : ~Given(texts[m])
  <2>4. c \in 1 .. n /\ Given(texts[c])
    BY <2>3
  <2>5. FirstGiven(texts) = texts[c]
    BY <1>1 DEF FirstGiven
  <2> HIDE DEF c
  <2>6. QED
    BY <2>4, <2>5
<1>2. (\A i \in 1 .. n : ~Given(texts[i])) => FirstGiven(texts) = NoText
  BY DEF FirstGiven
<1>3. QED
  BY <1>1, <1>2

LEMMA IssuersAgree ==
  ASSUME NEW app, NEW issuer \in SamlIssuerRows(app),
         NEW stated \in {app.metadata, app.signOn.idpIssuer}, Given(Concrete(stated))
  PROVE  issuer.entity = stated
<1> DEFINE m == Concrete(app.metadata)
           s == Concrete(app.signOn.idpIssuer)
           issuers == <<m, s>>
<1>1. Given(IdpIssuer(app)) /\ issuer.entity = IdpIssuer(app)
  BY DEF SamlIssuerRows
<1>2. Concrete(stated) = stated
  BY DEF Concrete, Given
<1>3. stated \in {m, s} /\ Given(stated)
  BY <1>2
<1> HIDE DEF m, s
<1>4. issuers[1] = m /\ issuers[2] = s /\ DOMAIN issuers = 1 .. 2
  OBVIOUS
<1>5. ~(Given(m) /\ Given(s) /\ m # s) /\ IdpIssuer(app) = FirstGiven(issuers)
  BY <1>1, <1>4 DEF IdpIssuer, Given, m, s
<1> HIDE DEF issuers
<1>6. PICK k \in 1 .. 2 : Given(issuers[k]) /\ FirstGiven(issuers) = issuers[k]
  <2>1. \E i \in 1 .. 2 : Given(issuers[i])
    BY <1>3, <1>4
  <2>2. QED
    BY <1>4, <2>1, FirstGivenIs
<1>7. issuers[k] \in {m, s}
  BY <1>4
<1>8. QED
  BY <1>1, <1>3, <1>5, <1>6, <1>7

LEMMA PairHasTwo ==
  ASSUME NEW x, NEW y, x # y
  PROVE  Cardinality({x} \cup {y}) = 2
<1>1. IsFiniteSet({x}) /\ Cardinality({x}) = 1
  BY FS_Singleton
<1>2. Cardinality({x} \cup {y}) = Cardinality({x}) + 1
  BY <1>1, FS_AddElement, y \notin {x}
<1>3. QED
  BY <1>1, <1>2

\* All that is stated of the entity of the service provider is the one entity.
LEMMA StatedSpsAre ==
  ASSUME NEW s, ~SpConflict(s), NEW x \in StatedSps(s)
  PROVE  x = ExplicitSpEntity(s) /\ Given(x)
<1> DEFINE texts == [i \in DOMAIN SpFields |-> s[SpFields[i]]]
<1>1. CASE Given(s.audienceOverride)
  BY <1>1 DEF StatedSps, ExplicitSpEntity
<1>2. CASE ~Given(s.audienceOverride)
  <2>1. x \in SpCandidates(s) /\ ExplicitSpEntity(s) = FirstGiven(texts)
    BY <1>2 DEF StatedSps, ExplicitSpEntity
  <2>2. ~(Cardinality(SpCandidates(s)) > 1)
    BY <1>2 DEF SpConflict
  <2>3. DOMAIN SpFields = 1 .. 3
    BY DEF SpFields
  <2>4. DOMAIN texts = 1 .. 3 /\ SpCandidates(s) = {t \in {texts[i] : i \in 1 .. 3} : Given(t)}
    BY <2>3 DEF SpCandidates
  <2> HIDE DEF texts
  <2>5. IsFiniteSet(SpCandidates(s))
    <3>1. {texts[i] : i \in 1 .. 3} = {texts[1], texts[2], texts[3]}
      OBVIOUS
    <3>2. IsFiniteSet({texts[1], texts[2], texts[3]})
      <4>1. IsFiniteSet({texts[1]})
        BY FS_Singleton
      <4>2. IsFiniteSet({texts[1]} \cup {texts[2]})
        BY <4>1, FS_AddElement
      <4>3. IsFiniteSet(({texts[1]} \cup {texts[2]}) \cup {texts[3]})
        BY <4>2, FS_AddElement
      <4>4. ({texts[1]} \cup {texts[2]}) \cup {texts[3]} = {texts[1], texts[2], texts[3]}
        OBVIOUS
      <4>5. QED
        BY <4>3, <4>4
    <3>3. SpCandidates(s) \in SUBSET {texts[1], texts[2], texts[3]}
      BY <2>4, <3>1
    <3>4. QED
      BY <3>2, <3>3, FS_Subset
  <2>6. Given(x) /\ \E i \in 1 .. 3 : Given(texts[i])
    BY <2>1, <2>4
  <2>7. PICK k \in 1 .. 3 : Given(texts[k]) /\ FirstGiven(texts) = texts[k]
    BY <2>4, <2>6, FirstGivenIs
  <2>8. FirstGiven(texts) \in SpCandidates(s)
    BY <2>4, <2>7
  <2>9. ASSUME x # FirstGiven(texts) PROVE FALSE
    <3> DEFINE pair == {x} \cup {FirstGiven(texts)}
    <3>1. Cardinality(pair) = 2
      BY <2>9, PairHasTwo
    <3>3. pair \in SUBSET SpCandidates(s)
      BY <2>1, <2>8
    <3> HIDE DEF pair
    <3>4. Cardinality(pair) <= Cardinality(SpCandidates(s))
      BY <2>5, <3>3, FS_Subset
    <3>5. Cardinality(SpCandidates(s)) \in Nat
      BY <2>5, FS_CardinalityType
    <3>6. QED
      BY <2>2, <3>1, <3>4, <3>5
  <2>10. QED
    BY <2>1, <2>6, <2>9
<1>3. QED
  BY <1>1, <1>2

-----------------------------------------------------------------------------
(* The routes of the catalogue. *)

LEMMA CatalogIs ==
  /\ DOMAIN Catalog = {"asana", "okta_org2org", "jamfsoftwareserver",
                       "githubenterprisemanageduser", "panw_globalprotect", "slack",
                       "zoomus"}
  /\ \A n \in DOMAIN Catalog : Catalog[n].anyText => n = "okta_org2org"
  /\ Catalog["okta_org2org"].fields = {"acsUrl", "audRestriction"}
<1>1. DOMAIN Catalog = {"asana", "okta_org2org", "jamfsoftwareserver",
                        "githubenterprisemanageduser", "panw_globalprotect", "slack",
                        "zoomus"}
  BY DEF Catalog
<1>2. ASSUME NEW n \in DOMAIN Catalog, Catalog[n].anyText PROVE n = "okta_org2org"
  BY <1>2 DEF Catalog, Profile
<1>3. Catalog["okta_org2org"].fields = {"acsUrl", "audRestriction"}
  BY DEF Catalog, Profile
<1>4. QED
  BY <1>1, <1>2, <1>3

OinRouteTo(url, sp) == <<Route(url, sp, 0, NoText, "yes", "profile")>>

IsOinRoutes(app, routes) ==
  \E url, sp : routes = OinRouteTo(url, sp) /\ CatalogProves(app, url, sp)

LEMMA OinRouteIs ==
  ASSUME NEW url, NEW sp
  PROVE  OinRoute(url, sp, "profile").routes = OinRouteTo(url, sp)
BY DEF OinRoute, OinRouteTo, Resolution

\* A route of the catalogue is one that the settings prove.
LEMMA OinRoutesAre ==
  ASSUME NEW app, ResolveOinRoutes(app).routes # <<>>
  PROVE  IsOinRoutes(app, ResolveOinRoutes(app).routes)
<1> DEFINE settings == app.settings
           oin == ResolveOinRoutes(app)
<1>1. CASE app.name = "githubcloud"
  <2> DEFINE field == IF Setting(settings, "githubOrg") \in {NoText, EmptyText}
                        THEN "orgName" ELSE "githubOrg"
             org == Setting(settings, field)
             url == <<"github.com/orgs/">> \o org \o <<"/saml/consume">>
             sp == <<"github.com/orgs/">> \o org
  <2>1. oin = ResolveGithub(settings)
    BY <1>1, CatalogIs DEF ResolveOinRoutes
  <2>2. IsValid(org) /\ oin = OinRoute(url, sp, "profile")
    BY <2>1 DEF ResolveGithub, Resolution
  <2>3. CatalogProves(app, url, sp)
    <3>1. field \in {"githubOrg", "orgName"}
      OBVIOUS
    <3>2. field = "orgName" => Setting(settings, "githubOrg") \in {NoText, EmptyText}
      OBVIOUS
    <3>3. IsValid(org) /\ sp = <<"github.com/orgs/">> \o Setting(settings, field)
      BY <2>2
    <3> HIDE DEF field, org, url, sp
    <3>4. QED
      BY <1>1, <2>2, <3>1, <3>2, <3>3 DEF CatalogProves, org
  <2> HIDE DEF url, sp
  <2>4. QED
    BY <2>2, <2>3, OinRouteIs DEF IsOinRoutes
<1>2. CASE app.name = "realtime_board"
  <2> DEFINE acs == Setting(settings, "customAcsUrl")
             sp == Setting(settings, "customEntityId")
             none == {"customAcsUrl", "customEntityId"} \subseteq DOMAIN settings
                       /\ ~Given(acs) /\ ~Given(sp)
  <2>1. oin = ResolveMiro(settings)
    BY <1>2, CatalogIs DEF ResolveOinRoutes
  <2>2. ~(none /\ IsValid(acs) /\ IsValid(sp))
    BY DEF IsValid, IsPresent, Given
  <2>3. none \/ (IsValid(acs) /\ IsValid(sp))
    BY <2>1 DEF ResolveMiro, Resolution
  <2>4. CASE none
    <3>1. oin = OinRoute(<<"miro.com/sso/saml">>, <<"miro.com/">>, "profile")
      BY <2>1, <2>2, <2>4 DEF ResolveMiro
    <3>2. \A field \in {"customAcsUrl", "customEntityId"} :
            field \in DOMAIN settings /\ settings[field] = NoText
      BY <2>4 DEF Setting, Given
    <3>3. CatalogProves(app, <<"miro.com/sso/saml">>, <<"miro.com/">>)
      BY <1>2, <3>2 DEF CatalogProves
    <3>4. QED
      BY <3>1, <3>3, OinRouteIs DEF IsOinRoutes
  <2>5. CASE IsValid(acs) /\ IsValid(sp)
    <3>1. oin = OinRoute(acs, sp, "profile")
      BY <2>1, <2>2, <2>5 DEF ResolveMiro
    <3>2. CatalogProves(app, acs, sp)
      BY <1>2, <2>5 DEF CatalogProves
    <3>3. QED
      BY <3>1, <3>2, OinRouteIs DEF IsOinRoutes
  <2>6. QED
    BY <2>3, <2>4, <2>5
<1>3. CASE app.name \in DOMAIN Catalog
  <2> DEFINE profile == Catalog[app.name]
             isRefused(field) ==
               IF profile.anyText THEN ~IsPresent(Setting(settings, field))
                                  ELSE ~IsValid(Setting(settings, field))
             refused == {field \in profile.fields : isRefused(field)}
             url == Format(profile.acs, profile.fields, settings)
             sp == Format(profile.sp, profile.fields, settings)
  <2>1. app.name \notin {"githubcloud", "realtime_board"}
    BY <1>3, CatalogIs
  <2>2. oin = ResolveProfile(profile, settings)
    BY <1>3, <2>1 DEF ResolveOinRoutes
  <2>3. refused = {}
    BY <2>2 DEF ResolveProfile, Resolution
  <2>4. oin = OinRoute(url, sp, "profile")
    BY <2>2, <2>3 DEF ResolveProfile
  <2>5. \A field \in profile.fields : ~isRefused(field)
    BY <2>3
  <2> HIDE DEF url, sp
  <2>6. CatalogProves(app, url, sp)
    <3>1. CASE app.name = "okta_org2org"
      <4>1. \A field \in profile.fields : IsPresent(Setting(settings, field))
        BY <2>5 DEF IsValid
      <4>2. profile.fields = {"acsUrl", "audRestriction"}
        BY <3>1, CatalogIs
      <4>3. QED
        BY <2>1, <3>1, <4>1, <4>2 DEF CatalogProves
    <3>2. CASE app.name # "okta_org2org"
      <4>1. \A field \in profile.fields : IsValid(Setting(settings, field))
        BY <1>3, <2>5, <3>2, CatalogIs
      <4>2. QED
        BY <2>1, <3>2, <4>1 DEF CatalogProves
    <3>3. QED
      BY <3>1, <3>2
  <2>7. QED
    BY <2>4, <2>6, OinRouteIs DEF IsOinRoutes
<1>4. CASE app.name \notin {"githubcloud", "realtime_board"} \cup DOMAIN Catalog
  <2>1. oin = Resolution(<<>>, {})
    BY <1>4 DEF ResolveOinRoutes
  <2>2. QED
    BY <2>1 DEF Resolution
<1>5. QED
  BY <1>1, <1>2, <1>3, <1>4

-----------------------------------------------------------------------------
(* The routes that the settings state. *)

LEMMA EndpointsAre ==
  ASSUME NEW s, IsEndpoints(s.endpoints), IsEndpoints(s.encrypted)
  PROVE  \E T : AcsCandidates(s) \in Seq(T) /\ \A e \in T : e.index \in Int
<1> DEFINE primary == [url |-> PrimaryAcs(s), index |-> 0, binding |-> NoText,
                       default |-> "yes"]
           T == {primary} \cup ToSet(s.endpoints) \cup ToSet(s.encrypted)
           all == <<primary>> \o s.endpoints \o s.encrypted
<1>1. primary.index \in Int
  OBVIOUS
<1> HIDE DEF primary
<1>2. \A e \in T : e.index \in Int
  BY <1>1 DEF IsEndpoints
<1>3. s.endpoints \in Seq(T) /\ s.encrypted \in Seq(T) /\ <<primary>> \in Seq(T)
  <2>1. s.endpoints \in Seq(ToSet(s.endpoints)) /\ s.encrypted \in Seq(ToSet(s.encrypted))
    BY DEF IsEndpoints
  <2> DEFINE A == ToSet(s.endpoints)
             B == ToSet(s.encrypted)
             p == s.endpoints
             q == s.encrypted
  <2>2. p \in Seq(A) /\ q \in Seq(B) /\ A \subseteq T /\ B \subseteq T
    BY <2>1
  <2> HIDE DEF A, B, p, q, T
  <2>3. p \in Seq(T) /\ q \in Seq(T)
    BY <2>2
  <2>4. <<primary>> \in Seq(T)
    BY DEF T
  <2>5. QED
    BY <2>3, <2>4 DEF p, q
<1> HIDE DEF T
<1>4. all \in Seq(T)
  <2>1. <<primary>> \o s.endpoints \in Seq(T)
    BY <1>3
  <2>2. QED
    BY <1>3, <2>1
<1>5. WithUrls(all) \in Seq(T)
  <2> HIDE DEF all
  <2>1. QED
    BY <1>4, WithUrlsIs
<1>6. AcsCandidates(s) \in Seq(T)
  BY <1>5 DEF AcsCandidates, primary
<1>7. QED
  BY <1>2, <1>6

LEMMA RouteIs ==
  \A url, sp, index, binding, default, source :
    /\ DOMAIN Route(url, sp, index, binding, default, source) = RouteNames
    /\ Route(url, sp, index, binding, default, source).index = index
    /\ Route(url, sp, index, binding, default, source).url = url
    /\ Route(url, sp, index, binding, default, source).sp = sp
    /\ Route(url, sp, index, binding, default, source).source = source
    /\ Route(url, sp, index, binding, default, source).conflict = FALSE
BY DEF Route, RouteNames

\* A route that the settings state, before it is compared with the catalogue.
IsStated(s, r) ==
  /\ IsRoute(r) /\ r.source = "settings" /\ ~r.conflict
  /\ r.sp = ExplicitSpEntity(s) /\ r.url \in ExplicitAcsUrls(s)

LEMMA ExplicitRoutesAre ==
  ASSUME NEW s, IsEndpoints(s.endpoints), IsEndpoints(s.encrypted)
  PROVE  \E T : ExplicitRoutes(s) \in Seq(T) /\ \A r \in T : IsStated(s, r)
<1> DEFINE endpoints == AcsCandidates(s)
           sp == ExplicitSpEntity(s)
           route(e) == Route(e.url, sp, e.index, e.binding, e.default, "settings")
           T == {route(e) : e \in ToSet(endpoints)}
           routes == [i \in DOMAIN endpoints |->
                        Route(endpoints[i].url, sp, endpoints[i].index,
                              endpoints[i].binding, endpoints[i].default, "settings")]
<1>1. PICK E : endpoints \in Seq(E) /\ \A e \in E : e.index \in Int
  BY EndpointsAre
<1> HIDE DEF endpoints
<1>2. /\ Len(endpoints) \in Nat /\ DOMAIN endpoints = 1 .. Len(endpoints)
      /\ \A i \in 1 .. Len(endpoints) : endpoints[i] \in E
      /\ ToSet(endpoints) = {endpoints[i] : i \in 1 .. Len(endpoints)}
  BY <1>1 DEF ToSet
<1>3. \A r \in T : IsStated(s, r)
  <2>1. SUFFICES ASSUME NEW e \in ToSet(endpoints) PROVE IsStated(s, route(e))
    OBVIOUS
  <2>2. e.index \in Int
    BY <1>1, <1>2
  <2>3. e.url \in ExplicitAcsUrls(s)
    BY DEF ExplicitAcsUrls, endpoints
  <2> DEFINE r == Route(e.url, sp, e.index, e.binding, e.default, "settings")
  <2>4. /\ IsRoute(r) /\ r.url = e.url /\ r.sp = sp /\ r.source = "settings"
        /\ r.conflict = FALSE
    <3> HIDE DEF sp
    <3>1. QED
      BY <2>2, RouteIs DEF IsRoute
  <2>5. route(e) = r
    OBVIOUS
  <2> HIDE DEF r, route
  <2>6. QED
    BY <2>3, <2>4, <2>5 DEF IsStated
<1>4. routes \in Seq(T)
  <2>1. \A i \in 1 .. Len(endpoints) : routes[i] \in T
    BY <1>2
  <2>2. routes \in [1 .. Len(endpoints) -> T]
    <3> HIDE DEF T
    <3>1. QED
      BY <1>2, <2>1
  <2> HIDE DEF T, routes
  <2>3. QED
    BY <1>2, <2>2
<1>5. ExplicitRoutes(s) \in {<<>>, Distinct(routes)}
  BY DEF ExplicitRoutes, endpoints
<1>6. Distinct(routes) \in Seq(T) /\ <<>> \in Seq(T)
  <2> HIDE DEF T, routes
  <2>1. QED
    BY <1>4, DistinctIs
<1>7. ExplicitRoutes(s) \in Seq(T)
  <2> HIDE DEF T, routes
  <2>1. QED
    BY <1>5, <1>6
<1>8. QED
  BY <1>3, <1>7

-----------------------------------------------------------------------------
(* Both kinds of evidence together. *)

IsProven(app, r, all) ==
  /\ IsRoute(r)
  /\ StatedSps(app.signOn) \subseteq {r.sp}
  /\ ExplicitAcsUrls(app.signOn) # {} => r.url \in ExplicitAcsUrls(app.signOn)
  /\ IF r.source = "settings"
       THEN ~r.conflict => Keys(ResolveOinRoutes(app).routes) \subseteq Keys(all)
       ELSE CatalogProves(app, r.url, r.sp)

LEMMA ResolutionIs ==
  \A routes, diagnostics :
    /\ Resolution(routes, diagnostics).routes = routes
    /\ Resolution(routes, diagnostics).diagnostics = diagnostics
BY DEF Resolution

\* The routes of the settings, marked or not.
LEMMA StatedRoutesAreProven ==
  ASSUME NEW app, ~SpConflict(app.signOn), NEW r, NEW routes, NEW s,
         IsStated(app.signOn, s),
         \/ r = s /\ Keys(ResolveOinRoutes(app).routes) \subseteq Keys(routes)
         \/ r = [s EXCEPT !.conflict = TRUE]
  PROVE  IsProven(app, r, routes)
<1>1. IsRoute(r) /\ r.source = "settings" /\ r.sp = s.sp /\ r.url = s.url
  BY DEF IsStated, IsRoute, RouteNames
<1>2. ~r.conflict => Keys(ResolveOinRoutes(app).routes) \subseteq Keys(routes)
  <2>1. CASE r = [s EXCEPT !.conflict = TRUE]
    BY <2>1 DEF IsStated, IsRoute, RouteNames
  <2>2. CASE Keys(ResolveOinRoutes(app).routes) \subseteq Keys(routes)
    BY <2>2
  <2>3. QED
    BY <2>1, <2>2
<1>3. StatedSps(app.signOn) \subseteq {r.sp}
  BY <1>1, StatedSpsAre DEF IsStated
<1>4. QED
  BY <1>1, <1>2, <1>3 DEF IsProven, IsStated

\* A route of the catalogue counts only if no half of another one is stated.
LEMMA OinRoutesAreProven ==
  ASSUME NEW app, ~SpConflict(app.signOn), ResolveOinRoutes(app).routes # <<>>,
         PartialDiagnostics(app.signOn, ResolveOinRoutes(app).routes) = {},
         NEW r \in ToSet(ResolveOinRoutes(app).routes)
  PROVE  IsProven(app, r, ResolveOinRoutes(app).routes)
<1> DEFINE oin == ResolveOinRoutes(app).routes
           signOn == app.signOn
<1>1. IsOinRoutes(app, oin)
  BY OinRoutesAre
<1>2. PICK url, sp : oin = OinRouteTo(url, sp) /\ CatalogProves(app, url, sp)
  BY <1>1 DEF IsOinRoutes
<1>3. r = Route(url, sp, 0, NoText, "yes", "profile")
  <2> DEFINE one == Route(url, sp, 0, NoText, "yes", "profile")
  <2> HIDE DEF one
  <2>1. ToSet(<<one>>) = {one}
    BY DEF ToSet
  <2>2. QED
    BY <1>2, <2>1 DEF one, OinRouteTo
<1>4. IsRoute(r) /\ r.source = "profile" /\ r.url = url /\ r.sp = sp
  <2>1. 0 \in Int
    OBVIOUS
  <2>2. /\ IsRoute(Route(url, sp, 0, NoText, "yes", "profile"))
        /\ Route(url, sp, 0, NoText, "yes", "profile").source = "profile"
        /\ Route(url, sp, 0, NoText, "yes", "profile").url = url
        /\ Route(url, sp, 0, NoText, "yes", "profile").sp = sp
    BY <2>1, RouteIs DEF IsRoute
  <2>3. QED
    BY <1>3, <2>2
<1>5. ExplicitAcsUrls(signOn) = {} /\ ~Given(ExplicitSpEntity(signOn))
  BY DEF PartialDiagnostics
<1>6. StatedSps(signOn) = {}
  BY <1>5, StatedSpsAre
<1>7. QED
  BY <1>2, <1>4, <1>5, <1>6 DEF IsProven

LEMMA RoutesOfAre ==
  ASSUME NEW app, IsApplication(app), IsSamlApplication(app)
  PROVE  LET resolution == SamlRoutesOf(app)
         IN /\ \E T : /\ resolution.routes \in Seq(T)
                      /\ \A r \in T : IsProven(app, r, resolution.routes)
            /\ resolution.routes = <<>> => resolution.diagnostics # {}
<1> DEFINE signOn == app.signOn
           explicit == ExplicitRoutes(signOn)
           oin == ResolveOinRoutes(app)
           partial == PartialDiagnostics(signOn, oin.routes)
           resolution == SamlRoutesOf(app)
<1>0. resolution =
        IF SpConflict(signOn)
          THEN Resolution(<<>>, {"conflicting_explicit_sp_entity_fields"})
        ELSE IF explicit # <<>>
          THEN IF Keys(oin.routes) \subseteq Keys(explicit)
                 THEN Resolution(explicit, {})
                 ELSE Resolution(Marked(explicit),
                        {"explicit_generic_route_overrides_conflicting_oin_route"})
        ELSE IF oin.routes # <<>>
          THEN IF partial = {} THEN oin ELSE Resolution(<<>>, partial)
        ELSE IF oin.diagnostics # {} THEN oin
        ELSE Resolution(<<>>, MissingDiagnostics(signOn))
  BY DEF SamlRoutesOf
<1> HIDE DEF explicit, oin, partial, resolution
<1>1. ASSUME resolution.routes = <<>>, resolution.diagnostics # {}
      PROVE  /\ \E T : /\ resolution.routes \in Seq(T)
                       /\ \A r \in T : IsProven(app, r, resolution.routes)
             /\ resolution.routes = <<>> => resolution.diagnostics # {}
  <2>1. resolution.routes \in Seq({})
    BY <1>1
  <2>2. \A r \in {} : IsProven(app, r, resolution.routes)
    OBVIOUS
  <2>3. QED
    <3> DEFINE E == {}
    <3>1. /\ resolution.routes \in Seq(E)
          /\ \A r \in E : IsProven(app, r, resolution.routes)
      BY <2>1, <2>2
    <3> HIDE DEF E
    <3>2. QED
      BY <1>1, <3>1, Zenon
<1>2. CASE SpConflict(signOn)
  BY <1>0, <1>1, <1>2, ResolutionIs DEF resolution
<1>3. CASE ~SpConflict(signOn) /\ explicit # <<>>
  <2>1. PICK T : explicit \in Seq(T) /\ \A r \in T : IsStated(signOn, r)
    BY ExplicitRoutesAre DEF IsApplication, explicit
  <2>2. CASE Keys(oin.routes) \subseteq Keys(explicit)
    <3>1. resolution.routes = explicit
      BY <1>0, <1>3, <2>2, ResolutionIs
    <3>2. \A r \in T : IsProven(app, r, explicit)
      BY <1>3, <2>1, <2>2, StatedRoutesAreProven DEF oin
    <3>3. QED
      BY <1>3, <2>1, <3>1, <3>2 DEF resolution
  <2>3. CASE ~(Keys(oin.routes) \subseteq Keys(explicit))
    <3> DEFINE mark(r) == [r EXCEPT !.conflict = TRUE]
               M == {mark(r) : r \in T}
               marked == Marked(explicit)
    <3>1. resolution.routes = marked
      BY <1>0, <1>3, <2>3, ResolutionIs
    <3>2. \A r \in M : IsProven(app, r, marked)
      BY <1>3, <2>1, StatedRoutesAreProven
    <3>3. Len(explicit) \in Nat \ {0} /\ DOMAIN explicit = 1 .. Len(explicit)
      BY <1>3, <2>1
    <3>4. \A i \in 1 .. Len(explicit) : explicit[i] \in T
      BY <2>1
    <3>5. marked = [i \in 1 .. Len(explicit) |-> mark(explicit[i])]
      BY <3>3 DEF Marked
    <3>6. \A i \in 1 .. Len(explicit) : mark(explicit[i]) \in M
      BY <3>4
    <3> HIDE DEF M, mark, marked
    <3>7. marked \in [1 .. Len(explicit) -> M]
      BY <3>5, <3>6
    <3>8. marked \in Seq(M) /\ Len(marked) = Len(explicit)
      BY <3>3, <3>7
    <3>9. marked # <<>>
      BY <3>3, <3>8
    <3>10. QED
      BY <3>1, <3>2, <3>8, <3>9 DEF resolution
  <2>4. QED
    BY <2>2, <2>3
<1>4. CASE ~SpConflict(signOn) /\ explicit = <<>> /\ oin.routes # <<>>
  <2>1. CASE partial = {}
    <3>1. resolution = oin
      BY <1>0, <1>4, <2>1
    <3>2. \A r \in ToSet(oin.routes) : IsProven(app, r, oin.routes)
      BY <1>4, <2>1, OinRoutesAreProven DEF oin, partial
    <3>3. oin.routes \in Seq(ToSet(oin.routes))
      <4>1. PICK url, sp : oin.routes = <<Route(url, sp, 0, NoText, "yes", "profile")>>
        BY <1>4, OinRoutesAre DEF IsOinRoutes, OinRouteTo, oin
      <4> DEFINE one == Route(url, sp, 0, NoText, "yes", "profile")
      <4> HIDE DEF one
      <4>2. <<one>> \in Seq(ToSet(<<one>>))
        BY DEF ToSet
      <4>3. QED
        BY <4>1, <4>2 DEF one
    <3>4. QED
      BY <1>4, <3>1, <3>2, <3>3 DEF resolution
  <2>2. CASE partial # {}
    BY <1>0, <1>1, <1>4, <2>2, ResolutionIs DEF resolution
  <2>3. QED
    BY <2>1, <2>2
<1>5. CASE ~SpConflict(signOn) /\ explicit = <<>> /\ oin.routes = <<>>
  <2>1. CASE oin.diagnostics # {}
    BY <1>0, <1>1, <1>5, <2>1 DEF resolution
  <2>2. CASE oin.diagnostics = {}
    <3>1. MissingDiagnostics(signOn) # {}
      BY DEF MissingDiagnostics
    <3>2. QED
      BY <1>0, <1>1, <1>5, <2>2, <3>1, ResolutionIs DEF resolution
  <2>3. QED
    BY <2>1, <2>2
<1>6. QED
  BY <1>2, <1>3, <1>4, <1>5

\* What RoutesAreProven says of one application.
AppRoutesAreProven(app) ==
  LET routes == {r.route : r \in AcsRowsOf(app)}
      urls == ExplicitAcsUrls(app.signOn)
  IN /\ \A issuer \in SamlIssuerRows(app), stated \in {app.metadata, app.signOn.idpIssuer} :
          Given(Concrete(stated)) => issuer.entity = stated
     /\ \A r \in routes :
          /\ StatedSps(app.signOn) \subseteq {r.sp}
          /\ urls # {} => r.url \in urls
          /\ IF r.source = "settings"
               THEN ~r.conflict => Keys(ResolveOinRoutes(app).routes)
                                     \subseteq {<<s.url, s.sp>> : s \in routes}
               ELSE CatalogProves(app, r.url, r.sp)
     /\ routes = {} => SamlRoutesOf(app).diagnostics # {}

LEMMA RoutesOfAppAreProven ==
  ASSUME NEW app, IsApplication(app), IsSamlApplication(app)
  PROVE  AppRoutesAreProven(app)
<1> DEFINE all == SamlRoutesOf(app).routes
           rows == SamlAcsRows(app)
           routes == {r.route : r \in AcsRowsOf(app)}
           urls == ExplicitAcsUrls(app.signOn)
           catalogued == Keys(ResolveOinRoutes(app).routes)
<1>1. /\ \E T : all \in Seq(T) /\ \A r \in T : IsProven(app, r, all)
      /\ all = <<>> => SamlRoutesOf(app).diagnostics # {}
  BY RoutesOfAre
<1>2. PICK T : all \in Seq(T) /\ \A r \in T : IsProven(app, r, all)
  BY <1>1
<1>3. \A r \in T : IsRoute(r)
  BY <1>2 DEF IsProven
<1>4. /\ rows \in Seq(RowsFor(app, T)) /\ Len(rows) = Len(all)
      /\ \A i \in 1 .. Len(all) : IsRowOf(rows[i], app, all[i])
  <2> HIDE DEF all, rows
  <2>1. all = SamlRoutesOf(app).routes /\ rows = SamlAcsRows(app)
    BY DEF all, rows
  <2>2. QED
    BY <1>2, <1>3, <2>1, AcsRowsAre
<1> HIDE DEF all, rows
<1>5. /\ AcsRowsOf(app) = {rows[i] : i \in 1 .. Len(all)}
      /\ ToSet(all) = {all[i] : i \in 1 .. Len(all)} /\ Len(all) \in Nat
      /\ \A i \in 1 .. Len(all) : all[i] \in T
  BY <1>2, <1>4 DEF AcsRowsOf, ToSet, rows
<1>6. routes = {rows[i].route : i \in 1 .. Len(all)}
  BY <1>5
<1>7. \A i \in 1 .. Len(all) : IsSameWay(rows[i].route, all[i])
  BY <1>4 DEF IsRowOf
<1>8. Keys(all) \subseteq {<<s.url, s.sp>> : s \in routes}
  <2>1. SUFFICES ASSUME NEW i \in 1 .. Len(all)
                 PROVE  <<all[i].url, all[i].sp>> \in {<<s.url, s.sp>> : s \in routes}
    BY <1>5 DEF Keys
  <2>2. rows[i].route \in routes
    BY <1>6
  <2>3. rows[i].route.url = all[i].url /\ rows[i].route.sp = all[i].sp
    BY <1>7 DEF IsSameWay
  <2> HIDE DEF routes
  <2>4. QED
    BY <2>2, <2>3
<1>9. \A issuer \in SamlIssuerRows(app), stated \in {app.metadata, app.signOn.idpIssuer} :
        Given(Concrete(stated)) => issuer.entity = stated
  BY IssuersAgree
<1>10. ASSUME NEW r \in routes
       PROVE  /\ StatedSps(app.signOn) \subseteq {r.sp}
              /\ urls # {} => r.url \in urls
              /\ r.source = "settings" /\ ~r.conflict =>
                   catalogued \subseteq {<<s.url, s.sp>> : s \in routes}
              /\ r.source # "settings" => CatalogProves(app, r.url, r.sp)
  <2>1. PICK i \in 1 .. Len(all) : r = rows[i].route
    BY <1>6, <1>10
  <2>2. IsProven(app, all[i], all)
    BY <1>2, <1>5
  <2>3. r.url = all[i].url /\ r.sp = all[i].sp /\ r.source = all[i].source
        /\ r.conflict = all[i].conflict
    BY <1>7, <2>1 DEF IsSameWay
  <2> DEFINE stated == all[i]
  <2>4. /\ StatedSps(app.signOn) \subseteq {stated.sp}
        /\ urls # {} => stated.url \in urls
        /\ stated.source = "settings" /\ ~stated.conflict => catalogued \subseteq Keys(all)
        /\ stated.source # "settings" => CatalogProves(app, stated.url, stated.sp)
    BY <2>2 DEF IsProven
  <2> HIDE DEF stated, routes, urls, catalogued
  <2>5. QED
    BY <1>8, <2>3, <2>4 DEF stated
<1>11. routes = {} => SamlRoutesOf(app).diagnostics # {}
  <2>1. SUFFICES ASSUME routes = {} PROVE all = <<>>
    BY <1>1 DEF all
  <2>2. ASSUME Len(all) # 0 PROVE FALSE
    <3>1. 1 \in 1 .. Len(all)
      BY <1>5, <2>2
    <3>2. rows[1].route \in routes
      BY <1>6, <3>1
    <3>3. QED
      BY <2>1, <3>2
  <2>3. QED
    BY <1>2, <2>2
<1>12. QED
  BY <1>9, <1>10, <1>11, Zenon DEF AppRoutesAreProven, routes, urls, catalogued

(***************************************************************************)
(* A route that is in the graph is one that the configuration proves        *)
(* (_saml_routes, _saml_acs_rows, _resolve_oin_routes), whatever the        *)
(* settings contradict, leave out or share, and for every version of the    *)
(* org that is collected.                                                   *)
(***************************************************************************)
THEOREM RoutesAreProvable == Spec => []RoutesAreProven
<1>1. ASSUME Inv, NEW app \in db["applications"], IsSamlApplication(app)
      PROVE  AppRoutesAreProven(app)
  BY <1>1, RoutesOfAppAreProven DEF Inv, TablesAreListed, AppsAreUnique
<1>2. Inv => RoutesAreProven
  <2>1. RoutesAreProven
          <=> \A app \in {a \in db["applications"] : IsSamlApplication(a)} : AppRoutesAreProven(app)
    BY DEF RoutesAreProven, AppRoutesAreProven
  <2>2. QED
    BY <1>1, <2>1
<1>3. QED
  BY <1>2, InvHolds, PTL

-----------------------------------------------------------------------------
(* The bounds, and the ids of what is collected. *)

BoundsInv == lost \subseteq Tables /\ faults \in 0 .. MaxFaults

\* The ids in the rows of a table are of their kinds.
IsKnown(t, r) ==
  /\ t \in {"users", "application_users", "identity_provider_users"} => r.id \in IdsOf["USER"]
  /\ t = "groups" => r.id \in IdsOf["GROUP"]
  /\ t = "applications" => r.id \in IdsOf["APPLICATION"]
  /\ t = "application_group_push_mappings" =>
       r.app \in IdsOf["APPLICATION"] /\ r.group \in IdsOf["GROUP"]
  /\ t = "identity_providers" => r.id \in IdsOf["IDP"] /\ r.groups \subseteq IdsOf["GROUP"]

KnownInv == \A t \in Tables : \A r \in db[t] : IsKnown(t, r)

\* A user that Okta has linked is linked to an IdP that was collected, once.
IsOf(u, i) == u.idp = i.id /\ u.type = i.type /\ u.protocol = i.protocol
LinksInv ==
  /\ turn < 7 => db["identity_provider_users"] = {}
  /\ \A i, j \in db["identity_providers"] : i.id = j.id => i = j
  /\ \A u \in db["identity_provider_users"] : \E i \in db["identity_providers"] : IsOf(u, i)
  /\ \A u, w \in db["identity_provider_users"] : u.id = w.id /\ u.idp = w.idp => u = w

WholeInv == Inv /\ BoundsInv /\ KnownInv /\ LinksInv

LEMMA KindsAre ==
  /\ DOMAIN IdsOf = {"ORG", "USER", "GROUP", "APPLICATION", "IDP"}
  /\ IdsOf["ORG"] = {OrgId}
  /\ \A v \in Orgs :
       /\ Ids(v.users) \subseteq IdsOf["USER"] /\ Ids(v.assignments) \subseteq IdsOf["USER"]
       /\ Ids(v.links) \subseteq IdsOf["USER"]
       /\ Ids(v.groups) \subseteq IdsOf["GROUP"]
       /\ {m.group : m \in v.mappings} \subseteq IdsOf["GROUP"]
       /\ Ids(v.applications) \subseteq IdsOf["APPLICATION"]
       /\ Ids(v.idps) \subseteq IdsOf["IDP"]
       /\ \A i \in v.idps : i.groups \subseteq IdsOf["GROUP"]
<1>1. DOMAIN IdsOf = {"ORG", "USER", "GROUP", "APPLICATION", "IDP"} /\ IdsOf["ORG"] = {OrgId}
  BY DEF IdsOf
<1>2. IdsOf["USER"] = UNION {UNION {Ids(v.users), Ids(v.assignments), Ids(v.links)} : v \in Orgs}
  BY DEF IdsOf
<1>3. IdsOf["GROUP"]
        = UNION {UNION {Ids(v.groups), {m.group : m \in v.mappings},
                        UNION {i.groups : i \in v.idps}} : v \in Orgs}
  BY DEF IdsOf
<1>4. IdsOf["APPLICATION"] = UNION {Ids(v.applications) : v \in Orgs}
      /\ IdsOf["IDP"] = UNION {Ids(v.idps) : v \in Orgs}
  BY DEF IdsOf
<1>5. ASSUME NEW v \in Orgs
      PROVE  /\ Ids(v.users) \subseteq IdsOf["USER"] /\ Ids(v.assignments) \subseteq IdsOf["USER"]
             /\ Ids(v.links) \subseteq IdsOf["USER"]
  BY <1>2
<1>6. ASSUME NEW v \in Orgs
      PROVE  /\ Ids(v.groups) \subseteq IdsOf["GROUP"]
             /\ {m.group : m \in v.mappings} \subseteq IdsOf["GROUP"]
             /\ \A i \in v.idps : i.groups \subseteq IdsOf["GROUP"]
  BY <1>3
<1>7. ASSUME NEW v \in Orgs
      PROVE  Ids(v.applications) \subseteq IdsOf["APPLICATION"] /\ Ids(v.idps) \subseteq IdsOf["IDP"]
  BY <1>4
<1>8. QED
  BY <1>1, <1>5, <1>6, <1>7

LEMMA VersionIs ==
  ASSUME Inv, NEW v \in Versions
  PROVE  history[v] \in Orgs /\ history[v] \in SeenVersions
BY HistoryIs DEF Inv, HistoryInv

LEMMA FaultIs ==
  ASSUME BoundsInv, NEW n \in Nat, Fault(n)
  PROVE  faults' \in 0 .. MaxFaults
BY BoundAssumption DEF BoundsInv, Fault

LEMMA CollectedBounds ==
  ASSUME BoundsInv, NEW t \in Tables, NEW rows, Collected(t, rows)
  PROVE  BoundsInv'
<1>1. Tables' = Tables
  BY DEF Tables, Order
<1>2. CASE UNCHANGED <<faults, lost>>
  BY <1>1, <1>2 DEF BoundsInv
<1>3. CASE Partial(t, rows)
  BY <1>1, <1>3, FaultIs DEF BoundsInv, Partial
<1>4. QED
  BY <1>2, <1>3 DEF Collected

LEMMA SubsetsAreCounted ==
  ASSUME NEW S, IsFiniteSet(S), NEW T \in SUBSET S
  PROVE  Cardinality(T) \in Nat
BY FS_Subset, FS_CardinalityType

LEMMA BoundsNext == Inv /\ BoundsInv /\ [Next]_vars => BoundsInv'
<1>1. SUFFICES ASSUME Inv, BoundsInv, [Next]_vars PROVE BoundsInv'
  OBVIOUS
<1>2. Tables' = Tables
  BY DEF Tables, Order
<1>3. CASE CollectUsers
  BY <1>1, <1>3, CollectedBounds, TablesAre DEF CollectUsers
<1>4. CASE CollectGroups
  BY <1>1, <1>4, CollectedBounds, TablesAre DEF CollectGroups
<1>5. CASE CollectApplications
  <2>1. PICK v \in Versions :
          \E hidden \in SUBSET {a \in history[v].applications : IsSamlApplication(a)} :
            Fault(Cardinality(hidden))
    BY <1>5 DEF CollectApplications
  <2>2. PICK hidden \in SUBSET {a \in history[v].applications : IsSamlApplication(a)} :
          Fault(Cardinality(hidden))
    BY <2>1
  <2>3. IsFiniteSet(history[v].applications)
    BY <1>1, VersionIs, OrgsAssumption
  <2>4. Cardinality(hidden) \in Nat
    BY <2>3, SubsetsAreCounted
  <2>5. UNCHANGED lost
    BY <1>5 DEF CollectApplications
  <2>6. QED
    BY <1>1, <1>2, <2>2, <2>4, <2>5, FaultIs DEF BoundsInv
<1>6. CASE CollectApplicationUsers
  BY <1>1, <1>6, CollectedBounds, TablesAre DEF CollectApplicationUsers
<1>7. CASE CollectMappings
  <2> DEFINE t == "application_group_push_mappings"
             seen(v) == UNION {{m \in history[v[a]].mappings : m.app = a.id} :
                                 a \in {b \in DOMAIN v : "GROUP_PUSH" \in b.features}}
  <2>1. PICK v \in Views("applications") :
          \/ (\E nameless \in SUBSET seen(v) : Fault(Cardinality(nameless))) /\ UNCHANGED lost
          \/ \E rows : Partial(t, rows)
    BY <1>7 DEF CollectMappings
  <2>2. CASE \E rows : Partial(t, rows)
    <3>1. PICK rows : Partial(t, rows)
      BY <2>2
    <3>2. Collected(t, rows)
      BY <3>1 DEF Collected
    <3>3. QED
      BY <1>1, <3>2, CollectedBounds, TablesAre
  <2>3. CASE (\E nameless \in SUBSET seen(v) : Fault(Cardinality(nameless))) /\ UNCHANGED lost
    <3>1. PICK nameless \in SUBSET seen(v) : Fault(Cardinality(nameless))
      BY <2>3
    <3> DEFINE all == UNION {o.mappings : o \in ToSet(history)}
    <3>2. IsFiniteSet(all)
      BY <1>1, OrgsAssumption DEF Inv, HistoryInv
    <3>3. ASSUME NEW a \in DOMAIN v
          PROVE  history[v[a]].mappings \subseteq all
      <4>1. v[a] \in Versions
        BY <1>1, <3>3, HistoryIs DEF Inv, HistoryInv, Views, Versions
      <4>2. history[v[a]] \in ToSet(history)
        BY <1>1, <4>1, VersionIs DEF SeenVersions
      <4>3. QED
        BY <4>2
    <3>4. nameless \subseteq all
      BY <3>1, <3>3
    <3> HIDE DEF all
    <3>5. Cardinality(nameless) \in Nat
      BY <3>2, <3>4, SubsetsAreCounted
    <3>6. QED
      BY <1>1, <1>2, <2>3, <3>1, <3>5, FaultIs DEF BoundsInv
  <2>4. QED
    BY <2>1, <2>2, <2>3
<1>8. CASE CollectIdentityProviders
  <2> DEFINE t == "identity_providers"
  <2>1. PICK v \in Versions :
          \/ /\ \E hidden \in SUBSET {i \in history[v].idps : IsSamlIdentityProvider(i)} :
                  Fault(Cardinality(hidden))
             /\ UNCHANGED lost
          \/ Partial(t, history[v].idps)
    BY <1>8 DEF CollectIdentityProviders
  <2>2. CASE Partial(t, history[v].idps)
    <3>1. Collected(t, history[v].idps)
      BY <2>2 DEF Collected
    <3>2. QED
      BY <1>1, <3>1, CollectedBounds, TablesAre
  <2>3. CASE /\ \E hidden \in SUBSET {i \in history[v].idps : IsSamlIdentityProvider(i)} :
                  Fault(Cardinality(hidden))
             /\ UNCHANGED lost
    <3>1. PICK hidden \in SUBSET {i \in history[v].idps : IsSamlIdentityProvider(i)} :
            Fault(Cardinality(hidden))
      BY <2>3
    <3>2. IsFiniteSet(history[v].idps)
      BY <1>1, VersionIs, OrgsAssumption
    <3>3. Cardinality(hidden) \in Nat
      BY <3>2, SubsetsAreCounted
    <3>4. QED
      BY <1>1, <1>2, <2>3, <3>1, <3>3, FaultIs DEF BoundsInv
  <2>4. QED
    BY <2>1, <2>2, <2>3
<1>9. CASE CollectIdpUsers
  BY <1>1, <1>9, CollectedBounds, TablesAre DEF CollectIdpUsers
<1>10. CASE CollectionFails
  BY <1>1, <1>2, <1>10, FaultIs DEF BoundsInv, CollectionFails
<1>11. CASE Preprocess \/ Convert \/ UNCHANGED vars
  BY <1>1, <1>2, <1>11 DEF BoundsInv, Preprocess, Convert, vars
<1>12. QED
  BY <1>1, <1>3, <1>4, <1>5, <1>6, <1>7, <1>8, <1>9, <1>10, <1>11 DEF Next, Ended

\* A step that fills a table with known rows.
LEMMA KnownKeeps ==
  ASSUME Inv, KnownInv, NEW t \in Tables, NEW rows, Full(t, rows),
         \A r \in rows : IsKnown(t, r)
  PROVE  KnownInv'
<1>1. DOMAIN db' = Tables /\ db'[t] = rows /\ \A u \in Tables \ {t} : db'[u] = db[u]
  BY FullLeaves DEF Inv, TablesAreListed
<1>2. SUFFICES ASSUME NEW u \in Tables, NEW r \in db'[u] PROVE IsKnown(u, r)
  <2>1. Tables' = Tables
    BY DEF Tables, Order
  <2>2. IdsOf' = IdsOf
    BY DEF IdsOf
  <2>3. QED
    BY <1>2, <2>1, <2>2 DEF KnownInv, IsKnown
<1>3. CASE u = t
  BY <1>1, <1>2, <1>3
<1>4. CASE u # t
  BY <1>1, <1>2, <1>4 DEF KnownInv
<1>5. QED
  BY <1>3, <1>4

LEMMA CollectedIsKnown ==
  ASSUME Inv, KnownInv, NEW t \in Tables, NEW rows, Collected(t, rows),
         \A r \in rows : IsKnown(t, r)
  PROVE  KnownInv'
<1>1. PICK kept \in SUBSET rows : Full(t, kept)
  BY CollectedIs
<1>2. QED
  BY <1>1, KnownKeeps

LEMMA ViewIs ==
  ASSUME Inv, NEW t \in Tables, NEW v \in Views(t), NEW a \in DOMAIN v
  PROVE  a \in db[t] /\ v[a] \in Versions /\ history[v[a]] \in Orgs
<1>1. a \in db[t] /\ v[a] \in asOf .. Len(history)
  BY DEF Views
<1>2. v[a] \in Versions
  BY <1>1, HistoryIs DEF Inv, HistoryInv, Versions
<1>3. QED
  BY <1>1, <1>2, VersionIs

LEMMA UsersAreKnown == Inv /\ KnownInv /\ (CollectUsers \/ CollectGroups) => KnownInv'
<1>1. SUFFICES ASSUME Inv, KnownInv, CollectUsers \/ CollectGroups PROVE KnownInv'
  OBVIOUS
<1>2. CASE CollectUsers
  <2>1. PICK v \in Versions : Collected("users", history[v].users)
    BY <1>2 DEF CollectUsers
  <2>2. \A r \in history[v].users : IsKnown("users", r)
    BY <1>1, VersionIs, KindsAre DEF IsKnown, Ids
  <2>3. QED
    BY <1>1, <2>1, <2>2, CollectedIsKnown, TablesAre
<1>3. CASE CollectGroups
  <2>1. PICK v \in Versions : Collected("groups", history[v].groups)
    BY <1>3 DEF CollectGroups
  <2>2. \A r \in history[v].groups : IsKnown("groups", r)
    BY <1>1, VersionIs, KindsAre DEF IsKnown, Ids
  <2>3. QED
    BY <1>1, <2>1, <2>2, CollectedIsKnown, TablesAre
<1>4. QED
  BY <1>1, <1>2, <1>3

\* What is left out of the row of an application does not change its id.
LEMMA ShownApplicationIs ==
  ASSUME NEW v \in Orgs, NEW a \in v.applications
  PROVE  [a EXCEPT !.metadata = NoText].id = a.id
<1>1. "id" \in DOMAIN a
  BY OrgsAssumption
<1>2. QED
  BY <1>1

LEMMA ApplicationsAreKnown == Inv /\ KnownInv /\ CollectApplications => KnownInv'
<1>1. SUFFICES ASSUME Inv, KnownInv, CollectApplications PROVE KnownInv'
  OBVIOUS
<1>2. PICK v \in Versions :
        \E hidden \in SUBSET {a \in history[v].applications : IsSamlApplication(a)} :
          Full("applications",
               {IF a \in hidden THEN [a EXCEPT !.metadata = NoText] ELSE a :
                  a \in history[v].applications})
  BY <1>1 DEF CollectApplications
<1>3. PICK hidden \in SUBSET {a \in history[v].applications : IsSamlApplication(a)} :
        Full("applications",
             {IF a \in hidden THEN [a EXCEPT !.metadata = NoText] ELSE a :
                a \in history[v].applications})
  BY <1>2
<1> DEFINE Shown(a) == IF a \in hidden THEN [a EXCEPT !.metadata = NoText] ELSE a
           rows == {Shown(a) : a \in history[v].applications}
<1>4. ASSUME NEW a \in history[v].applications
      PROVE  Shown(a).id \in IdsOf["APPLICATION"]
  <2>1. history[v] \in Orgs
    BY <1>1, VersionIs
  <2>2. a.id \in IdsOf["APPLICATION"]
    BY <1>4, <2>1, KindsAre DEF Ids
  <2>3. Shown(a).id = a.id
    BY <1>4, <2>1, ShownApplicationIs
  <2>4. QED
    BY <2>2, <2>3
<1>5. Full("applications", rows)
  BY <1>3
<1> HIDE DEF Shown
<1>6. \A r \in rows : IsKnown("applications", r)
  BY <1>4 DEF IsKnown
<1> HIDE DEF rows
<1>7. QED
  BY <1>1, <1>5, <1>6, KnownKeeps, TablesAre

LEMMA ApplicationUsersAreKnown == Inv /\ KnownInv /\ CollectApplicationUsers => KnownInv'
<1>1. SUFFICES ASSUME Inv, KnownInv, CollectApplicationUsers PROVE KnownInv'
  OBVIOUS
<1> DEFINE t == "application_users"
<1>2. PICK v \in Views("applications") :
        Collected(t, UNION {ApplicationUserRows(a, history[v[a]]) : a \in DOMAIN v})
  BY <1>1 DEF CollectApplicationUsers
<1> DEFINE rows == UNION {ApplicationUserRows(a, history[v[a]]) : a \in DOMAIN v}
<1>3. ASSUME NEW a \in DOMAIN v, NEW r \in ApplicationUserRows(a, history[v[a]])
      PROVE  IsKnown(t, r)
  <2>1. history[v[a]] \in Orgs
    BY <1>1, <1>3, ViewIs, TablesAre
  <2>2. PICK x \in history[v[a]].assignments : r.id = x.id
    BY <1>3 DEF ApplicationUserRows
  <2>3. QED
    BY <2>1, <2>2, KindsAre DEF IsKnown, Ids
<1>4. \A r \in rows : IsKnown(t, r)
  BY <1>3
<1> HIDE DEF rows
<1>5. QED
  BY <1>1, <1>2, <1>4, CollectedIsKnown, TablesAre DEF rows

LEMMA MappingsAreKnown == Inv /\ KnownInv /\ CollectMappings => KnownInv'
<1>1. SUFFICES ASSUME Inv, KnownInv, CollectMappings PROVE KnownInv'
  OBVIOUS
<1> DEFINE t == "application_group_push_mappings"
           seen(v) == UNION {{m \in history[v[a]].mappings : m.app = a.id} :
                               a \in {b \in DOMAIN v : "GROUP_PUSH" \in b.features}}
<1>2. PICK v \in Views("applications") :
        \/ \E nameless \in SUBSET seen(v) :
             Full(t, {MappingRow(m, IF m \in nameless THEN NoText ELSE m.targetName) :
                        m \in seen(v)})
        \/ Partial(t, {MappingRow(m, m.targetName) : m \in seen(v)})
  BY <1>1 DEF CollectMappings
<1>3. ASSUME NEW m \in seen(v), NEW name
      PROVE  IsKnown(t, MappingRow(m, name))
  <2>1. PICK a \in DOMAIN v : m \in history[v[a]].mappings /\ m.app = a.id
    BY <1>3
  <2>2. a \in db["applications"] /\ history[v[a]] \in Orgs
    BY <1>1, <2>1, ViewIs, TablesAre
  <2>3. a.id \in IdsOf["APPLICATION"]
    BY <1>1, <2>2, TablesAre DEF KnownInv, IsKnown
  <2>4. m.group \in IdsOf["GROUP"]
    BY <2>1, <2>2, KindsAre
  <2>5. QED
    BY <2>1, <2>3, <2>4 DEF MappingRow, IsKnown
<1> HIDE DEF seen
<1>4. CASE \E nameless \in SUBSET seen(v) :
             Full(t, {MappingRow(m, IF m \in nameless THEN NoText ELSE m.targetName) :
                        m \in seen(v)})
  <2>1. PICK nameless \in SUBSET seen(v) :
          Full(t, {MappingRow(m, IF m \in nameless THEN NoText ELSE m.targetName) :
                     m \in seen(v)})
    BY <1>4
  <2> DEFINE name(m) == IF m \in nameless THEN NoText ELSE m.targetName
             rows == {MappingRow(m, name(m)) : m \in seen(v)}
  <2>2. Full(t, rows)
    BY <2>1
  <2> HIDE DEF name
  <2>3. \A r \in rows : IsKnown(t, r)
    BY <1>3
  <2> HIDE DEF rows
  <2>4. QED
    BY <1>1, <2>2, <2>3, KnownKeeps, TablesAre
<1>5. CASE Partial(t, {MappingRow(m, m.targetName) : m \in seen(v)})
  <2> DEFINE rows == {MappingRow(m, m.targetName) : m \in seen(v)}
  <2>1. \A r \in rows : IsKnown(t, r)
    BY <1>3
  <2>2. Collected(t, rows)
    BY <1>5 DEF Collected
  <2> HIDE DEF rows
  <2>3. QED
    BY <1>1, <2>1, <2>2, CollectedIsKnown, TablesAre
<1>6. QED
  BY <1>2, <1>4, <1>5

LEMMA WithoutMetadataIs ==
  ASSUME NEW v \in Orgs, NEW i \in v.idps
  PROVE  WithoutMetadata(i).id = i.id /\ WithoutMetadata(i).groups = i.groups
<1>1. "id" \in DOMAIN i /\ "groups" \in DOMAIN i
  BY OrgsAssumption
<1>2. QED
  BY <1>1 DEF WithoutMetadata

\* What the table of the IdPs is filled with.
IdpRows(v, rows) ==
  \/ rows \in SUBSET history[v].idps
  \/ \E hidden \in SUBSET history[v].idps :
       rows = {IF i \in hidden THEN WithoutMetadata(i) ELSE i : i \in history[v].idps}

LEMMA IdpRowsAre ==
  ASSUME Inv, NEW v \in Versions, NEW rows, IdpRows(v, rows)
  PROVE  /\ \A r \in rows : IsKnown("identity_providers", r)
         /\ \A r, s \in rows : r.id = s.id => r = s
<1> DEFINE idps == history[v].idps
<1>1. history[v] \in Orgs
  BY VersionIs
<1>2. \A i \in idps : IsKnown("identity_providers", i)
  BY <1>1, KindsAre DEF IsKnown, Ids
<1>3. \A i, j \in idps : i.id = j.id => i = j
  BY <1>1, OrgsAssumption
<1>4. CASE rows \in SUBSET idps
  BY <1>2, <1>3, <1>4
<1>5. CASE \E hidden \in SUBSET idps :
             rows = {IF i \in hidden THEN WithoutMetadata(i) ELSE i : i \in idps}
  <2>1. PICK hidden \in SUBSET idps :
          rows = {IF i \in hidden THEN WithoutMetadata(i) ELSE i : i \in idps}
    BY <1>5
  <2> DEFINE Shown(i) == IF i \in hidden THEN WithoutMetadata(i) ELSE i
  <2>2. rows = {Shown(i) : i \in idps}
    BY <2>1
  <2>3. \A i \in idps : Shown(i).id = i.id /\ Shown(i).groups = i.groups
    BY <1>1, WithoutMetadataIs
  <2> HIDE DEF Shown, idps
  <2>4. \A i \in idps : IsKnown("identity_providers", Shown(i))
    BY <1>2, <2>3 DEF IsKnown
  <2>5. \A i, j \in idps : Shown(i).id = Shown(j).id => Shown(i) = Shown(j)
    BY <1>3, <2>3
  <2>6. QED
    BY <2>2, <2>4, <2>5
<1>6. QED
  BY <1>4, <1>5 DEF IdpRows

LEMMA IdpRowsAreFilled ==
  ASSUME Inv, CollectIdentityProviders
  PROVE  \E v \in Versions : \E rows : Full("identity_providers", rows) /\ IdpRows(v, rows)
<1> DEFINE t == "identity_providers"
           shown(v, hidden) ==
             {IF i \in hidden THEN WithoutMetadata(i) ELSE i : i \in history[v].idps}
<1>1. PICK v \in Versions :
        \/ \E hidden \in SUBSET {i \in history[v].idps : IsSamlIdentityProvider(i)} :
             Full(t, shown(v, hidden))
        \/ Partial(t, history[v].idps)
  BY DEF CollectIdentityProviders
<1>2. CASE Partial(t, history[v].idps)
  <2>1. PICK kept \in SUBSET history[v].idps : Full(t, kept)
    BY <1>2 DEF Partial
  <2>2. QED
    BY <2>1 DEF IdpRows
<1>3. CASE \E hidden \in SUBSET {i \in history[v].idps : IsSamlIdentityProvider(i)} :
             Full(t, shown(v, hidden))
  <2>1. PICK hidden \in SUBSET history[v].idps : Full(t, shown(v, hidden))
    BY <1>3
  <2>2. IdpRows(v, shown(v, hidden))
    BY DEF IdpRows
  <2> HIDE DEF shown
  <2>3. QED
    BY <2>1, <2>2
<1>4. QED
  BY <1>1, <1>2, <1>3

LEMMA IdentityProvidersAreKnown ==
  Inv /\ KnownInv /\ CollectIdentityProviders => KnownInv'
<1>1. SUFFICES ASSUME Inv, KnownInv, CollectIdentityProviders PROVE KnownInv'
  OBVIOUS
<1>2. PICK v \in Versions : \E rows : Full("identity_providers", rows) /\ IdpRows(v, rows)
  BY <1>1, IdpRowsAreFilled
<1>3. PICK rows : Full("identity_providers", rows) /\ IdpRows(v, rows)
  BY <1>2
<1>4. QED
  BY <1>1, <1>3, IdpRowsAre, KnownKeeps, TablesAre

\* What the table of the linked users is filled with.
LinkRows(v) ==
  UNION {{IdpUserRow(i, k) : k \in {l \in history[v[i]].links : l.idp = i.id}} : i \in DOMAIN v}

LEMMA LinkRowIs ==
  ASSUME Inv, NEW v \in Views("identity_providers"), NEW r \in LinkRows(v)
  PROVE  \E i \in db["identity_providers"] : \E k \in history[v[i]].links :
           /\ history[v[i]] \in Orgs /\ IsOf(r, i) /\ r.id = k.id /\ k.idp = i.id
           /\ r = IdpUserRow(i, k)
<1>1. PICK i \in DOMAIN v :
        r \in {IdpUserRow(i, k) : k \in {l \in history[v[i]].links : l.idp = i.id}}
  BY DEF LinkRows
<1>2. PICK k \in history[v[i]].links : k.idp = i.id /\ r = IdpUserRow(i, k)
  BY <1>1
<1>3. i \in db["identity_providers"] /\ history[v[i]] \in Orgs
  BY ViewIs, TablesAre
<1>4. r.id = k.id /\ IsOf(r, i)
  BY <1>2 DEF IsOf, IdpUserRow
<1>5. QED
  BY <1>2, <1>3, <1>4

LEMMA IdpUsersAreKnown == Inv /\ KnownInv /\ CollectIdpUsers => KnownInv'
<1>1. SUFFICES ASSUME Inv, KnownInv, CollectIdpUsers PROVE KnownInv'
  OBVIOUS
<1> DEFINE t == "identity_provider_users"
<1>2. PICK v \in Views("identity_providers") : Collected(t, LinkRows(v))
  BY <1>1 DEF CollectIdpUsers, LinkRows
<1>3. ASSUME NEW r \in LinkRows(v)
      PROVE  IsKnown(t, r)
  <2>1. PICK i \in db["identity_providers"] : \E k \in history[v[i]].links :
          history[v[i]] \in Orgs /\ r.id = k.id
    BY <1>1, <1>3, LinkRowIs
  <2>2. QED
    BY <2>1, KindsAre DEF IsKnown, Ids
<1>4. QED
  BY <1>1, <1>2, <1>3, CollectedIsKnown, TablesAre

LEMMA KnownNext == Inv /\ KnownInv /\ [Next]_vars => KnownInv'
<1>1. SUFFICES ASSUME Inv, KnownInv, [Next]_vars PROVE KnownInv'
  OBVIOUS
<1>2. CASE CollectionFails \/ Preprocess \/ Convert \/ UNCHANGED vars
  <2>1. UNCHANGED db
    BY <1>2 DEF CollectionFails, Preprocess, Convert, vars
  <2>2. Tables' = Tables /\ IdsOf' = IdsOf
    BY DEF Tables, Order, IdsOf
  <2>3. QED
    BY <1>1, <2>1, <2>2 DEF KnownInv, IsKnown
<1>3. QED
  BY <1>1, <1>2, UsersAreKnown, ApplicationsAreKnown, ApplicationUsersAreKnown,
     MappingsAreKnown, IdentityProvidersAreKnown, IdpUsersAreKnown DEF Next, Ended

LEMMA LinksKept ==
  ASSUME Inv, LinksInv, turn' >= turn, turn' \in Nat,
         db'["identity_providers"] = db["identity_providers"],
         db'["identity_provider_users"] = db["identity_provider_users"]
  PROVE  LinksInv'
<1>1. turn \in 0 .. 7
  BY OrderIs DEF Inv, GraphInv
<1>2. QED
  BY <1>1 DEF LinksInv, IsOf

LEMMA LinksOfOthersKeep ==
  ASSUME Inv, LinksInv, NEW t \in Tables \ {"identity_providers", "identity_provider_users"},
         Due(t), NEW rows, Full(t, rows)
  PROVE  LinksInv'
<1>1. db'["identity_providers"] = db["identity_providers"]
      /\ db'["identity_provider_users"] = db["identity_provider_users"]
  BY FullLeaves, TablesAre DEF Inv, TablesAreListed
<1>2. turn \in 0 .. 7 /\ turn' = turn + 1
  BY PositionIs, OrderIs DEF Inv, GraphInv
<1>3. QED
  BY <1>1, <1>2, LinksKept

LEMMA LinksOfIdpsKeep == Inv /\ LinksInv /\ CollectIdentityProviders => LinksInv'
<1>1. SUFFICES ASSUME Inv, LinksInv, CollectIdentityProviders PROVE LinksInv'
  OBVIOUS
<1> DEFINE t == "identity_providers"
<1>2. PICK v \in Versions : \E rows : Full(t, rows) /\ IdpRows(v, rows)
  BY <1>1, IdpRowsAreFilled
<1>3. PICK rows : Full(t, rows) /\ IdpRows(v, rows)
  BY <1>2
<1>4. Due(t) /\ turn < 7
  BY <1>1, PositionIs, TablesAre DEF CollectIdentityProviders, Inv, GraphInv
<1>5. db'[t] = rows /\ db'["identity_provider_users"] = {}
  BY <1>1, <1>3, <1>4, FullLeaves, TablesAre DEF Inv, TablesAreListed, LinksInv
<1>6. \A r, s \in rows : r.id = s.id => r = s
  BY <1>1, <1>3, IdpRowsAre
<1>7. QED
  BY <1>5, <1>6 DEF LinksInv

LEMMA LinksOfIdpUsersKeep == Inv /\ LinksInv /\ CollectIdpUsers => LinksInv'
<1>1. SUFFICES ASSUME Inv, LinksInv, CollectIdpUsers PROVE LinksInv'
  OBVIOUS
<1> DEFINE t == "identity_provider_users"
           idps == db["identity_providers"]
<1>2. PICK v \in Views("identity_providers") : Collected(t, LinkRows(v))
  BY <1>1 DEF CollectIdpUsers, LinkRows
<1>3. PICK kept \in SUBSET LinkRows(v) : Full(t, kept)
  BY <1>2, CollectedIs, TablesAre
<1>4. db'[t] = kept /\ db'["identity_providers"] = idps
  BY <1>1, <1>3, FullLeaves, TablesAre DEF Inv, TablesAreListed
<1>5. ~(turn' < 7)
  <2>1. Order[turn + 1] = t /\ turn' = turn + 1 /\ turn \in 0 .. 6
    BY <1>1, OrderIs DEF CollectIdpUsers, Due, Inv, GraphInv
  <2>2. turn \in {0, 1, 2, 3, 4, 5, 6}
    BY <2>1
  <2>3. turn = 6
    BY <2>1, <2>2, OrderIs
  <2>4. QED
    BY <2>1, <2>3
<1>6. \A i, j \in idps : i.id = j.id => i = j
  BY <1>1 DEF LinksInv
<1>7. \A u \in kept : \E i \in idps : IsOf(u, i)
  <2>1. ASSUME NEW u \in LinkRows(v)
        PROVE  \E i \in idps : IsOf(u, i)
    BY <1>1, <2>1, LinkRowIs
  <2>2. QED
    BY <1>3, <2>1
<1>8. ASSUME NEW u \in LinkRows(v), NEW w \in LinkRows(v), u.id = w.id, u.idp = w.idp
      PROVE  u = w
  <2>1. PICK i \in idps : \E k \in history[v[i]].links :
           /\ history[v[i]] \in Orgs /\ IsOf(u, i) /\ u.id = k.id /\ k.idp = i.id
           /\ u = IdpUserRow(i, k)
    BY <1>1, LinkRowIs
  <2>2. PICK k \in history[v[i]].links :
           /\ history[v[i]] \in Orgs /\ IsOf(u, i) /\ u.id = k.id /\ k.idp = i.id
           /\ u = IdpUserRow(i, k)
    BY <2>1
  <2>3. PICK j \in idps : \E l \in history[v[j]].links :
           /\ IsOf(w, j) /\ w.id = l.id /\ l.idp = j.id /\ w = IdpUserRow(j, l)
    BY <1>1, LinkRowIs
  <2>4. PICK l \in history[v[j]].links :
           /\ IsOf(w, j) /\ w.id = l.id /\ l.idp = j.id /\ w = IdpUserRow(j, l)
    BY <2>3
  <2>5. i = j
    BY <1>6, <1>8, <2>2, <2>4 DEF IsOf
  <2>6. k = l
    <3>1. \A x, y \in history[v[i]].links : x.id = y.id /\ x.idp = y.idp => x = y
      BY <2>2, OrgsAssumption
    <3>2. k.id = l.id /\ k.idp = l.idp /\ l \in history[v[i]].links
      BY <1>8, <2>2, <2>4, <2>5
    <3>3. QED
      BY <3>1, <3>2
  <2>7. QED
    BY <2>2, <2>4, <2>5, <2>6
<1> HIDE DEF idps
<1>9. /\ \A u \in kept : \E i \in idps : IsOf(u, i)
      /\ \A u, w \in kept : u.id = w.id /\ u.idp = w.idp => u = w
  BY <1>3, <1>7, <1>8
<1>10. (\A u \in db[t] : \E i \in db["identity_providers"] : IsOf(u, i))'
  BY <1>4, <1>9 DEF IsOf
<1>11. QED
  BY <1>4, <1>5, <1>6, <1>9, <1>10 DEF LinksInv

LEMMA LinksNext == Inv /\ LinksInv /\ [Next]_vars => LinksInv'
<1>1. SUFFICES ASSUME Inv, LinksInv, [Next]_vars PROVE LinksInv'
  OBVIOUS
<1>2. CASE CollectionFails \/ Preprocess \/ Convert \/ UNCHANGED vars
  <2>1. UNCHANGED <<db, turn>>
    BY <1>2 DEF CollectionFails, Preprocess, Convert, vars
  <2>2. turn \in Nat
    BY <1>1, OrderIs DEF Inv, GraphInv
  <2>3. QED
    BY <1>1, <2>1, <2>2, LinksKept
<1>3. CASE CollectUsers
  <2>1. Due("users") /\ \E rows : Collected("users", rows)
    BY <1>3 DEF CollectUsers
  <2>2. \E rows : Full("users", rows)
    BY <2>1, CollectedIs, TablesAre
  <2>3. QED
    BY <1>1, <2>1, <2>2, LinksOfOthersKeep, TablesAre
<1>4. CASE CollectGroups
  <2>1. Due("groups") /\ \E rows : Collected("groups", rows)
    BY <1>4 DEF CollectGroups
  <2>2. \E rows : Full("groups", rows)
    BY <2>1, CollectedIs, TablesAre
  <2>3. QED
    BY <1>1, <2>1, <2>2, LinksOfOthersKeep, TablesAre
<1>5. CASE CollectApplications
  <2>1. Due("applications") /\ \E rows : Full("applications", rows)
    BY <1>5 DEF CollectApplications
  <2>2. QED
    BY <1>1, <2>1, LinksOfOthersKeep, TablesAre
<1>6. CASE CollectApplicationUsers
  <2>1. Due("application_users") /\ \E rows : Collected("application_users", rows)
    BY <1>6 DEF CollectApplicationUsers
  <2>2. \E rows : Full("application_users", rows)
    BY <2>1, CollectedIs, TablesAre
  <2>3. QED
    BY <1>1, <2>1, <2>2, LinksOfOthersKeep, TablesAre
<1>7. CASE CollectMappings
  <2> DEFINE t == "application_group_push_mappings"
  <2>1. Due(t) /\ \E rows : Full(t, rows)
    BY <1>7 DEF CollectMappings, Partial
  <2>2. QED
    BY <1>1, <2>1, LinksOfOthersKeep, TablesAre
<1>8. QED
  BY <1>1, <1>2, <1>3, <1>4, <1>5, <1>6, <1>7, LinksOfIdpsKeep, LinksOfIdpUsersKeep
     DEF Next, Ended

LEMMA WholeHolds == Spec => []WholeInv
<1>1. Init => WholeInv
  <2>1. SUFFICES ASSUME Init PROVE WholeInv
    OBVIOUS
  <2>2. db = [t \in Tables |-> {}] /\ lost = {} /\ faults = 0
    BY <2>1 DEF Init
  <2>3. db["identity_providers"] = {} /\ db["identity_provider_users"] = {}
    BY <2>2, TablesAre
  <2>4. BoundsInv /\ KnownInv
    BY <2>2, BoundAssumption DEF BoundsInv, KnownInv
  <2>5. LinksInv
    BY <2>3 DEF LinksInv
  <2>6. QED
    BY <2>1, <2>4, <2>5, InvInit DEF WholeInv
<1>2. WholeInv /\ [Next]_vars => WholeInv'
  BY InvNext, BoundsNext, KnownNext, LinksNext DEF WholeInv
<1>3. QED
  BY <1>1, <1>2, PTL DEF Spec

-----------------------------------------------------------------------------
(* The nodes and their kinds. *)

\* What the ids of the nodes of SAML begin with.
Tags ==
  [SAML_FEDERATION_PROVIDER |-> {"provider"}, SAML_SERVICE_PROVIDER |-> {"service-provider"},
   SAML_ISSUER |-> {"issuer", "trusted-issuer"}, SAML_ACS |-> {"acs", "sp-acs"},
   SAML_CLAIM_MAPPING |-> {"claim"}, SAML_RULE |-> {"rule"}, SAML_FIELD |-> {"field"}]

OutKinds == ForeignKinds \cup {"USER", "GROUP", "IDP"}

IsLocal(node, k) == k \in DOMAIN IdsOf /\ \E id \in IdsOf[k] : node = Node(id)
IsOutside(node, k) == k \in OutKinds /\ \E matchers : node = <<k, matchers>>
IsTagged(node, k) == k \in DOMAIN Tags /\ node \in NodesOf[k]
IsNodeOf(node, k) == IsLocal(node, k) \/ IsOutside(node, k) \/ IsTagged(node, k)

LEMMA TagsAre ==
  /\ DOMAIN Tags = {"SAML_FEDERATION_PROVIDER", "SAML_SERVICE_PROVIDER", "SAML_ISSUER",
                    "SAML_ACS", "SAML_CLAIM_MAPPING", "SAML_RULE", "SAML_FIELD"}
  /\ Tags["SAML_FEDERATION_PROVIDER"] = {"provider"}
  /\ Tags["SAML_SERVICE_PROVIDER"] = {"service-provider"}
  /\ Tags["SAML_ISSUER"] = {"issuer", "trusted-issuer"} /\ Tags["SAML_ACS"] = {"acs", "sp-acs"}
  /\ Tags["SAML_CLAIM_MAPPING"] = {"claim"} /\ Tags["SAML_RULE"] = {"rule"}
  /\ Tags["SAML_FIELD"] = {"field"}
BY DEF Tags

LEMMA TagsDiffer ==
  /\ \A j, k \in DOMAIN Tags : j # k => Tags[j] \cap Tags[k] = {}
  /\ \A k \in DOMAIN Tags : Tags[k] \cap OutKinds = {}
<1>1. \A j, k \in DOMAIN Tags : j # k => Tags[j] \cap Tags[k] = {}
  BY TagsAre
<1>2. \A k \in DOMAIN Tags : Tags[k] \cap OutKinds = {}
  BY TagsAre DEF OutKinds, ForeignKinds, ForeignTenants, ForeignUsers, ForeignGroups
<1>3. QED
  BY <1>1, <1>2

LEMMA NodesAre ==
  /\ DOMAIN NodesOf = DOMAIN IdsOf \cup DOMAIN Tags
  /\ NodesOf["ORG"] = {Node(OrgId)}
  /\ NodesOf["USER"] = {Node(id) : id \in Ids(db["users"])}
  /\ NodesOf["GROUP"] = {Node(id) : id \in Ids(db["groups"])}
  /\ NodesOf["APPLICATION"] = {Node(id) : id \in Ids(db["applications"])}
  /\ NodesOf["IDP"] = {Node(id) : id \in Ids(db["identity_providers"])}
  /\ NodesOf["SAML_FEDERATION_PROVIDER"] = Ids(FederationProviders)
  /\ NodesOf["SAML_SERVICE_PROVIDER"] = Ids(ServiceProviders)
  /\ NodesOf["SAML_ISSUER"] = Ids(RowsFrom("applications", SamlIssuerRows)
                                    \cup RowsFrom("identity_providers", TrustedIssuerRows))
  /\ NodesOf["SAML_ACS"] = Ids(RowsFrom("applications", AcsRowsOf)
                                 \cup RowsFrom("identity_providers", SamlSpAcsRows))
  /\ NodesOf["SAML_CLAIM_MAPPING"] = Ids(RowsFrom("applications", SamlClaimMappingRows))
  /\ NodesOf["SAML_RULE"] = Ids(Rules)
  /\ NodesOf["SAML_FIELD"] = Ids(RowsFrom("identity_providers", AccountResolutionFieldRows))
<1>1. DOMAIN NodesOf = {"ORG", "USER", "GROUP", "APPLICATION", "IDP"} \cup DOMAIN Tags
  BY TagsAre DEF NodesOf
<1>2. DOMAIN NodesOf = DOMAIN IdsOf \cup DOMAIN Tags
  BY <1>1, KindsAre
<1>3. QED
  BY <1>2 DEF NodesOf

LEMMA LocalNodesAre ==
  ASSUME WholeInv, NEW k \in DOMAIN IdsOf, NEW node \in NodesOf[k]
  PROVE  \E id \in IdsOf[k] : node = <<id>>
<1>1. k \in {"ORG", "USER", "GROUP", "APPLICATION", "IDP"}
  BY KindsAre
<1>2. CASE k = "ORG"
  BY <1>2, KindsAre, NodesAre DEF Node
<1>3. CASE k = "USER"
  BY <1>3, NodesAre, TablesAre DEF Node, Ids, WholeInv, KnownInv, IsKnown
<1>4. CASE k = "GROUP"
  BY <1>4, NodesAre, TablesAre DEF Node, Ids, WholeInv, KnownInv, IsKnown
<1>5. CASE k = "APPLICATION"
  BY <1>5, NodesAre, TablesAre DEF Node, Ids, WholeInv, KnownInv, IsKnown
<1>6. CASE k = "IDP"
  BY <1>6, NodesAre, TablesAre DEF Node, Ids, WholeInv, KnownInv, IsKnown
<1>7. QED
  BY <1>1, <1>2, <1>3, <1>4, <1>5, <1>6

LEMMA RoutesAreListed ==
  ASSUME NEW app, IsApplication(app)
  PROVE  \E T : SamlRoutesOf(app).routes \in Seq(T) /\ \A r \in T : IsRoute(r)
<1>1. CASE IsSamlApplication(app)
  BY <1>1, RoutesOfAre DEF IsProven
<1>2. CASE ~IsSamlApplication(app)
  <2> DEFINE E == {}
             none == <<>>
  <2>1. SamlRoutesOf(app) = Resolution(none, {})
    BY <1>2 DEF SamlRoutesOf
  <2>2. SamlRoutesOf(app).routes = none
    BY <2>1, ResolutionIs
  <2>3. none \in Seq(E) /\ \A r \in E : IsRoute(r)
    OBVIOUS
  <2> HIDE DEF E, none
  <2>4. QED
    BY <2>2, <2>3
<1>3. QED
  BY <1>1, <1>2

LEMMA NumbersAreCounted ==
  ASSUME NEW n \in Nat
  PROVE  Cardinality(1 .. n) = n /\ IsFiniteSet(1 .. n)
BY FS_Interval

\* The rows of the routes have different ids.
LEMMA AcsRowsAreNumbered ==
  ASSUME NEW app, IsApplication(app)
  PROVE  /\ \A r \in AcsRowsOf(app) : \E i \in Int : r.id = SamlAcsId(app.id, i)
         /\ Cardinality(Ids(AcsRowsOf(app))) = Len(SamlRoutesOf(app).routes)
<1> DEFINE routes == SamlRoutesOf(app).routes
           rows == SamlAcsRows(app)
<1>1. PICK T : routes \in Seq(T) /\ \A r \in T : IsRoute(r)
  BY RoutesAreListed
<1>2. /\ rows \in Seq(RowsFor(app, T)) /\ Len(rows) = Len(routes)
      /\ \A i \in 1 .. Len(routes) : IsRowOf(rows[i], app, routes[i])
      /\ \A i, j \in 1 .. Len(routes) : rows[i].id = rows[j].id => i = j
  <2>1. routes = SamlRoutesOf(app).routes
    OBVIOUS
  <2> HIDE DEF routes
  <2>2. rows \in Seq(RowsFor(app, T)) /\ Len(rows) = Len(routes)
    BY <1>1, <2>1, AcsRowsAre
  <2>3. \A i \in 1 .. Len(routes) : IsRowOf(rows[i], app, routes[i])
    BY <1>1, <2>1, AcsRowsAre
  <2>4. \A i, j \in 1 .. Len(routes) : rows[i].id = rows[j].id => i = j
    <3> SUFFICES ASSUME NEW i \in 1 .. Len(routes), NEW j \in 1 .. Len(routes),
                        rows[i].id = rows[j].id
                 PROVE  i = j
      OBVIOUS
    <3>1. QED
      BY <1>1, <2>1, AcsRowsAre
  <2>5. QED
    BY <2>2, <2>3, <2>4
<1> DEFINE N == Len(routes)
           ids == Ids(AcsRowsOf(app))
           id == [i \in 1 .. N |-> rows[i].id]
<1> HIDE DEF routes, rows
<1>3. AcsRowsOf(app) = {rows[i] : i \in 1 .. N} /\ N \in Nat
  BY <1>1, <1>2 DEF AcsRowsOf, ToSet, rows
<1>4. ids = {rows[i].id : i \in 1 .. N}
  BY <1>3 DEF Ids
<1>5. \A r \in AcsRowsOf(app) : \E i \in Int : r.id = SamlAcsId(app.id, i)
  BY <1>2, <1>3 DEF IsRowOf
<1>6. Cardinality(1 .. N) = N /\ IsFiniteSet(1 .. N)
  <2> HIDE DEF N
  <2>1. QED
    BY <1>3, NumbersAreCounted
<1>7. id \in Bijection(1 .. N, ids)
  <2>1. id \in [1 .. N -> ids]
    BY <1>4
  <2>2. \A i, j \in 1 .. N : id[i] = id[j] => i = j
    BY <1>2
  <2>3. \A x \in ids : \E i \in 1 .. N : id[i] = x
    BY <1>4
  <2> HIDE DEF N, ids, id
  <2>4. QED
    BY <2>1, <2>2, <2>3 DEF Bijection, Injection, Surjection, IsInjective
<1> HIDE DEF N, ids, id
<1>8. Cardinality(ids) = Cardinality(1 .. N)
  BY <1>6, <1>7, FS_Bijection DEF ExistsBijection
<1>9. QED
  BY <1>5, <1>6, <1>8 DEF N, ids, routes

\* What makes a node one of SAML.
IsTaggedAs(node, tags) == Len(node) > 1 /\ node[1] \in tags

LEMMA PairIs == \A x, y : IsTaggedAs(<<x, y>>, {x})
BY DEF IsTaggedAs

LEMMA TripleIs == \A x, y, z : IsTaggedAs(<<x, y, z>>, {x})
BY DEF IsTaggedAs

LEMMA ApplicationOf ==
  ASSUME WholeInv, NEW app \in db["applications"]
  PROVE  IsApplication(app) /\ app.id \in IdsOf["APPLICATION"]
BY TablesAre DEF WholeInv, Inv, TablesAreListed, AppsAreUnique, KnownInv, IsKnown

LEMMA TaggedNodesAre ==
  ASSUME WholeInv, NEW k \in DOMAIN Tags, NEW node \in NodesOf[k]
  PROVE  IsTaggedAs(node, Tags[k])
<1>1. CASE k = "SAML_FEDERATION_PROVIDER"
  <2>1. PICK p \in FederationProviders : node = p.id
    BY <1>1, NodesAre DEF Ids
  <2>2. PICK a \in db["applications"] : p \in FederationProviderRows(a)
    BY <2>1 DEF FederationProviders, RowsFrom
  <2>3. p.id = SamlProviderId(a.id)
    BY <2>2 DEF FederationProviderRows
  <2>4. QED
    BY <1>1, <2>1, <2>3, PairIs, TagsAre DEF SamlProviderId
<1>2. CASE k = "SAML_SERVICE_PROVIDER"
  <2>1. PICK p \in ServiceProviders : node = p.id
    BY <1>2, NodesAre DEF Ids
  <2>2. PICK i \in db["identity_providers"] : p \in ServiceProviderRows(i)
    BY <2>1 DEF ServiceProviders, RowsFrom
  <2>3. p.id = SamlServiceProviderId(i.id)
    BY <2>2 DEF ServiceProviderRows
  <2>4. QED
    BY <1>2, <2>1, <2>3, PairIs, TagsAre DEF SamlServiceProviderId
<1>3. CASE k = "SAML_ISSUER"
  <2>1. PICK r \in RowsFrom("applications", SamlIssuerRows)
                     \cup RowsFrom("identity_providers", TrustedIssuerRows) : node = r.id
    BY <1>3, NodesAre DEF Ids
  <2>2. \/ \E a : r.id = SamlIssuerId(a)
        \/ \E e : r.id = SamlTrustedIssuerId(e)
    BY DEF RowsFrom, SamlIssuerRows, TrustedIssuerRows
  <2>3. IsTaggedAs(node, {"issuer"}) \/ IsTaggedAs(node, {"trusted-issuer"})
    BY <2>1, <2>2, PairIs DEF SamlIssuerId, SamlTrustedIssuerId
  <2>4. QED
    BY <1>3, <2>3, TagsAre DEF IsTaggedAs
<1>4. CASE k = "SAML_ACS"
  <2>1. PICK r \in RowsFrom("applications", AcsRowsOf)
                     \cup RowsFrom("identity_providers", SamlSpAcsRows) : node = r.id
    BY <1>4, NodesAre DEF Ids
  <2>2. CASE r \in RowsFrom("applications", AcsRowsOf)
    <3>1. PICK a \in db["applications"] : r \in AcsRowsOf(a)
      BY <2>2 DEF RowsFrom
    <3>2. PICK i : r.id = SamlAcsId(a.id, i)
      BY <3>1, ApplicationOf, AcsRowsAreNumbered
    <3>3. QED
      BY <1>4, <2>1, <3>2, TripleIs, TagsAre DEF SamlAcsId, IsTaggedAs
  <2>3. CASE r \in RowsFrom("identity_providers", SamlSpAcsRows)
    <3>1. PICK i \in db["identity_providers"] : r \in SamlSpAcsRows(i)
      BY <2>3 DEF RowsFrom
    <3>2. \E n : r.id = SamlSpAcsId(i.id, n)
      <4>1. PICK all : r \in {[id |-> SamlSpAcsId(i.id, n - 1), idp |-> i.id,
                               route |-> all[n]] : n \in DOMAIN all}
        BY <3>1, Zenon DEF SamlSpAcsRows
      <4>2. PICK n \in DOMAIN all :
              r = [id |-> SamlSpAcsId(i.id, n - 1), idp |-> i.id, route |-> all[n]]
        BY <4>1
      <4>3. r.id = SamlSpAcsId(i.id, n - 1)
        BY <4>2
      <4>4. QED
        BY <4>3
    <3>3. QED
      BY <1>4, <2>1, <3>2, TripleIs, TagsAre DEF SamlSpAcsId, IsTaggedAs
  <2>4. QED
    BY <2>1, <2>2, <2>3
<1>5. CASE k = "SAML_CLAIM_MAPPING"
  <2>1. PICK r \in RowsFrom("applications", SamlClaimMappingRows) : node = r.id
    BY <1>5, NodesAre DEF Ids
  <2>2. PICK a \in db["applications"] : r \in SamlClaimMappingRows(a)
    BY <2>1 DEF RowsFrom
  <2>3. \E n : r.id = ClaimMappingId(a.id, n)
    <3>1. PICK all : r \in {[id |-> ClaimMappingId(a.id, n - 1), app |-> a.id,
                             mapping |-> all[n]] : n \in DOMAIN all}
      BY <2>2, Zenon DEF SamlClaimMappingRows
    <3>2. PICK n \in DOMAIN all :
            r = [id |-> ClaimMappingId(a.id, n - 1), app |-> a.id, mapping |-> all[n]]
      BY <3>1
    <3>3. r.id = ClaimMappingId(a.id, n - 1)
      BY <3>2
    <3>4. QED
      BY <3>3
  <2>4. QED
    BY <1>5, <2>1, <2>3, TripleIs, TagsAre DEF ClaimMappingId
<1>6. CASE k = "SAML_RULE"
  <2>1. PICK r \in Rules : node = r.id
    BY <1>6, NodesAre DEF Ids
  <2>2. \E i : r.id = AccountResolutionRuleId(i)
    BY <2>1 DEF Rules, RowsFrom, AccountResolutionRuleRows
  <2>3. QED
    BY <1>6, <2>1, <2>2, PairIs, TagsAre DEF AccountResolutionRuleId
<1>7. CASE k = "SAML_FIELD"
  <2>1. PICK r \in RowsFrom("identity_providers", AccountResolutionFieldRows) : node = r.id
    BY <1>7, NodesAre DEF Ids
  <2>2. \E i : r.id = AccountResolutionFieldId(i)
    BY <2>1 DEF RowsFrom, AccountResolutionFieldRows
  <2>3. QED
    BY <1>7, <2>1, <2>2, PairIs, TagsAre DEF AccountResolutionFieldId
<1>8. QED
  BY <1>1, <1>2, <1>3, <1>4, <1>5, <1>6, <1>7, TagsAre

\* A node is of one kind, and one of SAML is there.
LEMMA KindIs ==
  ASSUME WholeInv, NEW node, NEW k, IsNodeOf(node, k)
  PROVE  KindsOf(node) \subseteq {k} /\ (IsSamlNode(node) => KindsOf(node) # {})
<1>1. CASE IsLocal(node, k)
  <2>1. PICK id \in IdsOf[k] : node = <<id>>
    BY <1>1 DEF IsLocal, Node
  <2>2. Len(node) = 1 /\ node[1] = id
    BY <2>1
  <2>3. ~IsForeign(node) /\ ~IsSamlNode(node)
    BY <2>2 DEF IsForeign, IsSamlNode
  <2>4. ASSUME NEW j \in DOMAIN NodesOf, node \in NodesOf[j]
        PROVE  j = k
    <3>1. CASE j \in DOMAIN IdsOf
      <4>1. PICK other \in IdsOf[j] : node = <<other>>
        BY <2>4, <3>1, LocalNodesAre
      <4>2. other = id
        BY <2>2, <4>1
      <4>3. QED
        BY <1>1, <2>1, <3>1, <4>1, <4>2, IdsAssumption DEF IsLocal
    <3>2. CASE j \in DOMAIN Tags
      <4>1. Len(node) > 1
        BY <2>4, <3>2, TaggedNodesAre DEF IsTaggedAs
      <4>2. QED
        BY <2>2, <4>1
    <3>3. QED
      BY <2>4, <3>1, <3>2, NodesAre
  <2>5. QED
    BY <2>3, <2>4 DEF KindsOf
<1>2. CASE IsOutside(node, k)
  <2>1. PICK matchers : node = <<k, matchers>>
    BY <1>2 DEF IsOutside
  <2>2. Len(node) = 2 /\ node[1] = k
    BY <2>1
  <2>3. IsForeign(node)
    BY <1>2, <2>2 DEF IsForeign, IsOutside, OutKinds
  <2>4. QED
    BY <2>2, <2>3 DEF KindsOf, IsSamlNode
<1>3. CASE IsTagged(node, k)
  <2>1. Len(node) > 1 /\ node[1] \in Tags[k]
    BY <1>3, TaggedNodesAre DEF IsTagged, IsTaggedAs
  <2>2. ~IsForeign(node)
    BY <1>3, <2>1, TagsDiffer DEF IsForeign, IsTagged, OutKinds
  <2>3. k \in KindsOf(node)
    BY <1>3, <2>2, NodesAre DEF KindsOf, IsTagged
  <2>4. ASSUME NEW j \in DOMAIN NodesOf, node \in NodesOf[j]
        PROVE  j = k
    <3>1. CASE j \in DOMAIN IdsOf
      <4>1. PICK other \in IdsOf[j] : node = <<other>>
        BY <2>4, <3>1, LocalNodesAre
      <4>2. Len(node) = 1
        BY <4>1
      <4>3. QED
        BY <2>1, <4>2
    <3>2. CASE j \in DOMAIN Tags
      <4>1. node[1] \in Tags[j]
        BY <2>4, <3>2, TaggedNodesAre DEF IsTaggedAs
      <4>2. QED
        BY <1>3, <2>1, <3>2, <4>1, TagsDiffer DEF IsTagged
    <3>3. QED
      BY <2>4, <3>1, <3>2, NodesAre
  <2>5. QED
    BY <2>2, <2>3, <2>4 DEF KindsOf
<1>4. QED
  BY <1>1, <1>2, <1>3 DEF IsNodeOf

-----------------------------------------------------------------------------
(* Every edge fits a definition, generator by generator. *)

IsDefined(kind, a, b) == <<kind, a, b>> \in FederationDefs \cup UndeclaredDefs
Fits(e) == \E a, b : IsNodeOf(e.start, a) /\ IsNodeOf(e.end, b) /\ IsDefined(e.kind, a, b)

LEMMA EdgeFits ==
  \A kind, start, end, data, a, b :
    IsNodeOf(start, a) /\ IsNodeOf(end, b) /\ IsDefined(kind, a, b) =>
      Fits(EdgeWith(kind, start, end, data)) /\ Fits(Edge(kind, start, end))
BY EdgeIs, PlainEdgeIs DEF Fits

LEMMA LocalIs == \A k \in DOMAIN IdsOf : \A id \in IdsOf[k] : IsNodeOf(Node(id), k)
BY DEF IsNodeOf, IsLocal

LEMMA LocalNodes ==
  /\ IsNodeOf(Node(OrgId), "ORG")
  /\ \A id \in IdsOf["USER"] : IsNodeOf(Node(id), "USER")
  /\ \A id \in IdsOf["GROUP"] : IsNodeOf(Node(id), "GROUP")
  /\ \A id \in IdsOf["APPLICATION"] : IsNodeOf(Node(id), "APPLICATION")
  /\ \A id \in IdsOf["IDP"] : IsNodeOf(Node(id), "IDP")
BY LocalIs, KindsAre

LEMMA OutsideIs == \A k \in OutKinds : \A matchers : IsNodeOf(<<k, matchers>>, k)
BY DEF IsNodeOf, IsOutside

LEMMA OutsideKindsAre ==
  /\ ForeignTenants \cup ForeignUsers \cup ForeignGroups \cup {"AD_USER", "USER", "GROUP", "IDP"}
       \subseteq OutKinds
  /\ "AD_GROUP" \in OutKinds /\ "AZ_TENANT" \in OutKinds /\ "AZ_USER" \in OutKinds
BY DEF OutKinds, ForeignKinds, ForeignTenants, ForeignUsers, ForeignGroups

LEMMA TaggedIs == \A k \in DOMAIN Tags : \A node \in NodesOf[k] : IsNodeOf(node, k)
BY DEF IsNodeOf, IsTagged

LEMMA ApplicationDefsAre ==
  /\ IsDefined("CONTAINS", "ORG", "APPLICATION")
  /\ \A k \in {"IDP"} \cup ForeignTenants :
       IsDefined("OUTBOUND_ORG_SSO", "APPLICATION", k) /\ IsDefined("ORG_SWA", "APPLICATION", k)
BY DEF IsDefined, FederationDefs, UndeclaredDefs, ApplicationDefs, Declare

LEMMA ProvisioningDefsAre ==
  /\ IsDefined("APP_ASSIGNMENT", "USER", "APPLICATION")
  /\ IsDefined("READ_PASSWORD_UPDATES", "APPLICATION", "USER")
  /\ IsDefined("USER_PULL", "APPLICATION", "USER") /\ IsDefined("USER_PUSH", "USER", "APPLICATION")
  /\ \A k \in {"USER", "AD_USER"} :
       /\ IsDefined("USER_SYNC", "USER", k) /\ IsDefined("USER_SYNC", k, "USER")
       /\ IsDefined("PASSWORD_SYNC", "USER", k) /\ IsDefined("PASSWORD_SYNC", k, "USER")
BY DEF IsDefined, FederationDefs, UndeclaredDefs, ApplicationUserDefs, ProvisioningDefs, Declare

LEMMA SignOnDefsAre ==
  /\ \A k \in {"USER"} \cup ForeignUsers :
       IsDefined("OUTBOUND_SSO", "USER", k) /\ IsDefined("SWA", "USER", k)
  /\ IsDefined("SAML_ELIGIBLE_FOR", "USER", "SAML_FEDERATION_PROVIDER")
  /\ IsDefined("SAML_HAS_CLAIM_VALUE", "USER", "SAML_CLAIM_MAPPING")
BY DEF IsDefined, FederationDefs, UndeclaredDefs, ApplicationUserDefs, SignOnDefs,
       AssertionDefs, Declare

LEMMA GroupDefsAre ==
  /\ IsDefined("CONTAINS", "ORG", "GROUP")
  /\ IsDefined("GROUP_PULL", "APPLICATION", "GROUP") /\ IsDefined("GROUP_PUSH", "GROUP", "APPLICATION")
  /\ \A k \in {"GROUP"} \cup ForeignGroups :
       IsDefined("MEMBERSHIP_SYNC", "GROUP", k) /\ IsDefined("MEMBERSHIP_SYNC", k, "GROUP")
BY DEF IsDefined, FederationDefs, UndeclaredDefs, GroupDefs, GroupMappingDefs, ForeignGroups,
       Declare

LEMMA IdpDefsAre ==
  /\ IsDefined("CONTAINS", "ORG", "IDP") /\ IsDefined("IDP_GROUP_ASSIGNMENT", "IDP", "GROUP")
  /\ IsDefined("INBOUND_ORG_SSO", "AZ_TENANT", "IDP")
  /\ IsDefined("IDENTITY_PROVIDER_FOR", "IDP", "USER")
  /\ IsDefined("INBOUND_SSO", "AZ_USER", "USER")
  /\ IsDefined("SAML_HAS_ACCOUNT", "SAML_SERVICE_PROVIDER", "USER")
BY DEF IsDefined, FederationDefs, UndeclaredDefs, IdentityProviderDefs, IdpUserDefs, Declare

LEMMA SamlDefsAre ==
  /\ IsDefined("SAML_IMPLEMENTS", "APPLICATION", "SAML_FEDERATION_PROVIDER")
  /\ IsDefined("SAML_ISSUES_AS", "SAML_FEDERATION_PROVIDER", "SAML_ISSUER")
  /\ IsDefined("SAML_ISSUES_ASSERTIONS_TO", "SAML_FEDERATION_PROVIDER", "SAML_ACS")
  /\ IsDefined("SAML_HAS_CLAIM_MAPPING", "SAML_FEDERATION_PROVIDER", "SAML_CLAIM_MAPPING")
  /\ IsDefined("SAML_IMPLEMENTS", "IDP", "SAML_SERVICE_PROVIDER")
  /\ IsDefined("SAML_TRUSTS_ISSUER", "SAML_SERVICE_PROVIDER", "SAML_ISSUER")
  /\ IsDefined("SAML_HAS_ACS", "SAML_SERVICE_PROVIDER", "SAML_ACS")
  /\ IsDefined("SAML_HAS_RULE", "SAML_SERVICE_PROVIDER", "SAML_RULE")
  /\ IsDefined("SAML_HAS_VALUE", "USER", "SAML_FIELD")
  /\ IsDefined("SAML_USES_FIELD", "SAML_RULE", "SAML_FIELD")
BY DEF IsDefined, FederationDefs, SamlProviderDefs, SamlServiceProviderDefs, SamlRuleDefs, Declare

-----------------------------------------------------------------------------
(* The accounts, tenants and groups of other products. *)

IsOneOf(t, kinds) == \E k \in kinds : \E matchers : t = <<k, matchers>>

LEMMA TargetsAre == \A kind, matchers : \A t \in Targets(kind, matchers) : t = <<kind, matchers>>
BY DEF Targets

LEMMA TrustTargetsAre ==
  ASSUME NEW app, NEW t \in OutboundTrustTargets(app)
  PROVE  IsOneOf(t, {"IDP"} \cup ForeignTenants)
BY TargetsAre DEF OutboundTrustTargets, IsOneOf, ForeignTenants

LEMMA UserTargetsAre ==
  ASSUME NEW app, NEW name, NEW external, NEW t \in HybridUserTargets(app, name, external)
  PROVE  IsOneOf(t, {"USER"} \cup ForeignUsers)
BY TargetsAre DEF HybridUserTargets, IsOneOf, ForeignUsers

LEMMA GroupTargetsAre ==
  ASSUME NEW app, NEW name, NEW t \in HybridGroupTargets(app, name)
  PROVE  IsOneOf(t, {"GROUP"} \cup ForeignGroups)
BY TargetsAre DEF HybridGroupTargets, IsOneOf, ForeignGroups

LEMMA OneOfIs ==
  ASSUME NEW kinds \in SUBSET OutKinds, NEW t, IsOneOf(t, kinds)
  PROVE  \E k \in kinds : IsNodeOf(t, k)
BY OutsideIs DEF IsOneOf

-----------------------------------------------------------------------------
(* The edges of applications and of their users. *)

\* An edge to or from one of the nodes of other products.
LEMMA OutwardFits ==
  ASSUME NEW kind, NEW node, NEW a, IsNodeOf(node, a), NEW kinds \in SUBSET OutKinds,
         NEW t, IsOneOf(t, kinds)
  PROVE  /\ (\A k \in kinds : IsDefined(kind, a, k)) => Fits(Edge(kind, node, t))
         /\ (\A k \in kinds : IsDefined(kind, k, a)) => Fits(Edge(kind, t, node))
<1>1. PICK k \in kinds : IsNodeOf(t, k)
  BY OneOfIs
<1>2. QED
  BY <1>1, EdgeFits

LEMMA ApplicationsFit ==
  ASSUME WholeInv, NEW app \in db["applications"], NEW e \in ApplicationEdges(app)
  PROVE  Fits(e)
<1>1. IsNodeOf(Node(app.id), "APPLICATION")
  BY ApplicationOf, LocalNodes
<1>2. CASE e \in Contained(app.id)
  BY <1>1, <1>2, LocalNodes, EdgeFits, ApplicationDefsAre DEF Contained
<1>3. CASE e \in {Edge(x[1], Node(app.id), x[2]) :
                    x \in ApplicationSignOnKinds(app) \X OutboundTrustTargets(app)}
  <2>1. PICK x \in ApplicationSignOnKinds(app) \X OutboundTrustTargets(app) :
          e = Edge(x[1], Node(app.id), x[2])
    BY <1>3
  <2>2. x[1] \in {"OUTBOUND_ORG_SSO", "ORG_SWA"}
    BY <2>1 DEF ApplicationSignOnKinds
  <2>3. IsOneOf(x[2], {"IDP"} \cup ForeignTenants)
    BY <2>1, TrustTargetsAre
  <2>4. {"IDP"} \cup ForeignTenants \in SUBSET OutKinds
    BY OutsideKindsAre
  <2>5. \A k \in {"IDP"} \cup ForeignTenants : IsDefined(x[1], "APPLICATION", k)
    BY <2>2, ApplicationDefsAre
  <2> DEFINE kinds == {"IDP"} \cup ForeignTenants
  <2> HIDE DEF kinds
  <2>6. IsOneOf(x[2], kinds) /\ kinds \in SUBSET OutKinds
        /\ \A k \in kinds : IsDefined(x[1], "APPLICATION", k)
    BY <2>3, <2>4, <2>5 DEF kinds
  <2>7. QED
    BY <1>1, <2>1, <2>6, OutwardFits
<1>4. QED
  BY <1>2, <1>3 DEF ApplicationEdges

\* The nodes of a user's row, and of its application.
LEMMA AssignedNodes ==
  ASSUME WholeInv, NEW u \in db["application_users"]
  PROVE  /\ IsNodeOf(Node(u.id), "USER")
         /\ u.app \in db["applications"] /\ IsNodeOf(Node(u.app.id), "APPLICATION")
<1>1. u.id \in IdsOf["USER"]
  BY TablesAre DEF WholeInv, KnownInv, IsKnown
<1>2. u.app \in db["applications"]
  BY RowIsFrom DEF WholeInv
<1>3. u.app.id \in IdsOf["APPLICATION"]
  BY <1>2, ApplicationOf
<1>4. QED
  BY <1>1, <1>2, <1>3, LocalNodes

LEMMA ProvisioningFits ==
  ASSUME WholeInv, NEW u \in db["application_users"],
         NEW e \in AssignmentEdges(u) \cup PushPullEdges(u)
  PROVE  Fits(e)
<1>1. e \in {Edge("APP_ASSIGNMENT", Node(u.id), Node(u.app.id)),
             Edge("READ_PASSWORD_UPDATES", Node(u.app.id), Node(u.id)),
             Edge("USER_PULL", Node(u.app.id), Node(u.id)),
             Edge("USER_PUSH", Node(u.id), Node(u.app.id))}
  BY DEF AssignmentEdges, PushPullEdges, When
<1>2. QED
  BY <1>1, AssignedNodes, ProvisioningDefsAre, EdgeFits

LEMMA AdSyncFits ==
  ASSUME WholeInv, NEW u \in db["application_users"], NEW e \in AdSyncEdges(u)
  PROVE  Fits(e)
<1> DEFINE sids == {<<"AD_USER", [id |-> <<v.exact>>]>> : v \in Attribute(u.profile, "objectSid")}
           inbound(kind) == {Edge(kind, sid, Node(u.id)) : sid \in sids}
           outbound(kind) == {Edge(kind, Node(u.id), sid) : sid \in sids}
<1>1. \A sid \in sids : IsNodeOf(sid, "AD_USER")
  BY OutsideIs, OutsideKindsAre
<1> HIDE DEF sids
<1>2. \A kind \in {"USER_SYNC", "PASSWORD_SYNC"} :
        \A x \in inbound(kind) \cup outbound(kind) : Fits(x)
  <2>1. SUFFICES ASSUME NEW kind \in {"USER_SYNC", "PASSWORD_SYNC"}, NEW sid \in sids
                 PROVE  Fits(Edge(kind, sid, Node(u.id))) /\ Fits(Edge(kind, Node(u.id), sid))
    OBVIOUS
  <2>2. QED
    BY <1>1, <2>1, AssignedNodes, ProvisioningDefsAre, EdgeFits
<1>3. e \in UNION {inbound("USER_SYNC"), inbound("PASSWORD_SYNC"),
                   outbound("USER_SYNC"), outbound("PASSWORD_SYNC")}
  BY Zenon DEF AdSyncEdges, When, sids
<1>4. QED
  BY <1>2, <1>3

LEMMA Org2OrgFits ==
  ASSUME WholeInv, NEW u \in db["application_users"], NEW e \in Org2OrgEdges(u)
  PROVE  Fits(e)
<1> DEFINE other == <<"USER", [id |-> Upper(u.externalId)]>>
<1>1. IsNodeOf(other, "USER")
  BY OutsideIs, OutsideKindsAre
<1> HIDE DEF other
<1>2. e \in {Edge("USER_SYNC", other, Node(u.id)), Edge("USER_SYNC", Node(u.id), other),
             Edge("PASSWORD_SYNC", Node(u.id), other)}
  BY DEF Org2OrgEdges, When, other
<1>3. QED
  BY <1>1, <1>2, AssignedNodes, ProvisioningDefsAre, EdgeFits

LEMMA SignOnFits ==
  ASSUME WholeInv, NEW u \in db["application_users"], NEW e \in HybridSignOnEdges(u)
  PROVE  Fits(e)
<1> DEFINE targets == HybridUserTargets(u.app, TextOf(u.username), u.externalId)
<1>1. PICK x \in UserSignOnKinds(u.app.mode) \X targets : e = Edge(x[1], Node(u.id), x[2])
  BY DEF HybridSignOnEdges
<1>2. x[1] \in {"OUTBOUND_SSO", "SWA"}
  BY <1>1 DEF UserSignOnKinds, SsoSignOnModes, SamlSignOnModes, SwaSignOnModes
<1> DEFINE kinds == {"USER"} \cup ForeignUsers
<1>3. IsOneOf(x[2], kinds) /\ kinds \in SUBSET OutKinds
  BY <1>1, UserTargetsAre, OutsideKindsAre
<1>4. \A k \in kinds : IsDefined(x[1], "USER", k)
  BY <1>2, SignOnDefsAre
<1> HIDE DEF kinds
<1>5. QED
  BY <1>1, <1>3, <1>4, AssignedNodes, OutwardFits

\* The nodes of a SAML application are there.
LEMMA ProviderIsANode ==
  ASSUME NEW app \in db["applications"], IsSamlApplication(app)
  PROVE  IsNodeOf(SamlProviderId(app.id), "SAML_FEDERATION_PROVIDER")
<1>1. PICK p \in FederationProviderRows(app) : p.id = SamlProviderId(app.id)
  BY DEF FederationProviderRows
<1>2. p \in FederationProviders
  BY <1>1 DEF FederationProviders, RowsFrom
<1>3. QED
  BY <1>1, <1>2, NodesAre, TagsAre, TaggedIs DEF Ids

LEMMA MappingIsANode ==
  ASSUME NEW app \in db["applications"], NEW r \in SamlClaimMappingRows(app)
  PROVE  IsNodeOf(r.id, "SAML_CLAIM_MAPPING")
<1>1. r \in RowsFrom("applications", SamlClaimMappingRows)
  BY DEF RowsFrom
<1>2. QED
  BY <1>1, NodesAre, TagsAre, TaggedIs DEF Ids

LEMMA AssertionFits ==
  ASSUME WholeInv, NEW u \in db["application_users"], NEW e \in AssertionEdges(u)
  PROVE  Fits(e)
<1> DEFINE rows == ClaimMappingsOf(u.app.id)
           data == [match |-> Evidence(u).match, fields |-> Evidence(u).fields,
                    incomplete |-> Evidence(u).incomplete]
<1>1. IsEligible(u)
      /\ \/ e = EdgeWith("SAML_ELIGIBLE_FOR", Node(u.id), SamlProviderId(u.app.id), data)
         \/ \E c \in Evidence(u).claims :
              e = EdgeWith("SAML_HAS_CLAIM_VALUE", Node(u.id), c.mapping, c)
  BY Zenon DEF AssertionEdges, When
<1> HIDE DEF data
<1>2. CASE e = EdgeWith("SAML_ELIGIBLE_FOR", Node(u.id), SamlProviderId(u.app.id), data)
  <2>1. IsNodeOf(SamlProviderId(u.app.id), "SAML_FEDERATION_PROVIDER")
    BY <1>1, AssignedNodes, ProviderIsANode DEF IsEligible
  <2>2. QED
    BY <1>2, <2>1, AssignedNodes, SignOnDefsAre, EdgeFits
<1>3. ASSUME NEW c \in Evidence(u).claims,
             e = EdgeWith("SAML_HAS_CLAIM_VALUE", Node(u.id), c.mapping, c)
      PROVE  Fits(e)
  <2>1. \E r \in rows : c.mapping = r.id
    <3>1. \E S \in SUBSET rows : \E source :
            c \in {ClaimValue(r, DirectValues(r.mapping.expression, u, source)) : r \in S}
      BY <1>3 DEF Evidence, AssertionEvidence
    <3>2. PICK r \in rows : \E values : c = ClaimValue(r, values)
      BY <3>1
    <3>3. QED
      BY <3>2 DEF ClaimValue
  <2>2. PICK r \in rows : c.mapping = r.id
    BY <2>1
  <2>3. PICK app \in db["applications"] : r \in SamlClaimMappingRows(app)
    BY <2>2 DEF ClaimMappingsOf, RowsOf
  <2>4. IsNodeOf(c.mapping, "SAML_CLAIM_MAPPING")
    BY <2>2, <2>3, MappingIsANode
  <2>5. QED
    BY <1>3, <2>4, AssignedNodes, SignOnDefsAre, EdgeFits
<1>4. QED
  BY <1>1, <1>2, <1>3

LEMMA ApplicationUsersFit ==
  ASSUME WholeInv, NEW u \in db["application_users"], NEW e \in ApplicationUserEdges(u)
  PROVE  Fits(e)
BY ProvisioningFits, AdSyncFits, Org2OrgFits, SignOnFits, AssertionFits DEF ApplicationUserEdges

-----------------------------------------------------------------------------
(* The edges of groups, of identity providers and of SAML. *)

LEMMA SyncTargetsAre ==
  ASSUME NEW app, NEW name, NEW t \in SyncTargets(app, name)
  PROVE  IsOneOf(t, {"GROUP"} \cup ForeignGroups)
BY GroupTargetsAre DEF SyncTargets

LEMMA SyncFits ==
  ASSUME NEW node, IsNodeOf(node, "GROUP"), NEW app, NEW name, NEW t \in SyncTargets(app, name)
  PROVE  Fits(Edge("MEMBERSHIP_SYNC", t, node)) /\ Fits(Edge("MEMBERSHIP_SYNC", node, t))
<1> DEFINE kinds == {"GROUP"} \cup ForeignGroups
<1>1. IsOneOf(t, kinds) /\ kinds \in SUBSET OutKinds
  BY SyncTargetsAre, OutsideKindsAre
<1>2. \A k \in kinds : IsDefined("MEMBERSHIP_SYNC", "GROUP", k)
                       /\ IsDefined("MEMBERSHIP_SYNC", k, "GROUP")
  BY GroupDefsAre
<1> HIDE DEF kinds
<1>3. QED
  BY <1>1, <1>2, OutwardFits

LEMMA GroupsFit ==
  ASSUME WholeInv, NEW g \in db["groups"], NEW e \in GroupEdges(g)
  PROVE  Fits(e)
<1>1. IsNodeOf(Node(g.id), "GROUP")
  BY LocalNodes, TablesAre DEF WholeInv, KnownInv, IsKnown
<1> DEFINE sid == <<"AD_GROUP", [id |-> g.sid]>>
<1>2. IsNodeOf(sid, "AD_GROUP") /\ "AD_GROUP" \in ForeignGroups
  BY OutsideIs, OutsideKindsAre DEF ForeignGroups
<1> HIDE DEF sid
<1>3. \/ \E t \in SyncTargets(g.source, g.name) : e = Edge("MEMBERSHIP_SYNC", t, Node(g.id))
      \/ e = Edge("CONTAINS", Node(OrgId), Node(g.id))
      \/ e = Edge("MEMBERSHIP_SYNC", sid, Node(g.id))
      \/ \E r \in db["applications"] : e = Edge("GROUP_PULL", Node(r.id), Node(g.id))
  <2>1. e \in UNION {{Edge("MEMBERSHIP_SYNC", t, Node(g.id)) : t \in SyncTargets(g.source, g.name)},
                     Contained(g.id), {Edge("MEMBERSHIP_SYNC", sid, Node(g.id))},
                     {Edge("GROUP_PULL", Node(r.id), Node(g.id)) :
                        r \in RowsOf("applications", g.source)}}
    BY DEF GroupEdges, When, sid
  <2>2. QED
    BY <2>1 DEF Contained, RowsOf
<1>4. CASE \E t \in SyncTargets(g.source, g.name) : e = Edge("MEMBERSHIP_SYNC", t, Node(g.id))
  BY <1>1, <1>4, SyncFits
<1>5. CASE e = Edge("CONTAINS", Node(OrgId), Node(g.id))
  BY <1>1, <1>5, LocalNodes, EdgeFits, GroupDefsAre
<1>6. CASE e = Edge("MEMBERSHIP_SYNC", sid, Node(g.id))
  <2>1. IsDefined("MEMBERSHIP_SYNC", "AD_GROUP", "GROUP")
    BY <1>2, GroupDefsAre
  <2>2. QED
    BY <1>1, <1>2, <1>6, <2>1, EdgeFits
<1>7. ASSUME NEW r \in db["applications"], e = Edge("GROUP_PULL", Node(r.id), Node(g.id))
      PROVE  Fits(e)
  <2>1. IsNodeOf(Node(r.id), "APPLICATION")
    BY ApplicationOf, LocalNodes
  <2>2. QED
    BY <1>1, <1>7, <2>1, EdgeFits, GroupDefsAre
<1>8. QED
  BY <1>3, <1>4, <1>5, <1>6, <1>7

LEMMA MappingsFit ==
  ASSUME WholeInv, NEW m \in db["application_group_push_mappings"], NEW e \in GroupMappingEdges(m)
  PROVE  Fits(e)
<1>1. IsNodeOf(Node(m.group), "GROUP") /\ IsNodeOf(Node(m.app), "APPLICATION")
  BY LocalNodes, TablesAre DEF WholeInv, KnownInv, IsKnown
<1>2. \/ e = Edge("GROUP_PUSH", Node(m.group), Node(m.app))
      \/ \E t \in SyncTargets(m.app, m.targetName) : e = Edge("MEMBERSHIP_SYNC", Node(m.group), t)
  BY DEF GroupMappingEdges, When
<1>3. CASE e = Edge("GROUP_PUSH", Node(m.group), Node(m.app))
  BY <1>1, <1>3, EdgeFits, GroupDefsAre
<1>4. CASE \E t \in SyncTargets(m.app, m.targetName) :
             e = Edge("MEMBERSHIP_SYNC", Node(m.group), t)
  BY <1>1, <1>4, SyncFits
<1>5. QED
  BY <1>2, <1>3, <1>4

LEMMA IdentityProvidersFit ==
  ASSUME WholeInv, NEW i \in db["identity_providers"], NEW e \in IdentityProviderEdges(i)
  PROVE  Fits(e)
<1>1. IsNodeOf(Node(i.id), "IDP") /\ \A g \in i.groups : IsNodeOf(Node(g), "GROUP")
  BY LocalNodes, TablesAre DEF WholeInv, KnownInv, IsKnown
<1> DEFINE tenant == <<"AZ_TENANT", [id |-> Upper(i.tenant)]>>
<1>2. IsNodeOf(tenant, "AZ_TENANT")
  BY OutsideIs, OutsideKindsAre
<1> HIDE DEF tenant
<1>3. \/ e = Edge("CONTAINS", Node(OrgId), Node(i.id))
      \/ \E g \in i.groups : e = Edge("IDP_GROUP_ASSIGNMENT", Node(i.id), Node(g))
      \/ e = Edge("INBOUND_ORG_SSO", tenant, Node(i.id))
  BY DEF IdentityProviderEdges, Contained, When, tenant
<1>4. QED
  BY <1>1, <1>2, <1>3, LocalNodes, EdgeFits, IdpDefsAre

LEMMA ServiceProviderIsANode ==
  ASSUME NEW i \in db["identity_providers"], IsSamlIdentityProvider(i)
  PROVE  IsNodeOf(SamlServiceProviderId(i.id), "SAML_SERVICE_PROVIDER")
<1>1. PICK p \in ServiceProviderRows(i) : p.id = SamlServiceProviderId(i.id)
  BY DEF ServiceProviderRows
<1>2. p \in ServiceProviders
  BY <1>1 DEF ServiceProviders, RowsFrom
<1>3. QED
  BY <1>1, <1>2, NodesAre, TagsAre, TaggedIs DEF Ids

LEMMA IdpUsersFit ==
  ASSUME WholeInv, NEW u \in db["identity_provider_users"], NEW e \in IdpUserEdges(u)
  PROVE  Fits(e)
<1>1. PICK i \in db["identity_providers"] : IsOf(u, i)
  BY DEF WholeInv, LinksInv
<1>2. IsNodeOf(Node(u.id), "USER") /\ IsNodeOf(Node(u.idp), "IDP")
  BY <1>1, LocalNodes, TablesAre DEF WholeInv, KnownInv, IsKnown, IsOf
<1>3. CASE e = Edge("IDENTITY_PROVIDER_FOR", Node(u.idp), Node(u.id))
  BY <1>2, <1>3, EdgeFits, IdpDefsAre
<1>4. CASE e \in InboundSsoEdges(u)
  <2>1. PICK matchers : e = Edge("INBOUND_SSO", <<"AZ_USER", matchers>>, Node(u.id))
    BY <1>4, Zenon DEF InboundSsoEdges, When
  <2>2. IsNodeOf(<<"AZ_USER", matchers>>, "AZ_USER")
    BY OutsideIs, OutsideKindsAre
  <2>3. QED
    BY <1>2, <2>1, <2>2, EdgeFits, IdpDefsAre
<1>5. CASE e \in LinkedAccountEdges(u)
  <2>1. PICK data : e = EdgeWith("SAML_HAS_ACCOUNT", SamlServiceProviderId(u.idp), Node(u.id), data)
    BY <1>5, Zenon DEF LinkedAccountEdges, When
  <2>2. IsSamlIdentityProvider(u)
    BY <1>5, Zenon DEF LinkedAccountEdges, When
  <2>3. IsNodeOf(SamlServiceProviderId(u.idp), "SAML_SERVICE_PROVIDER")
    BY <1>1, <2>2, ServiceProviderIsANode DEF IsOf, IsSamlIdentityProvider
  <2>4. QED
    BY <1>2, <2>1, <2>3, EdgeFits, IdpDefsAre
<1>6. QED
  BY <1>3, <1>4, <1>5 DEF IdpUserEdges

LEMMA FederationProvidersFit ==
  ASSUME WholeInv, NEW p \in FederationProviders, NEW e \in FederationProviderEdges(p)
  PROVE  Fits(e)
<1>1. PICK app \in db["applications"] : p \in FederationProviderRows(app)
  BY DEF FederationProviders, RowsFrom
<1>2. /\ p.app = app.id
      /\ p.issuers = {r.id : r \in SamlIssuerRows(app)}
      /\ p.acs = {r.id : r \in AcsRowsOf(app)}
      /\ p.mappings = {r.id : r \in SamlClaimMappingRows(app)}
  BY <1>1 DEF FederationProviderRows, AcsRowsOf
<1>3. IsNodeOf(p.id, "SAML_FEDERATION_PROVIDER")
  BY NodesAre, TagsAre, TaggedIs DEF Ids
<1>4. IsNodeOf(Node(p.app), "APPLICATION")
  BY <1>2, ApplicationOf, LocalNodes
<1>5. \A i \in p.issuers : IsNodeOf(i, "SAML_ISSUER")
  <2>1. SUFFICES ASSUME NEW r \in SamlIssuerRows(app) PROVE r.id \in NodesOf["SAML_ISSUER"]
    BY <1>2, TagsAre, TaggedIs
  <2>2. QED
    BY NodesAre DEF Ids, RowsFrom
<1>6. \A a \in p.acs : IsNodeOf(a, "SAML_ACS")
  <2>1. SUFFICES ASSUME NEW r \in AcsRowsOf(app) PROVE r.id \in NodesOf["SAML_ACS"]
    BY <1>2, TagsAre, TaggedIs
  <2>2. QED
    BY NodesAre DEF Ids, RowsFrom
<1>7. \A m \in p.mappings : IsNodeOf(m, "SAML_CLAIM_MAPPING")
  BY <1>2, MappingIsANode
<1>8. \/ e = Edge("SAML_IMPLEMENTS", Node(p.app), p.id)
      \/ \E i \in p.issuers : e = Edge("SAML_ISSUES_AS", p.id, i)
      \/ \E a \in p.acs : e = Edge("SAML_ISSUES_ASSERTIONS_TO", p.id, a)
      \/ \E m \in p.mappings : e = Edge("SAML_HAS_CLAIM_MAPPING", p.id, m)
  BY DEF FederationProviderEdges
<1>9. QED
  BY <1>3, <1>4, <1>5, <1>6, <1>7, <1>8, EdgeFits, SamlDefsAre

LEMMA RuleFieldIsANode ==
  ASSUME NEW i \in db["identity_providers"], NEW r \in AccountResolutionRuleRows(i)
  PROVE  IsNodeOf(r.field, "SAML_FIELD")
<1>1. ResolvingField(i) # NoField /\ r.field = AccountResolutionFieldId(i.id)
  BY DEF AccountResolutionRuleRows
<1>2. PICK f \in AccountResolutionFieldRows(i) : f.id = r.field
  BY <1>1 DEF AccountResolutionFieldRows
<1>3. f \in RowsFrom("identity_providers", AccountResolutionFieldRows)
  BY <1>2 DEF RowsFrom
<1>4. r.field \in NodesOf["SAML_FIELD"]
  BY <1>2, <1>3, NodesAre DEF Ids
<1>5. QED
  BY <1>4, TagsAre, TaggedIs

\* What a service provider names is there too.
LEMMA ServiceProviderNodes ==
  ASSUME WholeInv, NEW p \in ServiceProviders
  PROVE  /\ IsNodeOf(p.id, "SAML_SERVICE_PROVIDER") /\ IsNodeOf(Node(p.idp), "IDP")
         /\ \A i \in p.issuers : IsNodeOf(i, "SAML_ISSUER")
         /\ \A a \in p.acs : IsNodeOf(a, "SAML_ACS")
         /\ \A r \in p.rules : IsNodeOf(r, "SAML_RULE")
         /\ \A f \in p.fields : IsNodeOf(f, "SAML_FIELD")
<1>1. PICK i \in db["identity_providers"] : p \in ServiceProviderRows(i)
  BY DEF ServiceProviders, RowsFrom
<1>2. /\ p.idp = i.id
      /\ p.issuers = {r.id : r \in TrustedIssuerRows(i)}
      /\ p.acs = {r.id : r \in SamlSpAcsRows(i)}
      /\ p.rules = {r.id : r \in AccountResolutionRuleRows(i)}
      /\ p.fields = {r.field : r \in AccountResolutionRuleRows(i)}
  BY <1>1 DEF ServiceProviderRows
<1>3. IsNodeOf(p.id, "SAML_SERVICE_PROVIDER")
  BY NodesAre, TagsAre, TaggedIs DEF Ids
<1>4. IsNodeOf(Node(p.idp), "IDP")
  BY <1>2, LocalNodes, TablesAre DEF WholeInv, KnownInv, IsKnown
<1>5. \A x \in p.issuers : IsNodeOf(x, "SAML_ISSUER")
  <2>1. SUFFICES ASSUME NEW r \in TrustedIssuerRows(i) PROVE r.id \in NodesOf["SAML_ISSUER"]
    BY <1>2, TagsAre, TaggedIs
  <2>2. QED
    BY NodesAre DEF Ids, RowsFrom
<1>6. \A x \in p.acs : IsNodeOf(x, "SAML_ACS")
  <2>1. SUFFICES ASSUME NEW r \in SamlSpAcsRows(i) PROVE r.id \in NodesOf["SAML_ACS"]
    BY <1>2, TagsAre, TaggedIs
  <2>2. QED
    BY NodesAre DEF Ids, RowsFrom
<1>7. \A x \in p.rules : IsNodeOf(x, "SAML_RULE")
  <2>1. SUFFICES ASSUME NEW r \in AccountResolutionRuleRows(i) PROVE r.id \in NodesOf["SAML_RULE"]
    BY <1>2, TagsAre, TaggedIs
  <2>2. QED
    BY NodesAre DEF Ids, Rules, RowsFrom
<1>8. \A x \in p.fields : IsNodeOf(x, "SAML_FIELD")
  <2>1. SUFFICES ASSUME NEW r \in AccountResolutionRuleRows(i)
                 PROVE  IsNodeOf(r.field, "SAML_FIELD")
    BY <1>2
  <2>2. QED
    BY RuleFieldIsANode
<1>9. QED
  BY <1>3, <1>4, <1>5, <1>6, <1>7, <1>8

LEMMA ServiceProvidersFit ==
  ASSUME WholeInv, NEW p \in ServiceProviders, NEW e \in ServiceProviderEdges(p)
  PROVE  Fits(e)
<1>1. CASE e \in ServiceProviderRoutes(p)
  <2>1. \/ e = Edge("SAML_IMPLEMENTS", Node(p.idp), p.id)
        \/ \E i \in p.issuers : e = Edge("SAML_TRUSTS_ISSUER", p.id, i)
        \/ \E a \in p.acs : e = Edge("SAML_HAS_ACS", p.id, a)
        \/ \E r \in p.rules : e = Edge("SAML_HAS_RULE", p.id, r)
    BY <1>1 DEF ServiceProviderRoutes
  <2>2. QED
    BY <2>1, ServiceProviderNodes, EdgeFits, SamlDefsAre
<1>2. CASE e \in AccountEdges(p)
  <2> DEFINE users == {u \in db["users"] : Logins(u) # {}}
  <2>1. \A u \in db["users"] : IsNodeOf(Node(u.id), "USER")
    BY LocalNodes, TablesAre DEF WholeInv, KnownInv, IsKnown
  <2>2. \/ \E u \in users : \E data : e = EdgeWith("SAML_HAS_ACCOUNT", p.id, Node(u.id), data)
        \/ \E x \in users \X p.fields : \E data :
             e = EdgeWith("SAML_HAS_VALUE", Node(x[1].id), x[2], data)
    BY <1>2 DEF AccountEdges, Unlinked
  <2>3. CASE \E u \in users : \E data : e = EdgeWith("SAML_HAS_ACCOUNT", p.id, Node(u.id), data)
    BY <2>1, <2>3, ServiceProviderNodes, EdgeFits, IdpDefsAre
  <2>4. CASE \E x \in users \X p.fields : \E data :
               e = EdgeWith("SAML_HAS_VALUE", Node(x[1].id), x[2], data)
    <3>1. PICK x \in users \X p.fields : \E data :
            e = EdgeWith("SAML_HAS_VALUE", Node(x[1].id), x[2], data)
      BY <2>4
    <3>2. x[1] \in db["users"] /\ x[2] \in p.fields
      BY <3>1
    <3>3. QED
      BY <2>1, <3>1, <3>2, ServiceProviderNodes, EdgeFits, SamlDefsAre
  <2>5. QED
    BY <2>2, <2>3, <2>4
<1>3. QED
  BY <1>1, <1>2 DEF ServiceProviderEdges, When

LEMMA RulesFit ==
  ASSUME NEW r \in Rules, NEW e \in RuleEdges(r)
  PROVE  Fits(e)
<1>1. IsNodeOf(r.id, "SAML_RULE")
  BY NodesAre, TagsAre, TaggedIs DEF Ids
<1>2. PICK i \in db["identity_providers"] : r \in AccountResolutionRuleRows(i)
  BY DEF Rules, RowsFrom
<1>3. IsNodeOf(r.field, "SAML_FIELD")
  BY <1>2, RuleFieldIsANode
<1>4. QED
  BY <1>1, <1>3, EdgeFits, SamlDefsAre DEF RuleEdges

LEMMA AllEdgesFit ==
  ASSUME WholeInv, NEW e \in AllEdges
  PROVE  Fits(e)
<1>1. CASE e \in RowsFrom("applications", ApplicationEdges)
  BY <1>1, ApplicationsFit DEF RowsFrom
<1>2. CASE e \in RowsFrom("application_users", ApplicationUserEdges)
  BY <1>2, ApplicationUsersFit DEF RowsFrom
<1>3. CASE e \in RowsFrom("groups", GroupEdges)
  BY <1>3, GroupsFit DEF RowsFrom
<1>4. CASE e \in RowsFrom("application_group_push_mappings", GroupMappingEdges)
  BY <1>4, MappingsFit DEF RowsFrom
<1>5. CASE e \in RowsFrom("identity_providers", IdentityProviderEdges)
  BY <1>5, IdentityProvidersFit DEF RowsFrom
<1>6. CASE e \in RowsFrom("identity_provider_users", IdpUserEdges)
  BY <1>6, IdpUsersFit DEF RowsFrom
<1>7. CASE e \in UNION {FederationProviderEdges(p) : p \in FederationProviders}
  BY <1>7, FederationProvidersFit
<1>8. CASE e \in UNION {ServiceProviderEdges(p) : p \in ServiceProviders}
  BY <1>8, ServiceProvidersFit
<1>9. CASE e \in UNION {RuleEdges(r) : r \in Rules}
  BY <1>9, RulesFit
<1>10. QED
  BY <1>1, <1>2, <1>3, <1>4, <1>5, <1>6, <1>7, <1>8, <1>9 DEF AllEdges

-----------------------------------------------------------------------------
(* An account is found in one way, and the graph is whole. *)

\* The edge to an account that Okta has linked, and to one that a rule finds.
IsLinkedBy(e, u) ==
  e = EdgeWith("SAML_HAS_ACCOUNT", SamlServiceProviderId(u.idp), Node(u.id),
               [match |-> IdpUserEvidence(u).match, fields |-> IdpUserEvidence(u).fields,
                state |-> AccountState(SourceUser(u.id).status), direct |-> TRUE])
IsFoundBy(e, p, u) ==
  e = EdgeWith("SAML_HAS_ACCOUNT", p.id, Node(u.id),
               [match |-> Logins(u), state |-> AccountState(u.status), direct |-> FALSE])

LEMMA LinkedEnds ==
  ASSUME NEW e, NEW u, IsLinkedBy(e, u)
  PROVE  e.start = SamlServiceProviderId(u.idp) /\ e.end = Node(u.id)
BY EdgeIs DEF IsLinkedBy

LEMMA FoundEnds ==
  ASSUME NEW e, NEW p, NEW u, IsFoundBy(e, p, u)
  PROVE  e.start = p.id /\ e.end = Node(u.id)
BY EdgeIs DEF IsFoundBy

LEMMA AccountsAre ==
  ASSUME NEW e \in AllEdges, e.kind = "SAML_HAS_ACCOUNT"
  PROVE  \/ \E u \in db["identity_provider_users"] : IsLinkedBy(e, u)
         \/ \E p \in ServiceProviders, u \in db["users"] :
              IsFoundBy(e, p, u) /\ u.id \notin DirectlyLinkedIds(p.idp)
<1>1. \/ \E u \in db["application_users"] : e \in AssertionEdges(u)
      \/ \E u \in db["identity_provider_users"] : e \in LinkedAccountEdges(u)
      \/ \E p \in ServiceProviders : e \in AccountEdges(p)
  BY EvidenceIsFrom DEF EvidenceKinds
<1>2. ASSUME NEW u \in db["application_users"], e \in AssertionEdges(u)
      PROVE  FALSE
  BY <1>2, EdgeIs DEF AssertionEdges, When
<1>3. ASSUME NEW u \in db["identity_provider_users"], e \in LinkedAccountEdges(u)
      PROVE  IsLinkedBy(e, u)
  BY <1>3, Zenon DEF LinkedAccountEdges, When, IsLinkedBy
<1>4. ASSUME NEW p \in ServiceProviders, e \in AccountEdges(p)
      PROVE  \E u \in db["users"] : IsFoundBy(e, p, u) /\ u.id \notin DirectlyLinkedIds(p.idp)
  <2> DEFINE users == {u \in db["users"] : Logins(u) # {}}
  <2>1. \/ \E u \in Unlinked(p, users) : IsFoundBy(e, p, u)
        \/ \E x \in users \X p.fields :
             e = EdgeWith("SAML_HAS_VALUE", Node(x[1].id), x[2], [match |-> Logins(x[1])])
    BY <1>4 DEF AccountEdges, IsFoundBy
  <2> HIDE DEF users
  <2>2. \A start, end, data : e # EdgeWith("SAML_HAS_VALUE", start, end, data)
    BY EdgeIs
  <2>3. \E u \in Unlinked(p, users) : IsFoundBy(e, p, u)
    BY <2>1, <2>2
  <2>4. QED
    BY <2>3 DEF Unlinked, users
<1>5. QED
  BY <1>1, <1>2, <1>3, <1>4

\* A service provider is that of one IdP.
LEMMA ServiceProvidersAreOf ==
  ASSUME WholeInv, NEW p \in ServiceProviders
  PROVE  /\ p.id = SamlServiceProviderId(p.idp)
         /\ \A q \in ServiceProviders : q.id = p.id => q = p
<1>1. ASSUME NEW q \in ServiceProviders
      PROVE  \E i \in db["identity_providers"] :
               /\ q \in ServiceProviderRows(i)
               /\ q.idp = i.id /\ q.id = SamlServiceProviderId(i.id)
  <2>1. PICK i \in db["identity_providers"] : q \in ServiceProviderRows(i)
    BY <1>1 DEF ServiceProviders, RowsFrom
  <2>2. QED
    BY <2>1 DEF ServiceProviderRows
<1>2. \A i : \A r, s \in ServiceProviderRows(i) : r = s
  BY DEF ServiceProviderRows
<1>3. PICK i \in db["identity_providers"] :
        p \in ServiceProviderRows(i) /\ p.idp = i.id /\ p.id = SamlServiceProviderId(i.id)
  BY <1>1
<1>4. ASSUME NEW q \in ServiceProviders, q.id = p.id
      PROVE  q = p
  <2>1. PICK j \in db["identity_providers"] :
          q \in ServiceProviderRows(j) /\ q.idp = j.id /\ q.id = SamlServiceProviderId(j.id)
    BY <1>1
  <2>2. j.id = i.id
    BY <1>3, <1>4, <2>1 DEF SamlServiceProviderId
  <2>3. j = i
    BY <2>2 DEF WholeInv, LinksInv
  <2>4. QED
    BY <1>2, <1>3, <2>1, <2>3
<1>5. QED
  BY <1>3, <1>4

LEMMA AccountsAreDistinct ==
  ASSUME WholeInv,
         NEW e \in AllEdges, e.kind = "SAML_HAS_ACCOUNT",
         NEW d \in AllEdges, d.kind = "SAML_HAS_ACCOUNT",
         e.start = d.start, e.end = d.end
  PROVE  e = d
<1>1. ASSUME NEW x, NEW y, SamlServiceProviderId(x) = SamlServiceProviderId(y)
      PROVE  x = y
  BY <1>1 DEF SamlServiceProviderId
<1>2. ASSUME NEW x, NEW y, Node(x) = Node(y)
      PROVE  x = y
  BY <1>2 DEF Node
\* Okta links a user to an IdP once.
<1>3. ASSUME NEW u \in db["identity_provider_users"], IsLinkedBy(e, u),
             NEW w \in db["identity_provider_users"], IsLinkedBy(d, w)
      PROVE  e = d
  <2>1. u.id = w.id /\ u.idp = w.idp
    BY <1>1, <1>2, <1>3, LinkedEnds
  <2>2. u = w
    BY <2>1 DEF WholeInv, LinksInv
  <2>3. QED
    BY <1>3, <2>2 DEF IsLinkedBy
\* A rule finds no user that Okta has linked.
<1>4. ASSUME NEW x, NEW y, x.start = y.start, x.end = y.end,
             NEW u \in db["identity_provider_users"], IsLinkedBy(x, u),
             NEW p \in ServiceProviders, NEW w \in db["users"], IsFoundBy(y, p, w),
             w.id \notin DirectlyLinkedIds(p.idp)
      PROVE  FALSE
  <2>1. SamlServiceProviderId(u.idp) = p.id /\ Node(u.id) = Node(w.id)
    BY <1>4, LinkedEnds, FoundEnds
  <2>2. u.idp = p.idp /\ u.id = w.id
    BY <1>1, <1>2, <2>1, ServiceProvidersAreOf
  <2>3. QED
    BY <1>4, <2>2 DEF DirectlyLinkedIds
\* And it finds a user once.
<1>5. ASSUME NEW p \in ServiceProviders, NEW u \in db["users"], IsFoundBy(e, p, u),
             NEW q \in ServiceProviders, NEW w \in db["users"], IsFoundBy(d, q, w)
      PROVE  e = d
  <2>1. p.id = q.id /\ u.id = w.id
    BY <1>2, <1>5, FoundEnds
  <2>2. PICK v \in SeenVersions : db["users"] \subseteq v.users
    BY DEF WholeInv, Inv, TablesAreListed, UsersAreListed
  <2>3. v \in Orgs
    BY <2>2, SeenAreOrgs DEF WholeInv
  <2>4. u = w
    BY <2>1, <2>2, <2>3, OrgsAssumption
  <2>5. p = q
    BY <2>1, ServiceProvidersAreOf
  <2>6. QED
    BY <1>5, <2>4, <2>5 DEF IsFoundBy
<1>6. CASE \E u \in db["identity_provider_users"] : IsLinkedBy(e, u)
  BY <1>3, <1>4, <1>6, AccountsAre
<1>7. CASE \E p \in ServiceProviders, u \in db["users"] :
             IsFoundBy(e, p, u) /\ u.id \notin DirectlyLinkedIds(p.idp)
  BY <1>4, <1>5, <1>7, AccountsAre
<1>8. QED
  BY <1>6, <1>7, AccountsAre

\* Whatever was collected and lost, the SAML nodes at the ends of the edges are
\* there, the edges are declared or known not to be, every route has a node of
\* its own, and no service provider finds an account twice.
THEOREM GraphsAreWhole == Spec => []SamlGraphIsWhole
<1>1. WholeInv => SamlGraphIsWhole
  <2>1. SUFFICES ASSUME WholeInv PROVE SamlGraphIsWhole
    OBVIOUS
  <2>2. ASSUME NEW e \in graph PROVE e \in AllEdges
    BY <2>1, <2>2 DEF WholeInv, Inv, GraphInv
  <2>3. TypeOK
    BY <2>1 DEF WholeInv, Inv, HistoryInv, TablesAreListed, GraphInv, BoundsInv, TypeOK
  <2>4. ASSUME NEW e \in graph, NEW node \in {e.start, e.end}, IsSamlNode(node)
        PROVE  KindsOf(node) # {}
    <3>1. Fits(e)
      BY <2>1, <2>2, <2>4, AllEdgesFit
    <3>2. PICK k : IsNodeOf(node, k)
      BY <2>4, <3>1 DEF Fits
    <3>3. QED
      BY <2>1, <2>4, <3>2, KindIs
  <2>5. ASSUME NEW e \in graph, NEW start \in KindsOf(e.start), NEW end \in KindsOf(e.end)
        PROVE  <<e.kind, start, end>> \in FederationDefs \cup UndeclaredDefs
    <3>1. Fits(e)
      BY <2>1, <2>2, <2>5, AllEdgesFit
    <3>2. PICK a, b : IsNodeOf(e.start, a) /\ IsNodeOf(e.end, b) /\ IsDefined(e.kind, a, b)
      BY <3>1 DEF Fits
    <3>3. start = a /\ end = b
      BY <2>1, <2>5, <3>2, KindIs
    <3>4. QED
      BY <3>2, <3>3 DEF IsDefined
  <2>6. \A app \in db["applications"] :
          Cardinality(Ids(AcsRowsOf(app))) = Len(SamlRoutesOf(app).routes)
    BY <2>1, ApplicationOf, AcsRowsAreNumbered
  <2>7. \A e, d \in Within("SAML_HAS_ACCOUNT") :
          e.start = d.start /\ e.end = d.end => e = d
    BY <2>1, <2>2, AccountsAreDistinct DEF Within
  <2>8. QED
    BY <2>3, <2>4, <2>5, <2>6, <2>7 DEF SamlGraphIsWhole, EdgesAreDeclared, NodesAreDistinct
<1>2. QED
  BY <1>1, WholeHolds, PTL

-----------------------------------------------------------------------------
(* The accounts that the rules find. *)

\* The link rows of the IdP of a service provider are those of a SAML IdP.
LEMMA LinksAreSaml ==
  ASSUME WholeInv, NEW p \in ServiceProviders, NEW user, NEW k \in LinksOf(p, user)
  PROVE  IsSamlIdentityProvider(k)
<1>1. PICK i \in db["identity_providers"] : p \in ServiceProviderRows(i)
  BY DEF ServiceProviders, RowsFrom
<1>2. IsSamlIdentityProvider(i) /\ p.idp = i.id
  BY <1>1 DEF ServiceProviderRows
<1>3. k \in db["identity_provider_users"] /\ k.idp = p.idp
  BY DEF LinksOf
<1>4. PICK j \in db["identity_providers"] : IsOf(k, j)
  BY <1>3 DEF WholeInv, LinksInv
<1>5. j = i
  BY <1>2, <1>3, <1>4 DEF IsOf, WholeInv, LinksInv
<1>6. QED
  BY <1>2, <1>4, <1>5 DEF IsOf, IsSamlIdentityProvider

LEMMA MatchIsValue ==
  ASSUME NEW k, ~NamesNoAccount(k)
  PROVE  IdpUserEvidence(k).match # {} /\ k.status \in {"ACTIVE", Unstated}
<1>1. PICK v : v \in UNION {IdpUserValue(k), k.externalId, k.msObjectId}
  BY DEF NamesNoAccount
<1>2. IdpUserEvidence(k).match = Exact(UNION {IdpUserValue(k), k.externalId, k.msObjectId})
  BY DEF IdpUserEvidence
<1>3. v.exact \in IdpUserEvidence(k).match
  BY <1>1, <1>2 DEF Exact
<1>4. QED
  BY <1>3 DEF NamesNoAccount

\* Users that Okta has linked, by a link that names an account.
LEMMA LinkedAreFound ==
  ASSUME WholeInv, graph = AllEdges, NEW p \in ServiceProviders,
         NEW user \in db["users"], NEW k \in LinksOf(p, user), ~NamesNoAccount(k)
  PROVE  HasAccount(p, user)
<1> DEFINE account ==
             EdgeWith("SAML_HAS_ACCOUNT", SamlServiceProviderId(k.idp), Node(k.id),
                      [match |-> IdpUserEvidence(k).match, fields |-> IdpUserEvidence(k).fields,
                       state |-> AccountState(SourceUser(k.id).status), direct |-> TRUE])
<1>1. k \in db["identity_provider_users"] /\ k.idp = p.idp /\ k.id = user.id
  BY DEF LinksOf
<1>2. SourceUser(user.id) = user
  <2>1. user \in RowsOf("users", user.id)
    BY DEF RowsOf
  <2>2. PICK v \in SeenVersions : db["users"] \subseteq v.users
    BY DEF WholeInv, Inv, TablesAreListed, UsersAreListed
  <2>3. v \in Orgs
    BY <2>2, SeenAreOrgs DEF WholeInv
  <2>4. \A r \in RowsOf("users", user.id) : r = user
    BY <2>2, <2>3, OrgsAssumption DEF RowsOf
  <2>5. QED
    BY <2>1, <2>4 DEF SourceUser
<1>3. account \in LinkedAccountEdges(k)
  <2>1. /\ IsSamlIdentityProvider(k) /\ k.status \in {"ACTIVE", Unstated}
        /\ IdpUserEvidence(k).match # {}
    BY LinksAreSaml, MatchIsValue
  <2>2. QED
    BY <2>1, Zenon DEF LinkedAccountEdges, When
<1>4. /\ account.kind = "SAML_HAS_ACCOUNT" /\ account.start = SamlServiceProviderId(k.idp)
      /\ account.end = Node(k.id) /\ account.data.direct
      /\ account.data.state = AccountState(SourceUser(k.id).status)
  BY DEF EdgeWith
<1> HIDE DEF account
<1>5. account \in graph
  <2>1. account \in IdpUserEdges(k)
    BY <1>3 DEF IdpUserEdges
  <2>2. account \in RowsFrom("identity_provider_users", IdpUserEdges)
    BY <1>1, <2>1 DEF RowsFrom
  <2>3. QED
    BY <2>2 DEF AllEdges
<1>6. account \in AccountsOf(p, user)
  BY <1>1, <1>4, <1>5, ServiceProvidersAreOf DEF AccountsOf, Within
<1>7. account.data.state = AccountState(user.status)
  BY <1>1, <1>2, <1>4
<1>8. QED
  BY <1>4, <1>6, <1>7 DEF HasAccount

\* And the others, by their logins.
LEMMA UnlinkedAreFound ==
  ASSUME graph = AllEdges, NEW p \in ServiceProviders,
         p.rules # {}, ~ServiceProviderRaises(p),
         NEW user \in {u \in db["users"] : Logins(u) # {}}, LinksOf(p, user) = {}
  PROVE  HasAccount(p, user)
<1> DEFINE users == {u \in db["users"] : Logins(u) # {}}
           account == EdgeWith("SAML_HAS_ACCOUNT", p.id, Node(user.id),
                               [match |-> Logins(user), state |-> AccountState(user.status),
                                direct |-> FALSE])
<1>1. /\ account.kind = "SAML_HAS_ACCOUNT" /\ account.start = p.id
      /\ account.end = Node(user.id) /\ ~account.data.direct
      /\ account.data.state = AccountState(user.status)
  BY DEF EdgeWith
<1>2. account \in AccountEdges(p)
  <2>1. user.id \notin DirectlyLinkedIds(p.idp)
    BY DEF DirectlyLinkedIds, LinksOf
  <2>2. user \in Unlinked(p, users)
    BY <2>1 DEF Unlinked
  <2>3. account \in {EdgeWith("SAML_HAS_ACCOUNT", p.id, Node(u.id),
                       [match |-> Logins(u), state |-> AccountState(u.status),
                        direct |-> FALSE]) : u \in Unlinked(p, users)}
    BY <2>2, Zenon
  <2>4. QED
    BY <2>3, Zenon DEF AccountEdges
<1> HIDE DEF account
<1>3. account \in graph
  BY <1>2 DEF AllEdges, ServiceProviderEdges, When
<1>4. QED
  BY <1>1, <1>3 DEF HasAccount, AccountsOf, Within

LEMMA ValuesAreThere ==
  ASSUME graph = AllEdges, NEW p \in ServiceProviders,
         p.rules # {}, ~ServiceProviderRaises(p),
         NEW user \in {u \in db["users"] : Logins(u) # {}}
  PROVE  HasValue(p, user)
<1>1. PICK i \in db["identity_providers"] : p \in ServiceProviderRows(i)
  BY DEF ServiceProviders, RowsFrom
<1>2. /\ p.rules = {r.id : r \in AccountResolutionRuleRows(i)}
      /\ p.fields = {r.field : r \in AccountResolutionRuleRows(i)}
  BY <1>1 DEF ServiceProviderRows
<1>3. PICK field : field \in p.fields
  BY <1>2
<1> DEFINE users == {u \in db["users"] : Logins(u) # {}}
           value == EdgeWith("SAML_HAS_VALUE", Node(user.id), field, [match |-> Logins(user)])
<1>4. /\ value.kind = "SAML_HAS_VALUE" /\ value.start = Node(user.id) /\ value.end = field
      /\ value.data.match = Logins(user)
  BY DEF EdgeWith
<1>5. value \in AccountEdges(p)
  <2>1. <<user, field>> \in users \X p.fields
    BY <1>3
  <2>2. value \in {EdgeWith("SAML_HAS_VALUE", Node(x[1].id), x[2], [match |-> Logins(x[1])]) :
                     x \in users \X p.fields}
    BY <2>1
  <2>3. QED
    BY <2>2, Zenon DEF AccountEdges
<1> HIDE DEF value
<1>6. value \in graph
  BY <1>5 DEF AllEdges, ServiceProviderEdges, When
<1>7. QED
  BY <1>3, <1>4, <1>6 DEF HasValue, Within

(***************************************************************************)
(* The rules of the graph find the accounts that Okta's policy finds        *)
(* (_account_resolution_evidence), and all users with a login are accounts  *)
(* that they find, linked or not (SamlServiceProvider, IDPUser), but for    *)
(* those whose link names no account.                                       *)
(***************************************************************************)
THEOREM RulesFollowPolicies == Spec => []RulesResolveAsOkta
<1>1. ASSUME WholeInv, graph = AllEdges, NEW p \in ServiceProviders,
             p.rules # {}, ~ServiceProviderRaises(p)
      PROVE  AccountsAreThere(p)
  <2>1. SUFFICES ASSUME NEW user \in {u \in db["users"] : Logins(u) # {}},
                        \A k \in LinksOf(p, user) : ~NamesNoAccount(k)
                 PROVE  HasValue(p, user) /\ HasAccount(p, user)
    BY <1>1, ValuesAreThere DEF AccountsAreThere
  <2>2. HasValue(p, user)
    BY <1>1, ValuesAreThere
  <2>3. CASE LinksOf(p, user) = {}
    BY <1>1, <2>2, <2>3, UnlinkedAreFound
  <2>4. CASE LinksOf(p, user) # {}
    BY <1>1, <2>1, <2>2, <2>4, LinkedAreFound
  <2>5. QED
    BY <2>3, <2>4
<1>2. WholeInv => RulesResolveAsOkta
  <2>1. SUFFICES ASSUME WholeInv, stage = "done", NEW p \in ServiceProviders
                 PROVE  LET idp == CHOOSE i \in db["identity_providers"] : i.id = p.idp
                        IN /\ \A rule \in AccountResolutionRuleRows(idp) :
                                ResolvesAsOkta(rule, idp.policy)
                           /\ p.rules # {} /\ ~ServiceProviderRaises(p) => AccountsAreThere(p)
    BY DEF RulesResolveAsOkta
  <2>2. graph = AllEdges
    BY <2>1 DEF WholeInv, Inv, GraphInv
  <2>3. QED
    BY <1>1, <2>1, <2>2, RulesResolve
<1>3. QED
  BY <1>2, WholeHolds, PTL
=============================================================================
