------------------------ MODULE FactorClaims_proofs ------------------------
(***************************************************************************)
(* Proofs about FactorClaims, for any users, groups and factors, with and   *)
(* without limit_user_mfa_collection.                                      *)
(***************************************************************************)
EXTENDS FactorClaims, FiniteSetTheorems, FunctionTheorems, TLAPS

\* The generators that request factors are those that claimed a user.
ClaimInv ==
  /\ \A r \in fetchers : IsCovered(r) /\ r.user \in claimed
  /\ \A u \in claimed : \E r \in fetchers : r.user = u
  /\ \A r \in Records : pc[r] \in {"fetching", "yielding"} => r \in fetchers
  /\ \A r \in fetchers : pc[r] # "new"
  /\ \A r \in Records : pc[r] = "done" /\ IsCovered(r) => r.user \in claimed

\* A generator yields what Okta has, and only when it has got all of it.  One
\* that has failed has yielded nothing.
YieldInv ==
  /\ \A r \in Records : pc[r] \in {"new", "fetching"} => yielded[r] = {}
  /\ \A r \in Records : pc[r] = "yielding" => gathered[r] = Enrolled[r.user]
  /\ \A r \in Records : r \notin fetchers => yielded[r] = {}
  /\ \A r \in fetchers : pc[r] = "done" /\ r.user \notin failed =>
       gathered[r] = Enrolled[r.user] /\ yielded[r] = RowsOf(r)
  /\ failed \subseteq claimed
  /\ \A r \in fetchers : r.user \in failed => pc[r] = "done" /\ yielded[r] = {}

RowFor(r, f) == [user |-> r.user, factor |-> f, by |-> r]

\* The table has the rows that were yielded.
TableInv ==
  /\ \A row \in rows : /\ row = RowFor(row.by, row.factor)
                       /\ row.factor \in yielded[row.by]
  /\ \A r \in Records : \A f \in yielded[r] : RowFor(r, f) \in rows

EndInv ==
  outcome = "complete" => \A r \in Records : pc[r] = "done"

Inv == TypeOK /\ FetchedOnce /\ ClaimInv /\ YieldInv /\ TableInv /\ EndInv

-----------------------------------------------------------------------------
\* The user of a record.
LEMMA RecordUsers ==
  ASSUME NEW r \in Records
  PROVE  /\ r.user \in Users
         /\ r.from = Listing \/ r.from \in Groups
         /\ Enrolled[r.user] \subseteq Factors
BY OrgAssumption DEF Records

LEMMA InvInit == Init => Inv
<1> SUFFICES ASSUME Init PROVE Inv
  OBVIOUS
<1> USE DEF Init
<1>1. TypeOK
  BY DEF TypeOK
<1>2. FetchedOnce /\ ClaimInv /\ YieldInv /\ TableInv /\ EndInv
  BY DEF FetchedOnce, ClaimInv, YieldInv, TableInv, EndInv
<1>3. QED
  BY <1>1, <1>2 DEF Inv

\* The steps that end a generator before it has claimed a user.
LEMMA SkipKeepsInv ==
  ASSUME Inv, outcome = "running", NEW r \in Records, Drop(r) \/ AlreadyClaimed(r)
  PROVE  Inv'
<1>1. /\ pc[r] = "new"
      /\ IsCovered(r) => r.user \in claimed
      /\ pc' = [pc EXCEPT ![r] = "done"]
      /\ UNCHANGED <<claimed, gathered, yielded, rows, fetchers, failed, outcome>>
  BY DEF Drop, AlreadyClaimed
<1>2. r \notin fetchers /\ TypeOK
  BY <1>1 DEF Inv, ClaimInv
<1>3. TypeOK'
  BY <1>1, <1>2 DEF TypeOK
<1>4. FetchedOnce'
  BY <1>1 DEF Inv, FetchedOnce
<1>5. ClaimInv'
  BY <1>1, <1>2 DEF Inv, TypeOK, ClaimInv, IsCovered
<1>6. YieldInv'
  BY <1>1, <1>2 DEF Inv, TypeOK, YieldInv, RowsOf
<1>7. TableInv' /\ EndInv'
  BY <1>1 DEF Inv, TableInv, RowFor, EndInv
<1>8. QED
  BY <1>3, <1>4, <1>5, <1>6, <1>7 DEF Inv

LEMMA ClaimKeepsInv ==
  ASSUME Inv, outcome = "running", NEW r \in Records, Claim(r)
  PROVE  Inv'
<1>1. /\ pc[r] = "new"
      /\ IsCovered(r)
      /\ r.user \notin claimed
      /\ claimed' = claimed \cup {r.user}
      /\ fetchers' = fetchers \cup {r}
      /\ pc' = [pc EXCEPT ![r] = "fetching"]
      /\ UNCHANGED <<gathered, yielded, rows, failed, outcome>>
  BY DEF Claim
<1>2. r \notin fetchers /\ TypeOK /\ yielded[r] = {}
  BY <1>1 DEF Inv, ClaimInv, YieldInv
<1>3. TypeOK'
  BY <1>1, <1>2, RecordUsers DEF TypeOK
<1>4. FetchedOnce'
  BY <1>1 DEF Inv, FetchedOnce, ClaimInv
<1>5. ClaimInv'
  BY <1>1, <1>2 DEF Inv, TypeOK, ClaimInv, IsCovered
<1>6. YieldInv'
  <2>1. r.user \notin failed
    BY <1>1 DEF Inv, YieldInv
  <2>2. /\ pc'[r] = "fetching"
        /\ \A s \in Records : s # r => pc'[s] = pc[s]
    BY <1>1, <1>2 DEF TypeOK
  <2>3. \A s \in Records : /\ pc'[s] \in {"new", "fetching"} => yielded[s] = {}
                           /\ pc'[s] = "yielding" => gathered[s] = Enrolled[s.user]
                           /\ s \notin fetchers' => yielded[s] = {}
    BY <1>1, <1>2, <2>2 DEF Inv, YieldInv
  <2>4. \A s \in fetchers' : /\ s \in Records
                             /\ s # r => s \in fetchers /\ pc'[s] = pc[s]
    BY <1>1, <1>2, <2>2 DEF TypeOK
  <2>5. \A s \in fetchers' :
          /\ pc'[s] = "done" /\ s.user \notin failed =>
               gathered[s] = Enrolled[s.user] /\ yielded[s] = RowsOf(s)
          /\ s.user \in failed => pc'[s] = "done" /\ yielded[s] = {}
    BY <2>1, <2>2, <2>4 DEF Inv, YieldInv
  <2>6. failed \subseteq claimed'
    BY <1>1 DEF Inv, YieldInv
  <2>7. QED
    BY <1>1, <2>3, <2>5, <2>6 DEF YieldInv, RowsOf
<1>7. TableInv' /\ EndInv'
  BY <1>1 DEF Inv, TableInv, RowFor, EndInv
<1>8. QED
  BY <1>3, <1>4, <1>5, <1>6, <1>7 DEF Inv

\* A generator at work is the only one of its user, and the user is not among
\* those whose fetch failed.
LEMMA AtWork ==
  ASSUME Inv, NEW r \in Records, pc[r] \in {"fetching", "yielding"}
  PROVE  /\ r \in fetchers /\ r.user \in claimed /\ r.user \notin failed
         /\ \A s \in fetchers : s.user = r.user => s = r
         /\ IsCovered(r)
BY DEF Inv, ClaimInv, YieldInv, FetchedOnce

\* Facts that hold after a step of a generator at work, which leaves the claims
\* alone.
LEMMA WorkKeepsClaims ==
  ASSUME Inv, NEW r \in Records, pc[r] \in {"fetching", "yielding"},
         NEW c \in {"fetching", "yielding", "done"}, pc' = [pc EXCEPT ![r] = c],
         UNCHANGED <<claimed, fetchers>>
  PROVE  /\ FetchedOnce' /\ ClaimInv'
         /\ pc' \in [Records -> {"new", "fetching", "yielding", "done"}]
         /\ pc'[r] = c
         /\ \A s \in Records : s # r => pc'[s] = pc[s]
         /\ fetchers \subseteq Records
<1>1. r \in fetchers /\ r.user \in claimed
  BY AtWork
<1>2. /\ pc' \in [Records -> {"new", "fetching", "yielding", "done"}]
      /\ pc'[r] = c
      /\ \A s \in Records : s # r => pc'[s] = pc[s]
      /\ fetchers \subseteq Records
  BY DEF Inv, TypeOK
<1>3. FetchedOnce'
  BY DEF Inv, FetchedOnce
<1>4. ClaimInv'
  BY <1>1, <1>2 DEF Inv, ClaimInv, IsCovered
<1>5. QED
  BY <1>2, <1>3, <1>4

LEMMA PageKeepsInv ==
  ASSUME Inv, outcome = "running", NEW r \in Records, Page(r)
  PROVE  Inv'
<1>1. PICK page \in (SUBSET (Enrolled[r.user] \ gathered[r])) \ {{}} :
           gathered' = [gathered EXCEPT ![r] = @ \cup page]
  BY DEF Page
<1>2. /\ pc[r] = "fetching"
      /\ UNCHANGED <<pc, claimed, yielded, rows, fetchers, failed, outcome>>
  BY DEF Page
<1>3. gathered' \in [Records -> SUBSET Factors]
  BY <1>1, RecordUsers DEF Inv, TypeOK
<1>4. \A s \in Records : s # r => gathered'[s] = gathered[s]
  BY <1>1 DEF Inv, TypeOK
<1>5. TypeOK'
  BY <1>2, <1>3 DEF Inv, TypeOK
<1>6. FetchedOnce' /\ ClaimInv'
  BY <1>2 DEF Inv, FetchedOnce, ClaimInv, IsCovered
<1>7. YieldInv'
  <2>1. fetchers \subseteq Records
    BY DEF Inv, TypeOK
  <2>2. \A t \in fetchers : pc[t] = "done" /\ t.user \notin failed =>
          gathered'[t] = Enrolled[t.user] /\ yielded[t] = RowsOf(t)'
    <3>1. SUFFICES ASSUME NEW t \in fetchers, pc[t] = "done", t.user \notin failed
                   PROVE  gathered'[t] = Enrolled[t.user] /\ yielded[t] = RowsOf(t)'
      OBVIOUS
    <3>2. gathered'[t] = gathered[t]
      BY <1>2, <1>4, <2>1, <3>1
    <3>3. RowsOf(t)' = RowsOf(t)
      BY <3>2 DEF RowsOf
    <3>4. gathered[t] = Enrolled[t.user] /\ yielded[t] = RowsOf(t)
      BY <3>1 DEF Inv, YieldInv
    <3>5. QED
      BY <3>2, <3>3, <3>4
  <2>3. \A t \in Records : pc[t] = "yielding" => gathered'[t] = Enrolled[t.user]
    BY <1>2, <1>4 DEF Inv, YieldInv
  <2>4. QED
    BY <1>2, <2>2, <2>3 DEF Inv, YieldInv
<1>8. TableInv' /\ EndInv'
  BY <1>2 DEF Inv, TableInv, RowFor, EndInv
<1>9. QED
  BY <1>5, <1>6, <1>7, <1>8 DEF Inv

LEMMA FetchedKeepsInv ==
  ASSUME Inv, outcome = "running", NEW r \in Records, Fetched(r)
  PROVE  Inv'
<1>1. /\ pc[r] = "fetching"
      /\ gathered[r] = Enrolled[r.user]
      /\ pc' = [pc EXCEPT ![r] = "yielding"]
      /\ UNCHANGED <<claimed, gathered, yielded, rows, fetchers, failed, outcome>>
  BY DEF Fetched
<1>2. /\ FetchedOnce' /\ ClaimInv'
      /\ pc' \in [Records -> {"new", "fetching", "yielding", "done"}]
      /\ pc'[r] = "yielding"
      /\ \A s \in Records : s # r => pc'[s] = pc[s]
      /\ fetchers \subseteq Records
  BY <1>1, WorkKeepsClaims
<1>3. TypeOK'
  BY <1>1, <1>2 DEF Inv, TypeOK
<1>4. YieldInv'
  BY <1>1, <1>2, AtWork DEF Inv, YieldInv, RowsOf
<1>5. TableInv' /\ EndInv'
  BY <1>1 DEF Inv, TableInv, RowFor, EndInv
<1>6. QED
  BY <1>2, <1>3, <1>4, <1>5 DEF Inv

LEMMA FailKeepsInv ==
  ASSUME Inv, outcome = "running", NEW r \in Records, FetchFails(r)
  PROVE  Inv'
<1>1. /\ pc[r] = "fetching"
      /\ pc' = [pc EXCEPT ![r] = "done"]
      /\ failed' = failed \cup {r.user}
      /\ UNCHANGED <<claimed, gathered, yielded, rows, fetchers, outcome>>
  BY DEF FetchFails
<1>2. /\ FetchedOnce' /\ ClaimInv'
      /\ pc' \in [Records -> {"new", "fetching", "yielding", "done"}]
      /\ pc'[r] = "done"
      /\ \A s \in Records : s # r => pc'[s] = pc[s]
      /\ fetchers \subseteq Records
  BY <1>1, WorkKeepsClaims
<1>3. TypeOK'
  BY <1>1, <1>2, RecordUsers DEF Inv, TypeOK
<1>4. YieldInv'
  <2>1. yielded[r] = {} /\ r.user \in claimed /\ r \in fetchers
    BY <1>1, AtWork DEF Inv, YieldInv
  <2>2. \A t \in fetchers : t.user = r.user => t = r
    BY <1>1, AtWork
  <2>3. \A t \in fetchers : t.user \in failed' => pc'[t] = "done" /\ yielded[t] = {}
    BY <1>1, <1>2, <2>1, <2>2 DEF Inv, YieldInv
  <2>4. \A t \in fetchers : pc'[t] = "done" /\ t.user \notin failed' =>
          gathered[t] = Enrolled[t.user] /\ yielded[t] = RowsOf(t)
    BY <1>1, <1>2 DEF Inv, YieldInv
  <2>5. \A t \in Records : /\ pc'[t] \in {"new", "fetching"} => yielded[t] = {}
                           /\ pc'[t] = "yielding" => gathered[t] = Enrolled[t.user]
                           /\ t \notin fetchers => yielded[t] = {}
    BY <1>1, <1>2 DEF Inv, YieldInv
  <2>6. failed' \subseteq claimed
    BY <1>1, <2>1 DEF Inv, YieldInv
  <2>7. QED
    BY <1>1, <2>3, <2>4, <2>5, <2>6 DEF YieldInv, RowsOf
<1>5. TableInv' /\ EndInv'
  BY <1>1 DEF Inv, TableInv, RowFor, EndInv
<1>6. QED
  BY <1>2, <1>3, <1>4, <1>5 DEF Inv

LEMMA YieldKeepsInv ==
  ASSUME Inv, outcome = "running", NEW r \in Records, Yield(r)
  PROVE  Inv'
<1>1. PICK f \in RowsOf(r) \ yielded[r] :
        /\ yielded' = [yielded EXCEPT ![r] = @ \cup {f}]
        /\ rows' = rows \cup {RowFor(r, f)}
  BY DEF Yield, RowFor
<1>2. /\ pc[r] = "yielding"
      /\ UNCHANGED <<pc, claimed, gathered, fetchers, failed, outcome>>
  BY DEF Yield
<1>3. f \in Factors \cup {NoFactor}
  BY <1>1 DEF Inv, TypeOK, RowsOf
<1>4. RowFor(r, f) \in Row
  BY <1>3, RecordUsers DEF RowFor, Row
<1>5. /\ yielded' \in [Records -> SUBSET (Factors \cup {NoFactor})]
      /\ yielded'[r] = yielded[r] \cup {f}
      /\ \A s \in Records : s # r => yielded'[s] = yielded[s]
  BY <1>1, <1>3 DEF Inv, TypeOK
<1>6. TypeOK'
  BY <1>1, <1>2, <1>4, <1>5 DEF Inv, TypeOK
<1>7. FetchedOnce' /\ ClaimInv'
  BY <1>2 DEF Inv, FetchedOnce, ClaimInv, IsCovered
<1>8. YieldInv'
  <2>1. fetchers \subseteq Records
    BY DEF Inv, TypeOK
  <2>2. QED
    BY <1>2, <1>5, <2>1, AtWork DEF Inv, YieldInv, RowsOf
<1>9. TableInv'
  <2>1. ASSUME NEW row \in rows'
        PROVE  row = RowFor(row.by, row.factor) /\ row.factor \in yielded'[row.by]
    <3>1. CASE row \in rows
      <4>1. row.by \in Records
        BY <3>1 DEF Inv, TypeOK, Row
      <4>2. QED
        BY <1>5, <3>1, <4>1 DEF Inv, TableInv
    <3>2. CASE row = RowFor(r, f)
      BY <1>5, <3>2 DEF RowFor
    <3>3. QED
      BY <1>1, <2>1, <3>1, <3>2
  <2>2. ASSUME NEW s \in Records, NEW g \in yielded'[s] PROVE RowFor(s, g) \in rows'
    BY <1>1, <1>5, <2>2 DEF Inv, TableInv
  <2>3. QED
    BY <2>1, <2>2 DEF TableInv, RowFor
<1>10. EndInv'
  BY <1>2 DEF EndInv
<1>11. QED
  BY <1>6, <1>7, <1>8, <1>9, <1>10 DEF Inv

LEMMA EndKeepsInv ==
  ASSUME Inv, outcome = "running", NEW r \in Records, GeneratorEnds(r)
  PROVE  Inv'
<1>1. /\ pc[r] = "yielding"
      /\ yielded[r] = RowsOf(r)
      /\ pc' = [pc EXCEPT ![r] = "done"]
      /\ UNCHANGED <<claimed, gathered, yielded, rows, fetchers, failed, outcome>>
  BY DEF GeneratorEnds
<1>2. /\ FetchedOnce' /\ ClaimInv'
      /\ pc' \in [Records -> {"new", "fetching", "yielding", "done"}]
      /\ pc'[r] = "done"
      /\ \A s \in Records : s # r => pc'[s] = pc[s]
      /\ fetchers \subseteq Records
  BY <1>1, WorkKeepsClaims
<1>3. TypeOK'
  BY <1>1, <1>2 DEF Inv, TypeOK
<1>4. YieldInv'
  BY <1>1, <1>2, AtWork, ZenonT(30) DEF Inv, YieldInv, RowsOf
<1>5. TableInv' /\ EndInv'
  BY <1>1 DEF Inv, TableInv, RowFor, EndInv
<1>6. QED
  BY <1>2, <1>3, <1>4, <1>5 DEF Inv

LEMMA InvStep == Inv /\ [Next]_vars => Inv'
<1> SUFFICES ASSUME Inv, [Next]_vars PROVE Inv'
  OBVIOUS
<1>1. CASE UNCHANGED vars
  BY <1>1 DEF vars, Inv, TypeOK, FetchedOnce, ClaimInv, YieldInv, TableInv, EndInv,
              RowsOf, RowFor, IsCovered
<1>2. ASSUME outcome = "running", NEW r \in Records, GeneratorStep(r) PROVE Inv'
  BY <1>2, SkipKeepsInv, ClaimKeepsInv, PageKeepsInv, FetchedKeepsInv,
     FailKeepsInv, YieldKeepsInv, EndKeepsInv DEF GeneratorStep
<1>3. CASE RunEnds
  BY <1>3 DEF RunEnds, Inv, TypeOK, FetchedOnce, ClaimInv, YieldInv, TableInv,
              EndInv, RowsOf, RowFor, IsCovered
<1>4. QED
  BY <1>1, <1>2, <1>3 DEF Next, Ended

THEOREM InvHolds == Spec => []Inv
BY InvInit, InvStep, PTL DEF Spec

-----------------------------------------------------------------------------
\* The type invariant of the collection of the factors.
THEOREM TypeCorrect == Spec => []TypeOK
<1>1. Inv => TypeOK
  BY DEF Inv
<1>2. QED
  BY <1>1, InvHolds, PTL

\* Of all the generators that are given a user one fetches the factors.
THEOREM EachFetchedOnce == Spec => []FetchedOnce
<1>1. Inv => FetchedOnce
  BY DEF Inv
<1>2. QED
  BY <1>1, InvHolds, PTL

\* A row comes from the one generator that claimed its user.
LEMMA RowsHaveFetchers ==
  ASSUME Inv, NEW row \in rows
  PROVE  /\ row.by \in fetchers /\ row.by \in Records
         /\ row.user = row.by.user
         /\ row.factor \in yielded[row.by]
         /\ row = RowFor(row.by, row.factor)
<1>1. row.by \in Records
  BY DEF Inv, TypeOK, Row
<1>2. row = RowFor(row.by, row.factor) /\ row.factor \in yielded[row.by]
  BY DEF Inv, TableInv
<1>3. row.user = row.by.user
  BY <1>2 DEF RowFor
<1>4. QED
  BY <1>1, <1>2, <1>3 DEF Inv, YieldInv

\* A failed fetch leaves no row.
THEOREM FailuresLeaveNothing == Spec => []FailedLeavesNothing
<1>1. ASSUME Inv PROVE FailedLeavesNothing
  <2>1. ASSUME NEW u \in failed, NEW row \in rows, row.user = u PROVE FALSE
    BY <1>1, <2>1, RowsHaveFetchers DEF Inv, YieldInv
  <2>2. QED
    BY <2>1 DEF FailedLeavesNothing, RowsFor
<1>2. QED
  BY <1>1, InvHolds, PTL

\* Only privileged users cost a request if the collection is limited to them.
THEOREM OnlyPrivileged == Spec => []OnlyPrivilegedCovered
<1>1. ASSUME Inv, Limited, NEW u \in claimed
      PROVE  u \in Privileged \cup UNION {Members[g] : g \in AdminGroups}
  <2>1. PICK r \in fetchers : r.user = u
    BY <1>1 DEF Inv, ClaimInv
  <2>2. r \in Records /\ IsCovered(r)
    BY <1>1 DEF Inv, TypeOK, ClaimInv
  <2>3. \/ r.from = Listing /\ r.user \in Privileged
        \/ r.from \in Groups /\ r.user \in Members[r.from]
    BY <1>1, <2>2 DEF Records
  <2>4. QED
    BY <2>1, <2>2, <2>3, ModelValuesAssumption, OrgAssumption DEF IsCovered
<1>2. Inv => OnlyPrivilegedCovered
  BY <1>1 DEF OnlyPrivilegedCovered
<1>3. QED
  BY <1>2, InvHolds, PTL

\* The rows that one generator leaves for a user count up to the active factors
\* of the user in Okta.
LEMMA CountIsExact ==
  ASSUME Inv, NEW r \in fetchers, pc[r] = "done", r.user \notin failed
  PROVE  Count(r.user) = Cardinality(Enrolled[r.user] \cap Active)
<1> DEFINE u == r.user
           Real == Enrolled[u] \cap Active
           F == [f \in Real |-> RowFor(r, f)]
<1>1. r \in Records /\ Enrolled[u] \subseteq Factors /\ u \in Users
  BY RecordUsers DEF Inv, TypeOK
<1>2. gathered[r] = Enrolled[u] /\ yielded[r] = RowsOf(r)
  BY DEF Inv, YieldInv
<1>3. \A row \in rows : row.user = u => row.by = r
  BY RowsHaveFetchers DEF Inv, FetchedOnce
<1>4. \A f \in RowsOf(r) : RowFor(r, f) \in rows
  BY <1>1, <1>2 DEF Inv, TableInv
<1>5. RowsFor(u) # {}
  <2>1. PICK f \in RowsOf(r) : TRUE
    BY DEF RowsOf
  <2>2. RowFor(r, f) \in rows /\ RowFor(r, f).user = u
    BY <1>4 DEF RowFor
  <2>3. QED
    BY <2>2 DEF RowsFor
<1>6. \A f \in Real : RowFor(r, f) \in ActiveRowsFor(u)
  <2>1. ASSUME NEW f \in Real PROVE RowFor(r, f) \in ActiveRowsFor(u)
    <3>1. f \in RowsOf(r)
      BY <1>2 DEF RowsOf
    <3>2. RowFor(r, f).user = u /\ RowFor(r, f).factor = f
      BY DEF RowFor
    <3>3. QED
      BY <1>4, <3>1, <3>2 DEF ActiveRowsFor, RowsFor
  <2>2. QED
    BY <2>1
<1>7. \A row \in ActiveRowsFor(u) : row.factor \in Real /\ row = RowFor(r, row.factor)
  <2>1. ASSUME NEW row \in ActiveRowsFor(u)
        PROVE  row.factor \in Real /\ row = RowFor(r, row.factor)
    <3>1. row \in rows /\ row.user = u /\ row.factor \in Active
      BY DEF ActiveRowsFor, RowsFor
    <3>2. row.by = r
      BY <1>3, <3>1
    <3>3. row.factor \in RowsOf(r) /\ row = RowFor(r, row.factor)
      BY <1>2, <3>1, <3>2, RowsHaveFetchers
    <3>4. row.factor # NoFactor
      BY <3>1, OrgAssumption, ModelValuesAssumption
    <3>5. row.factor \in Enrolled[u]
      BY <1>2, <3>3, <3>4 DEF RowsOf
    <3>6. QED
      BY <3>1, <3>3, <3>5
  <2>2. QED
    BY <2>1
<1>8. IsFiniteSet(Real)
  BY <1>1, FS_Subset, OrgAssumption
<1>9. F \in Bijection(Real, ActiveRowsFor(u))
  <2>1. \A f \in Real : F[f] = RowFor(r, f) /\ F[f].factor = f
    BY DEF RowFor
  <2>2. F \in [Real -> ActiveRowsFor(u)]
    BY <1>6
  <2>3. \A f, g \in Real : F[f] = F[g] => f = g
    BY <2>1
  <2>4. \A row \in ActiveRowsFor(u) : \E f \in Real : F[f] = row
    BY <1>7
  <2>5. QED
    BY <2>2, <2>3, <2>4, Fun_IsBij
<1>10. Cardinality(ActiveRowsFor(u)) = Cardinality(Real)
  BY <1>8, <1>9, FS_Bijection DEF ExistsBijection
<1>11. QED
  BY <1>5, <1>10 DEF Count

\* After a run that ended well the count of every user is Okta's, or says that
\* the factors were not collected.
THEOREM CountsAreExact == Spec => []CountsAreOktas
<1>1. ASSUME Inv, outcome = "complete", NEW u \in Users
      PROVE  Count(u) = IF u \in Covered \ failed
                        THEN Cardinality(Enrolled[u] \cap Active)
                        ELSE NotCollected
  <2>1. CASE u \in Covered \ failed
    <3>1. PICK s \in Records : IsCovered(s) /\ s.user = u
      BY <2>1 DEF Covered
    <3>2. PICK r \in fetchers : r.user = u
      BY <1>1, <3>1 DEF Inv, EndInv, ClaimInv
    <3>3. pc[r] = "done"
      BY <1>1 DEF Inv, EndInv, TypeOK
    <3>4. QED
      BY <1>1, <2>1, <3>2, <3>3, CountIsExact
  <2>2. CASE u \notin Covered \ failed
    <3>1. ASSUME NEW row \in rows, row.user = u PROVE FALSE
      <4>1. row.by \in Records /\ IsCovered(row.by) /\ row.by.user = u
        BY <1>1, <3>1, RowsHaveFetchers DEF Inv, ClaimInv
      <4>2. u \in failed
        BY <2>2, <4>1 DEF Covered
      <4>3. QED
        BY <1>1, <3>1, <4>2, RowsHaveFetchers DEF Inv, YieldInv
    <3>2. RowsFor(u) = {}
      BY <3>1 DEF RowsFor
    <3>3. QED
      BY <2>2, <3>2 DEF Count
  <2>3. QED
    BY <2>1, <2>2
<1>2. Inv => CountsAreOktas
  BY <1>1 DEF CountsAreOktas
<1>3. QED
  BY <1>2, InvHolds, PTL

\* No user's rows are doubled, and none are cut off.
THEOREM FactorRowsStayWhole == Spec => []FactorRowsAreWhole
<1>1. FetchedOnce /\ FailedLeavesNothing => FactorRowsAreWhole
  BY DEF FactorRowsAreWhole
<1>2. QED
  BY <1>1, EachFetchedOnce, FailuresLeaveNothing, PTL
=============================================================================
