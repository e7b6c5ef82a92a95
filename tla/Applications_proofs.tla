------------------------ MODULE Applications_proofs ------------------------
(***************************************************************************)
(* Proofs about Applications, for any applications, groups and tenants, any *)
(* limit of the breaker and any number of pages, repeats and changes.       *)
(***************************************************************************)
EXTENDS Applications, TLAPS

(***************************************************************************)
(* The breaker.  While it has not tripped, denials is the length of the run *)
(* of denials that the trail ends with.                                    *)
(***************************************************************************)
DeniedFrom(i, j) == \A k \in i..j : trail[k] = "denied"

AllDenied == DeniedFrom(1, Len(trail))

RunInv ==
  ~tripped => /\ denials < Limit
              /\ denials <= Len(trail)
              /\ DeniedFrom(Len(trail) - denials + 1, Len(trail))

\* As long as nothing was granted no listing is under way, and all denials
\* have been counted.
VainInv ==
  AllDenied => /\ \A a \in Apps : grants[a] # "open"
               /\ ~tripped => denials = Len(trail)
               /\ Len(trail) <= Limit

\* Only the applications that may have grants have a listing under way.
OpenInv == \A a \in Apps : grants[a] = "open" => a \in asked

BreakerInv == BreakerTypeOK /\ RunInv /\ TripNeedsARun /\ VainInv /\ OpenInv

LEMMA BreakerInvInit == BreakerInit => BreakerInv
<1> SUFFICES ASSUME BreakerInit PROVE BreakerInv
  OBVIOUS
<1> USE BreakerAssumption DEF BreakerInit
<1>1. BreakerTypeOK
  <2>1. trail \in Seq({"granted", "denied"})
    OBVIOUS
  <2>2. grants \in [Apps -> {"new", "open", "done"}]
    OBVIOUS
  <2>3. QED
    BY <2>1, <2>2 DEF BreakerTypeOK
<1>2. RunInv /\ TripNeedsARun /\ OpenInv
  BY DEF RunInv, TripNeedsARun, OpenInv, DeniedFrom
<1>3. VainInv
  BY DEF VainInv
<1>4. QED
  BY <1>1, <1>2, <1>3 DEF BreakerInv

\* A generator that asks is one of an application that may have grants.
LEMMA AskersAreOAuth ==
  ASSUME BreakerInv, NEW a \in Apps, RequestsGrants(a)
  PROVE  a \in OAuthApps /\ asked' = asked \cup {a}
BY DEF BreakerInv, BreakerTypeOK, OpenInv, RequestsGrants, MayAsk

\* Where a generator asks, either the breaker has not tripped or something was
\* granted before.
LEMMA AskersHaveHope ==
  ASSUME BreakerInv, NEW a \in Apps, RequestsGrants(a)
  PROVE  AllDenied => ~tripped /\ denials = Len(trail) /\ Len(trail) < Limit
BY DEF BreakerInv, VainInv, RunInv, RequestsGrants, MayAsk

\* What a further response does to the trail.
LEMMA TrailGrows ==
  ASSUME BreakerTypeOK, NEW x \in {"granted", "denied"}, trail' = Append(trail, x)
  PROVE  /\ trail' \in Seq({"granted", "denied"})
         /\ Len(trail') = Len(trail) + 1
         /\ Len(trail) \in Nat
         /\ \A i \in 1..Len(trail) : trail'[i] = trail[i]
         /\ trail'[Len(trail) + 1] = x
BY DEF BreakerTypeOK

\* A run of denials in the trail stays one.
LEMMA RunsStay ==
  ASSUME BreakerInv, NEW x \in {"granted", "denied"}, trail' = Append(trail, x),
         tripped
  PROVE  \E i \in Limit..Len(trail') :
            \A j \in (i - Limit + 1)..i : trail'[j] = "denied"
<1>1. PICK i \in Limit..Len(trail) :
             \A j \in (i - Limit + 1)..i : trail[j] = "denied"
  BY DEF BreakerInv, TripNeedsARun
<1>2. Limit \in Nat \ {0} /\ BreakerTypeOK
  BY BreakerAssumption DEF BreakerInv
<1>3. Len(trail') = Len(trail) + 1 /\ Len(trail) \in Nat
  BY <1>2, TrailGrows
<1>4. i \in Limit..Len(trail') /\ (i - Limit + 1)..i \subseteq 1..Len(trail)
  BY <1>2, <1>3
<1>5. \A j \in (i - Limit + 1)..i : trail'[j] = "denied"
  BY <1>1, <1>2, <1>4, TrailGrows
<1>6. QED
  BY <1>4, <1>5

\* A granted page.
LEMMA PageKeepsInv ==
  ASSUME BreakerInv, NEW a \in Apps, GrantsPage(a)
  PROVE  BreakerInv'
<1>1. /\ RecordSuccess
      /\ trail' = Append(trail, "granted")
      /\ \/ grants' = [grants EXCEPT ![a] = "open"]
         \/ grants' = [grants EXCEPT ![a] = "done"]
  BY DEF GrantsPage, RecordSuccess
<1>2. a \in OAuthApps /\ asked' = asked \cup {a}
  BY AskersAreOAuth DEF GrantsPage
<1>3. /\ trail' \in Seq({"granted", "denied"})
      /\ Len(trail') = Len(trail) + 1
      /\ Len(trail) \in Nat
      /\ trail'[Len(trail) + 1] = "granted"
  BY <1>1, TrailGrows DEF BreakerInv
<1>4. BreakerTypeOK'
  BY <1>1, <1>2, <1>3 DEF BreakerInv, BreakerTypeOK, RecordSuccess
<1>5. RunInv'
  BY <1>1, <1>3, BreakerAssumption DEF RunInv, RecordSuccess, DeniedFrom
<1>6. TripNeedsARun'
  BY <1>1, RunsStay DEF TripNeedsARun, RecordSuccess
<1>7. VainInv'
  <2>1. ~AllDenied'
    BY <1>3 DEF AllDenied, DeniedFrom
  <2>2. QED
    BY <2>1 DEF VainInv
<1>8. OpenInv'
  BY <1>1, <1>2 DEF BreakerInv, BreakerTypeOK, OpenInv
<1>9. QED
  BY <1>4, <1>5, <1>6, <1>7, <1>8 DEF BreakerInv

\* A denial.
LEMMA DenialKeepsInv ==
  ASSUME BreakerInv, NEW a \in Apps, GrantsDenied(a)
  PROVE  BreakerInv'
<1>1. /\ RecordAccessDenied
      /\ trail' = Append(trail, "denied")
      /\ grants' = [grants EXCEPT ![a] = "done"]
  BY DEF GrantsDenied, RecordAccessDenied
<1>2. a \in OAuthApps /\ asked' = asked \cup {a}
  BY AskersAreOAuth DEF GrantsDenied
<1>3. /\ trail' \in Seq({"granted", "denied"})
      /\ Len(trail') = Len(trail) + 1
      /\ Len(trail) \in Nat
      /\ \A i \in 1..Len(trail) : trail'[i] = trail[i]
      /\ trail'[Len(trail) + 1] = "denied"
  BY <1>1, TrailGrows DEF BreakerInv
<1>4. BreakerTypeOK'
  <2>1. grants' \in [Apps -> {"new", "open", "done"}] /\ asked' \subseteq OAuthApps
    BY <1>1, <1>2 DEF BreakerInv, BreakerTypeOK
  <2>2. denials' \in Nat
    BY <1>1 DEF BreakerInv, BreakerTypeOK, RecordAccessDenied
  <2>3. tripped' \in BOOLEAN
    <3>1. (denials' >= Limit) \in BOOLEAN
      OBVIOUS
    <3>2. tripped' = tripped \/ tripped' = (denials' >= Limit)
      BY <1>1 DEF RecordAccessDenied
    <3>3. QED
      BY <3>1, <3>2, Zenon DEF BreakerInv, BreakerTypeOK
  <2>4. QED
    BY <1>3, <2>1, <2>2, <2>3 DEF BreakerTypeOK
<1>5. ASSUME ~tripped
      PROVE  /\ denials \in Nat
             /\ denials' = denials + 1
             /\ denials' <= Len(trail')
             /\ DeniedFrom(Len(trail) - denials + 1, Len(trail))'
  <2>1. /\ denials \in Nat
        /\ denials <= Len(trail)
        /\ DeniedFrom(Len(trail) - denials + 1, Len(trail))
    BY <1>5 DEF BreakerInv, BreakerTypeOK, RunInv
  <2>2. denials' = denials + 1
    BY <1>1, <1>5 DEF RecordAccessDenied
  <2>3. Len(trail') - denials' + 1 = Len(trail) - denials + 1
    BY <1>3, <2>1, <2>2
  <2>4. ASSUME NEW k \in (Len(trail) - denials + 1)..(Len(trail) + 1)
        PROVE  trail'[k] = "denied"
    <3>1. CASE k = Len(trail) + 1
      BY <1>3, <3>1
    <3>2. CASE k \in (Len(trail) - denials + 1)..Len(trail)
      <4>1. trail[k] = "denied"
        BY <2>1, <3>2 DEF DeniedFrom
      <4>2. k \in 1..Len(trail)
        BY <1>3, <2>1, <3>2
      <4>3. QED
        BY <1>3, <4>1, <4>2
    <3>3. QED
      BY <1>3, <2>1, <3>1, <3>2
  <2>5. DeniedFrom(Len(trail) - denials + 1, Len(trail))'
    BY <1>3, <2>3, <2>4 DEF DeniedFrom
  <2>6. QED
    BY <1>3, <2>1, <2>2, <2>5
<1>6. RunInv'
  <2>1. CASE tripped
    BY <1>1, <2>1 DEF RunInv, RecordAccessDenied
  <2>2. CASE ~tripped
    <3>1. tripped' = (denials' >= Limit)
      BY <1>1, <2>2 DEF RecordAccessDenied
    <3>2. ~(denials' >= Limit) => denials' < Limit
      BY <1>5, <2>2, BreakerAssumption
    <3>3. ~tripped' => denials' < Limit
      BY <3>1, <3>2, Zenon
    <3>4. QED
      BY <1>5, <2>2, <3>3 DEF RunInv, DeniedFrom
  <2>3. QED
    BY <2>1, <2>2
<1>7. TripNeedsARun'
  <2>1. CASE tripped
    BY <1>1, <2>1, RunsStay DEF TripNeedsARun
  <2>2. CASE ~tripped /\ tripped'
    <3>1. denials' >= Limit
      BY <1>1, <2>2 DEF RecordAccessDenied
    <3>2. Limit \in Nat \ {0}
      BY BreakerAssumption
    <3>3. Len(trail') \in Limit..Len(trail')
      BY <1>3, <1>5, <2>2, <3>1, <3>2
    <3>4. \A j \in (Len(trail') - Limit + 1)..Len(trail') : trail'[j] = "denied"
      BY <1>3, <1>5, <2>2, <3>1, <3>2 DEF DeniedFrom
    <3>5. QED
      BY <3>3, <3>4 DEF TripNeedsARun
  <2>3. QED
    BY <2>1, <2>2 DEF TripNeedsARun
<1>8. VainInv'
  <2>1. SUFFICES ASSUME AllDenied' PROVE VainInv'
    BY DEF VainInv
  <2>2. AllDenied
    BY <1>3, <2>1 DEF AllDenied, DeniedFrom
  <2>3. ~tripped /\ denials = Len(trail) /\ Len(trail) < Limit
    BY <2>2, AskersHaveHope DEF GrantsDenied
  <2>4. \A b \in Apps : grants'[b] # "open"
    BY <1>1, <2>2 DEF BreakerInv, BreakerTypeOK, VainInv
  <2>5. denials' = Len(trail') /\ Len(trail') <= Limit
    BY <1>3, <1>5, <2>3, BreakerAssumption
  <2>6. QED
    BY <2>4, <2>5 DEF VainInv
<1>9. OpenInv'
  BY <1>1, <1>2 DEF BreakerInv, BreakerTypeOK, OpenInv
<1>10. QED
  BY <1>4, <1>6, <1>7, <1>8, <1>9 DEF BreakerInv

LEMMA BreakerInvStep ==
  ASSUME BreakerInv,
         (\E a \in Apps : GrantsStep(a)) \/ UNCHANGED breakerVars
  PROVE  BreakerInv'
<1>1. ASSUME NEW a \in Apps, SkipGrants(a) PROVE BreakerInv'
  <2>1. /\ grants' = [grants EXCEPT ![a] = "done"]
        /\ UNCHANGED <<denials, tripped, asked, trail>>
    BY <1>1 DEF SkipGrants
  <2>2. QED
    BY <2>1 DEF BreakerInv, BreakerTypeOK, RunInv, TripNeedsARun, VainInv, OpenInv,
                AllDenied, DeniedFrom
<1>2. ASSUME NEW a \in Apps, GrantsFail(a) PROVE BreakerInv'
  <2>1. /\ grants' = [grants EXCEPT ![a] = "done"]
        /\ UNCHANGED <<denials, tripped, trail>>
    BY <1>2 DEF GrantsFail
  <2>2. a \in OAuthApps /\ asked' = asked \cup {a}
    BY <1>2, AskersAreOAuth DEF GrantsFail
  <2>3. QED
    BY <2>1, <2>2 DEF BreakerInv, BreakerTypeOK, RunInv, TripNeedsARun, VainInv,
                      OpenInv, AllDenied, DeniedFrom
<1>3. CASE UNCHANGED breakerVars
  BY <1>3 DEF breakerVars, BreakerInv, BreakerTypeOK, RunInv, TripNeedsARun,
              VainInv, OpenInv, AllDenied, DeniedFrom
<1>4. QED
  BY <1>1, <1>2, <1>3, PageKeepsInv, DenialKeepsInv DEF GrantsStep

LEMMA BreakerInvProtects == BreakerInv => NoDenialsInVain
BY DEF BreakerInv, BreakerTypeOK, VainInv, NoDenialsInVain, AllDenied, DeniedFrom

\* The breaker stays tripped, and no further application is asked.
LEMMA TrippedStays ==
  ASSUME BreakerInv, tripped,
         (\E a \in Apps : GrantsStep(a)) \/ UNCHANGED breakerVars
  PROVE  tripped' /\ asked' = asked
<1>1. ASSUME NEW a \in Apps, RequestsGrants(a) PROVE asked' = asked
  BY <1>1 DEF RequestsGrants, MayAsk, BreakerInv, OpenInv
<1>2. QED
  BY <1>1 DEF GrantsStep, SkipGrants, GrantsPage, GrantsDenied, GrantsFail,
              RecordSuccess, RecordAccessDenied, breakerVars

-----------------------------------------------------------------------------
(***************************************************************************)
(* The assignments.  The fingerprints that are kept are those of the rows.  *)
(***************************************************************************)
RowOf(a, g) == [app |-> a, group |-> g, evidence |-> fingerprints[a][g]]

\* Every row has left its fingerprint, and every fingerprint comes from a row
\* for a group that is assigned.
MarksInv ==
  /\ \A r \in rows : fingerprints[r.app][r.group] = r.evidence
  /\ \A a \in Apps, g \in Groups :
       fingerprints[a][g] # NoEvidence => RowOf(a, g) \in rows /\ g \in Assigned[a]

\* Unless the list has failed, all that was listed agrees with the fingerprints,
\* and what is not to come has been listed.
ListedInv ==
  /\ \A r \in listed :
       lists[r.app] # "failed" => fingerprints[r.app][r.group] = r.evidence
  /\ \A a \in Apps : lists[a] # "failed" =>
       \A g \in Assigned[a] \ toCome[a] : fingerprints[a][g] # NoEvidence
  /\ \A a \in Apps : lists[a] = "done" => toCome[a] = {}
  /\ \A a \in Apps : toCome[a] \subseteq Assigned[a]

AssignmentsInv == AssignmentsTypeOK /\ MarksInv /\ ListedInv

LEMMA AssignmentsInvInit == AssignmentsInit => AssignmentsInv
<1> SUFFICES ASSUME AssignmentsInit PROVE AssignmentsInv
  OBVIOUS
<1> USE AssignmentsAssumption DEF AssignmentsInit
<1>1. AssignmentsTypeOK
  BY DEF AssignmentsTypeOK, Row
<1>2. MarksInv
  BY DEF MarksInv
<1>3. ListedInv
  BY DEF ListedInv
<1>4. QED
  BY <1>1, <1>2, <1>3 DEF AssignmentsInv

\* A new item: its fingerprint is kept and its row yielded.
LEMMA NewKeepsInv ==
  ASSUME AssignmentsInv, NEW a \in Apps, NEW g \in Groups,
         List(a, g), NewAssignment(a, g)
  PROVE  AssignmentsInv'
<1> DEFINE row == RowFor(a, g)
<1>1. /\ fingerprints[a][g] = NoEvidence
      /\ fingerprints' = [fingerprints EXCEPT ![a][g] = evidence[a][g]]
      /\ rows' = rows \cup {row}
      /\ listed' = listed \cup {row}
      /\ lists' = lists /\ evidence' = evidence /\ updates' = updates
      /\ toCome' = [toCome EXCEPT ![a] = @ \ {g}] \/ toCome' = toCome
      /\ g \in Assigned[a]
      /\ lists[a] = "new"
  BY DEF List, NewAssignment, AssignmentsInv, AssignmentsTypeOK, ListedInv
<1>2. AssignmentsTypeOK /\ evidence[a][g] \in Nat /\ NoEvidence \notin Nat
  BY AssignmentsAssumption DEF AssignmentsInv, AssignmentsTypeOK
<1>3. row \in Row /\ row.app = a /\ row.group = g /\ row.evidence = evidence[a][g]
  BY <1>2 DEF Row, RowFor
<1>4. /\ fingerprints' \in [Apps -> [Groups -> Nat \cup {NoEvidence}]]
      /\ fingerprints'[a][g] = evidence[a][g]
      /\ \A b \in Apps, h \in Groups :
           b # a \/ h # g => fingerprints'[b][h] = fingerprints[b][h]
  BY <1>1, <1>2 DEF AssignmentsTypeOK
<1>5. \A r \in Row : r.app = a /\ r.group = g =>
        fingerprints[r.app][r.group] # r.evidence
  BY <1>1, <1>2 DEF Row
<1>6. \A r \in Row : fingerprints[r.app][r.group] = r.evidence =>
        fingerprints'[r.app][r.group] = r.evidence
  BY <1>4, <1>5 DEF Row
<1>7. AssignmentsTypeOK'
  <2>1. toCome' \in [Apps -> SUBSET Groups]
    BY <1>1, <1>2, SMTT(30) DEF AssignmentsTypeOK
  <2>2. repeats' \in [Apps -> Nat]
    BY <1>2 DEF List, AssignmentsTypeOK
  <2>3. rows' \subseteq Row /\ listed' \subseteq Row
    BY <1>1, <1>2, <1>3 DEF AssignmentsTypeOK
  <2>4. QED
    BY <1>1, <1>2, <1>4, <2>1, <2>2, <2>3 DEF AssignmentsTypeOK, Row
<1>8. MarksInv'
  <2>1. ASSUME NEW r \in rows' PROVE fingerprints'[r.app][r.group] = r.evidence
    BY <1>1, <1>2, <1>3, <1>4, <1>6, <2>1
    DEF AssignmentsInv, AssignmentsTypeOK, MarksInv
  <2>2. ASSUME NEW b \in Apps, NEW h \in Groups, fingerprints'[b][h] # NoEvidence
        PROVE  /\ h \in Assigned[b]
               /\ [app |-> b, group |-> h, evidence |-> fingerprints'[b][h]] \in rows'
    <3>1. CASE b = a /\ h = g
      BY <1>1, <1>4, <3>1 DEF RowFor
    <3>2. CASE b # a \/ h # g
      BY <1>1, <1>4, <2>2, <3>2 DEF AssignmentsInv, MarksInv, RowOf
    <3>3. QED
      BY <3>1, <3>2
  <2>3. QED
    BY <2>1, <2>2 DEF MarksInv, RowOf
<1>9. ListedInv'
  <2>1. ASSUME NEW r \in listed', lists'[r.app] # "failed"
        PROVE  fingerprints'[r.app][r.group] = r.evidence
    BY <1>1, <1>2, <1>3, <1>4, <1>6, <2>1
    DEF AssignmentsInv, AssignmentsTypeOK, ListedInv
  <2>2. ASSUME NEW b \in Apps, lists'[b] # "failed",
               NEW h \in Assigned[b] \ toCome'[b]
        PROVE  fingerprints'[b][h] # NoEvidence
    <3>1. h \in Groups
      BY AssignmentsAssumption
    <3>2. CASE b = a /\ h = g
      BY <1>2, <1>4, <3>2
    <3>3. CASE b # a \/ h # g
      BY <1>1, <1>2, <1>4, <2>2, <3>1, <3>3
      DEF AssignmentsInv, AssignmentsTypeOK, ListedInv
    <3>4. QED
      BY <3>2, <3>3
  <2>3. \A b \in Apps : lists'[b] = "done" => toCome'[b] = {}
    BY <1>1, <1>2 DEF AssignmentsInv, AssignmentsTypeOK, ListedInv
  <2>4. ASSUME NEW b \in Apps PROVE toCome'[b] \subseteq Assigned[b]
    <3>1. toCome'[b] \subseteq toCome[b]
      BY <1>1, <1>2 DEF AssignmentsTypeOK
    <3>2. toCome[b] \subseteq Assigned[b]
      BY DEF AssignmentsInv, ListedInv
    <3>3. QED
      BY <3>1, <3>2
  <2>5. QED
    BY <2>1, <2>2, <2>3, <2>4 DEF ListedInv
<1>10. QED
  BY <1>7, <1>8, <1>9 DEF AssignmentsInv

\* An item of a group with a fingerprint: dropped, or the list fails.
LEMMA RepeatKeepsInv ==
  ASSUME AssignmentsInv, NEW a \in Apps, NEW g \in Groups, List(a, g),
         DuplicateAssignment(a, g) \/ ConflictingAssignment(a, g)
  PROVE  AssignmentsInv'
<1> DEFINE row == RowFor(a, g)
<1>1. /\ fingerprints[a][g] # NoEvidence
      /\ \/ fingerprints[a][g] = evidence[a][g] /\ lists' = lists
         \/ lists' = [lists EXCEPT ![a] = "failed"]
      /\ fingerprints' = fingerprints /\ rows' = rows
      /\ listed' = listed \cup {row}
      /\ evidence' = evidence /\ updates' = updates
      /\ toCome' = [toCome EXCEPT ![a] = @ \ {g}] \/ toCome' = toCome
      /\ lists[a] = "new"
  BY DEF List, DuplicateAssignment, ConflictingAssignment, Agrees
<1>2. AssignmentsTypeOK /\ evidence[a][g] \in Nat
  BY DEF AssignmentsInv, AssignmentsTypeOK
<1>3. row \in Row /\ row.app = a /\ row.group = g /\ row.evidence = evidence[a][g]
  BY <1>2 DEF Row, RowFor
<1>4. AssignmentsTypeOK'
  <2>1. toCome' \in [Apps -> SUBSET Groups]
    <3>1. toCome \in [Apps -> SUBSET Groups]
      BY <1>2 DEF AssignmentsTypeOK
    <3>2. toCome[a] \ {g} \in SUBSET Groups
      BY <3>1
    <3>3. toCome' = [toCome EXCEPT ![a] = toCome[a] \ {g}] \/ toCome' = toCome
      BY <1>1
    <3>4. QED
      BY <3>1, <3>2, <3>3
  <2>2. repeats' \in [Apps -> Nat]
    BY <1>2, SMTT(30) DEF List, AssignmentsTypeOK
  <2>3. rows' \subseteq Row /\ listed' \subseteq Row
    BY <1>1, <1>2, <1>3 DEF AssignmentsTypeOK
  <2>4. lists' \in [Apps -> {"new", "done", "failed"}]
    BY <1>1, <1>2 DEF AssignmentsTypeOK
  <2>5. QED
    BY <1>1, <1>2, <2>1, <2>2, <2>3, <2>4 DEF AssignmentsTypeOK, Row
<1>5. MarksInv'
  BY <1>1 DEF AssignmentsInv, MarksInv, RowOf
<1>6. ListedInv'
  <2>1. ASSUME NEW r \in listed', lists'[r.app] # "failed"
        PROVE  fingerprints'[r.app][r.group] = r.evidence
    <3>1. CASE r = row
      BY <1>1, <1>2, <1>3, <2>1, <3>1 DEF AssignmentsTypeOK
    <3>2. CASE r \in listed
      <4>1. r.app \in Apps
        BY <1>2, <3>2 DEF AssignmentsTypeOK, Row
      <4>2. lists[r.app] # "failed"
        BY <1>1, <1>2, <2>1, <4>1 DEF AssignmentsTypeOK
      <4>3. QED
        BY <1>1, <3>2, <4>2 DEF AssignmentsInv, ListedInv
    <3>3. QED
      BY <1>1, <2>1, <3>1, <3>2
  <2>2. ASSUME NEW b \in Apps, lists'[b] # "failed",
               NEW h \in Assigned[b] \ toCome'[b]
        PROVE  fingerprints'[b][h] # NoEvidence
    <3>1. lists[b] # "failed"
      BY <1>1, <1>2, <2>2 DEF AssignmentsTypeOK
    <3>2. (b = a /\ h = g) \/ h \notin toCome[b]
      BY <1>1, <1>2, <2>2 DEF AssignmentsTypeOK
    <3>3. QED
      BY <1>1, <3>1, <3>2 DEF AssignmentsInv, ListedInv
  <2>3. \A b \in Apps : lists'[b] = "done" => toCome'[b] = {}
    BY <1>1, <1>2 DEF AssignmentsInv, AssignmentsTypeOK, ListedInv
  <2>4. ASSUME NEW b \in Apps PROVE toCome'[b] \subseteq Assigned[b]
    <3>1. toCome'[b] \subseteq toCome[b]
      BY <1>1, <1>2 DEF AssignmentsTypeOK
    <3>2. toCome[b] \subseteq Assigned[b]
      BY DEF AssignmentsInv, ListedInv
    <3>3. QED
      BY <3>1, <3>2
  <2>5. QED
    BY <2>1, <2>2, <2>3, <2>4 DEF ListedInv
<1>7. QED
  BY <1>4, <1>5, <1>6 DEF AssignmentsInv

LEMMA AssignmentsInvStep ==
  ASSUME AssignmentsInv,
         \/ \E a \in Apps : AssignmentsStep(a)
         \/ \E a \in Apps, g \in Groups : Update(a, g)
         \/ UNCHANGED assignmentVars
  PROVE  AssignmentsInv'
<1> USE DEF AssignmentsInv, AssignmentsTypeOK, MarksInv, ListedInv, RowOf
<1>1. ASSUME NEW a \in Apps, NEW g \in Groups, Item(a, g) PROVE AssignmentsInv'
  BY <1>1, NewKeepsInv, RepeatKeepsInv DEF Item
<1>2. ASSUME NEW a \in Apps, ListFails(a) PROVE AssignmentsInv'
  BY <1>2 DEF ListFails, Row
<1>3. ASSUME NEW a \in Apps, ListEnds(a) PROVE AssignmentsInv'
  BY <1>3 DEF ListEnds, Row
<1>4. ASSUME NEW a \in Apps, NEW g \in Groups, Update(a, g) PROVE AssignmentsInv'
  <2>1. evidence' \in [Apps -> [Groups -> Nat]] /\ updates' \in Nat
    BY <1>4 DEF Update
  <2>2. UNCHANGED <<lists, fingerprints, toCome, repeats, rows, listed>>
    BY <1>4 DEF Update
  <2>3. QED
    BY <2>1, <2>2 DEF Row
<1>5. CASE UNCHANGED assignmentVars
  BY <1>5 DEF assignmentVars, Row
<1>6. QED
  BY <1>1, <1>2, <1>3, <1>4, <1>5 DEF AssignmentsStep

LEMMA AssignmentsInvProtects == AssignmentsInv => OneRowPerAssignment
<1> SUFFICES ASSUME AssignmentsInv, NEW r \in rows, NEW s \in rows,
                    r.app = s.app, r.group = s.group
             PROVE  r = s
  BY DEF OneRowPerAssignment
<1>1. r \in Row /\ s \in Row
  BY DEF AssignmentsInv, AssignmentsTypeOK
<1>2. r.evidence = s.evidence
  BY DEF AssignmentsInv, MarksInv
<1>3. QED
  BY <1>1, <1>2 DEF Row

\* When every list has been read to its end, the rows are what was listed.
LEMMA DoneIsWhole ==
  ASSUME AssignmentsInv, \A a \in Apps : lists[a] = "done"
  PROVE  /\ listed \subseteq rows
         /\ \A a \in Apps :
              {r.group : r \in {s \in rows : s.app = a}} = Assigned[a]
<1>1. AssignmentsTypeOK /\ NoEvidence \notin Nat
  BY AssignmentsAssumption DEF AssignmentsInv
<1>2. ASSUME NEW r \in listed PROVE r \in rows
  <2>1. r \in Row
    BY <1>1 DEF AssignmentsTypeOK
  <2>2. r.app \in Apps /\ r.group \in Groups /\ r.evidence # NoEvidence
    BY <1>1, <2>1 DEF Row
  <2>3. fingerprints[r.app][r.group] = r.evidence
    BY <2>2 DEF AssignmentsInv, ListedInv
  <2>4. RowOf(r.app, r.group) \in rows
    BY <2>2, <2>3 DEF AssignmentsInv, MarksInv
  <2>5. RowOf(r.app, r.group) = r
    BY <2>1, <2>3 DEF RowOf, Row
  <2>6. QED
    BY <2>4, <2>5
<1>3. ASSUME NEW a \in Apps, NEW r \in rows, r.app = a PROVE r.group \in Assigned[a]
  <2>1. r.group \in Groups /\ r.evidence # NoEvidence
    BY <1>1 DEF AssignmentsTypeOK, Row
  <2>2. QED
    BY <1>3, <2>1 DEF AssignmentsInv, MarksInv
<1>4. ASSUME NEW a \in Apps, NEW g \in Assigned[a]
      PROVE  \E r \in rows : r.app = a /\ r.group = g
  <2>1. g \in Groups /\ fingerprints[a][g] # NoEvidence
    BY AssignmentsAssumption DEF AssignmentsInv, ListedInv
  <2>2. QED
    BY <2>1 DEF AssignmentsInv, MarksInv, RowOf
<1>5. QED
  BY <1>2, <1>3, <1>4

-----------------------------------------------------------------------------
(***************************************************************************)
(* The Entra tenant ids: a tenant without an answer has not been asked for, *)
(* and an application that has arrived was told the answer that is kept.    *)
(***************************************************************************)
TenantTypeOK ==
  /\ arrived \subseteq Apps
  /\ tenantIds \in [Tenants -> Answers \cup {Unknown}]
  /\ enriched \in [Office -> Answers \cup {Unknown}]
  /\ lookups \in [Tenants -> Nat]

TenantInv ==
  /\ TenantTypeOK
  /\ \A n \in Tenants : /\ lookups[n] <= 1
                        /\ tenantIds[n] = Unknown => lookups[n] = 0
  /\ \A a \in Office \cap arrived : /\ tenantIds[TenantOf[a]] # Unknown
                                    /\ enriched[a] = tenantIds[TenantOf[a]]

LEMMA TenantInvInit == Init => TenantInv
BY DEF Init, TenantInv, TenantTypeOK

LEMMA ArriveKeepsInv ==
  ASSUME TenantInv, NEW a \in Apps, Arrive(a)
  PROVE  TenantInv'
<1>1. a \notin arrived /\ arrived' = arrived \cup {a}
  BY DEF Arrive
<1>2. CASE a \notin Office
  BY <1>1, <1>2 DEF Arrive, TenantInv, TenantTypeOK, tenantVars
<1>3. CASE a \in Office
  <2> DEFINE n == TenantOf[a]
  <2>1. n \in Tenants /\ \A b \in Office : TenantOf[b] \in Tenants
    BY <1>3 DEF Tenants
  <2>2. Resolve(a, n)
    BY <1>3 DEF Arrive
  <2>3. CASE tenantIds[n] # Unknown
    <3>1. /\ enriched' = [enriched EXCEPT ![a] = tenantIds[n]]
          /\ UNCHANGED <<tenantIds, lookups>>
      BY <2>2, <2>3 DEF Resolve
    <3>2. TenantTypeOK'
      BY <1>1, <2>1, <3>1 DEF TenantInv, TenantTypeOK
    <3>3. ASSUME NEW b \in Office \cap arrived'
          PROVE  tenantIds[TenantOf[b]] # Unknown /\ enriched'[b] = tenantIds[TenantOf[b]]
      BY <1>1, <1>3, <2>3, <3>1 DEF TenantInv, TenantTypeOK
    <3>4. QED
      BY <3>1, <3>2, <3>3 DEF TenantInv
  <2>4. CASE tenantIds[n] = Unknown
    <3>1. PICK answer \in Answers :
            /\ tenantIds' = [tenantIds EXCEPT ![n] = answer]
            /\ enriched' = [enriched EXCEPT ![a] = answer]
            /\ lookups' = [lookups EXCEPT ![n] = @ + 1]
      BY <2>2, <2>4 DEF Resolve, Remember
    <3>2. answer # Unknown
      BY OfficeAssumption
    <3>3. TenantTypeOK'
      <4>1. lookups' \in [Tenants -> Nat]
        <5>1. lookups \in [Tenants -> Nat] /\ lookups[n] + 1 \in Nat
          BY <2>1 DEF TenantInv, TenantTypeOK
        <5>2. QED
          BY <3>1, <5>1
      <4>2. /\ tenantIds' \in [Tenants -> Answers \cup {Unknown}]
            /\ enriched' \in [Office -> Answers \cup {Unknown}]
        BY <3>1 DEF TenantInv, TenantTypeOK
      <4>3. QED
        BY <1>1, <4>1, <4>2 DEF TenantInv, TenantTypeOK
    <3>4. ASSUME NEW m \in Tenants
          PROVE  lookups'[m] <= 1 /\ (tenantIds'[m] = Unknown => lookups'[m] = 0)
      BY <2>1, <2>4, <3>1, <3>2 DEF TenantInv, TenantTypeOK
    <3>5. ASSUME NEW b \in Office \cap arrived'
          PROVE  /\ tenantIds'[TenantOf[b]] # Unknown
                 /\ enriched'[b] = tenantIds'[TenantOf[b]]
      <4>1. CASE b = a
        BY <1>3, <2>1, <3>1, <3>2, <4>1 DEF TenantInv, TenantTypeOK
      <4>2. CASE b # a
        <5>1. b \in arrived /\ TenantOf[b] # n
          BY <1>1, <2>4, <3>5, <4>2 DEF TenantInv
        <5>2. QED
          BY <2>1, <3>1, <4>2, <5>1 DEF TenantInv, TenantTypeOK
      <4>3. QED
        BY <4>1, <4>2
    <3>6. QED
      BY <3>3, <3>4, <3>5 DEF TenantInv
  <2>5. QED
    BY <2>3, <2>4
<1>4. QED
  BY <1>2, <1>3

-----------------------------------------------------------------------------
(***************************************************************************)
(* The composition.                                                        *)
(***************************************************************************)
OutcomeInv ==
  /\ outcome \in {"running", "complete", "failed"}
  /\ outcome = "complete" => \A a \in Apps : lists[a] = "done"

Inv == BreakerInv /\ AssignmentsInv /\ TenantInv /\ OutcomeInv

LEMMA InvInit == Init => Inv
BY BreakerInvInit, AssignmentsInvInit, TenantInvInit DEF Init, Inv, OutcomeInv

\* What a step means to the parts: each takes a step of its own or none.
LEMMA StepsOfParts ==
  ASSUME [Next]_vars
  PROVE  /\ (\E a \in Apps : GrantsStep(a)) \/ UNCHANGED breakerVars
         /\ \/ \E a \in Apps : AssignmentsStep(a)
            \/ \E a \in Apps, g \in Groups : Update(a, g)
            \/ UNCHANGED assignmentVars
         /\ (\E a \in Apps : Arrive(a)) \/ UNCHANGED <<arrived, tenantVars>>
         /\ \/ UNCHANGED outcome
            \/ outcome' = "failed" /\ UNCHANGED assignmentVars
            \/ Publish
         /\ outcome # "running" => UNCHANGED vars
<1>1. CASE UNCHANGED vars
  BY <1>1 DEF vars
<1>2. CASE outcome = "running" /\ (Abort \/ Publish)
  BY <1>2 DEF Abort, Publish
<1>3. ASSUME outcome = "running", NEW a \in Apps,
             Arrive(a) \/ GrantsTurn(a) \/ AssignmentsTurn(a) \/ Change(a)
      PROVE  /\ GrantsStep(a) \/ UNCHANGED breakerVars
             /\ \/ AssignmentsStep(a)
                \/ \E g \in Groups : Update(a, g)
                \/ UNCHANGED assignmentVars
             /\ Arrive(a) \/ UNCHANGED <<arrived, tenantVars>>
             /\ UNCHANGED outcome
  BY <1>3 DEF Arrive, GrantsTurn, AssignmentsTurn, Change
<1>4. QED
  BY <1>1, <1>2, <1>3 DEF Next, Ended

LEMMA InvStep == Inv /\ [Next]_vars => Inv'
<1> SUFFICES ASSUME Inv, [Next]_vars PROVE Inv'
  OBVIOUS
<1>1. BreakerInv'
  BY BreakerInvStep, StepsOfParts DEF Inv
<1>2. AssignmentsInv'
  BY AssignmentsInvStep, StepsOfParts DEF Inv
<1>3. TenantInv'
  <2>1. CASE UNCHANGED <<arrived, tenantVars>>
    BY <2>1 DEF Inv, TenantInv, TenantTypeOK, tenantVars
  <2>2. QED
    BY <2>1, ArriveKeepsInv, StepsOfParts DEF Inv
<1>4. OutcomeInv'
  <2>1. CASE outcome # "running"
    BY <2>1, StepsOfParts DEF Inv, OutcomeInv, vars, assignmentVars
  <2>2. CASE outcome = "running" /\ UNCHANGED outcome
    BY <2>2 DEF OutcomeInv
  <2>3. CASE outcome' = "failed"
    BY <2>3 DEF OutcomeInv
  <2>4. CASE Publish
    BY <2>4 DEF Publish, Through, OutcomeInv, assignmentVars
  <2>5. QED
    BY <2>1, <2>2, <2>3, <2>4, StepsOfParts
<1>5. QED
  BY <1>1, <1>2, <1>3, <1>4 DEF Inv

THEOREM InvHolds == Spec => []Inv
BY InvInit, InvStep, PTL DEF Spec

\* The type invariant of the collection of the applications.
THEOREM TypeCorrect == Spec => []TypeOK
<1>1. Inv => TypeOK
  BY DEF Inv, BreakerInv, AssignmentsInv, TenantInv, TenantTypeOK, OutcomeInv, TypeOK
<1>2. QED
  BY <1>1, InvHolds, PTL

\* The breaker trips after a run of Limit denials only, however the generators
\* of the applications take turns.
THEOREM TripsNeedARun == Spec => []TripNeedsARun
<1>1. Inv => TripNeedsARun
  BY DEF Inv, BreakerInv
<1>2. QED
  BY <1>1, InvHolds, PTL

\* A collector without the permission wastes at most Limit requests.
THEOREM DenialsAreFew == Spec => []NoDenialsInVain
<1>1. Inv => NoDenialsInVain
  BY BreakerInvProtects DEF Inv
<1>2. QED
  BY <1>1, InvHolds, PTL

\* A breaker that has tripped stops the requests for further applications.
THEOREM TrippedStops == Spec => TrippedStopsRequests
<1>1. Inv /\ [Next]_vars => [tripped => tripped' /\ asked' = asked]_breakerVars
  BY TrippedStays, StepsOfParts DEF Inv
<1>2. QED
  BY <1>1, InvHolds, PTL DEF Spec, TrippedStopsRequests

\* There is one row for each assignment.
THEOREM OneRowEach == Spec => []OneRowPerAssignment
<1>1. Inv => OneRowPerAssignment
  BY AssignmentsInvProtects DEF Inv
<1>2. QED
  BY <1>1, InvHolds, PTL

\* What is published is whole, has one row for each assignment, and agrees with
\* everything that was listed.
THEOREM PublicationIsSound == Spec => []PublishedIsExact
<1>1. Inv => PublishedIsExact
  BY DoneIsWhole, AssignmentsInvProtects DEF Inv, OutcomeInv, PublishedIsExact
<1>2. QED
  BY <1>1, InvHolds, PTL

\* Each tenant is asked for once and the applications are told the same.
THEOREM LookupsAreShared == Spec => []OneLookupPerTenant
<1>1. Inv => OneLookupPerTenant
  BY DEF Inv, TenantInv, OneLookupPerTenant
<1>2. QED
  BY <1>1, InvHolds, PTL

\* The breaker trips neither too early nor too late.
THEOREM BreakerTripsOnTime == Spec => []TripsOnTime
<1>1. TripNeedsARun /\ NoDenialsInVain => TripsOnTime
  BY DEF TripsOnTime
<1>2. QED
  BY <1>1, TripsNeedARun, DenialsAreFew, PTL
=============================================================================
