-------------------------- MODULE Throttle_proofs --------------------------
(***************************************************************************)
(* Proofs about Throttle, for any number of threads and families and any    *)
(* settings.                                                               *)
(***************************************************************************)
EXTENDS Throttle, FiniteSetTheorems, TLAPS

\* The types without the upper bounds of the semaphores and the lower bounds of
\* the counters, which follow from what they count.
Labels == {"idle", "join", "queued", "leave", "pace", "outage", "permit", "check",
           "book", "booked", "sending", "answered", "ended", "free", "freeSlot"}

CountTypes ==
  /\ permits \in Nat
  /\ slots \in [Families -> Nat]
  /\ queued \in [Families -> Int]
  /\ active \in [Families -> Int]
  /\ lostCounts \in [Families -> Nat]
  /\ lostSlots \in [Families -> Nat]

ThreadTypes ==
  /\ pc \in [Threads -> Labels]
  /\ fam \in [Threads -> Families \cup {NoFamily}]
  /\ sampled \in [Threads -> Nat]
  /\ reply \in [Threads -> Reply]
  /\ left \in [Threads -> Nat]

PaceTypes ==
  /\ clock \in Nat
  /\ orgNext \in Nat
  /\ next \in [Families -> Nat]
  /\ interval \in [Families -> Nat \ {0}]
  /\ probe \in [Families -> Nat]
  /\ observed \in [Families -> Observation \cup {NoWindow}]
  /\ window \in [Families -> [reset: Nat, used: Nat]]
  /\ lastStart \in [Families -> Nat \cup {-1}]
  /\ lastPace \in [Families -> Nat]
  /\ pauseSeen \in [Threads -> Nat]

\* A thread has a family exactly while it is inside a request.
FamilyInv == \A t \in Threads : pc[t] = "idle" <=> fam[t] = NoFamily

\* No window that Okta opened, answered with or that was observed ends later
\* than Window from now, and nobody has read a clock that is ahead.
HorizonInv ==
  /\ \A f \in Families : /\ window[f].reset <= clock + Window
                         /\ observed[f] # NoWindow
                              => observed[f].reset <= clock + Window
  /\ \A t \in Threads : reply[t].reset <= clock + Window

\* The next start is due an interval after the latest one.
SpacingInv == \A f \in Families : lastStart[f] + lastPace[f] <= next[f]

-----------------------------------------------------------------------------
\* What Okta answers with is a reply, of a window that ends no later than
\* Window from now.
LEMMA AnswerReply ==
  ASSUME NEW t \in Threads, PaceTypes, ThreadTypes, FamilyInv, HorizonInv,
         Counted(t) \/ Uncounted(t)
  PROVE  \E r \in Reply : Answer(t, r) /\ r.reset <= clock + Window
<1> USE WindowAssumption, BoundsAssumption, RepliesAssumption
<1> DEFINE f == fam[t]
           w == CurrentWindow(f)
<1>1. f \in Families
  <2>1. pc[t] = "sending"
    BY DEF Counted, Uncounted, Answer
  <2>2. QED
    BY <2>1 DEF FamilyInv, ThreadTypes
<1>2. w.used \in Nat /\ w.reset \in Nat /\ w.reset <= clock + Window
  <2>1. /\ clock \in Nat
        /\ window[f] \in [reset: Nat, used: Nat]
        /\ window[f].reset <= clock + Window
    BY <1>1 DEF PaceTypes, HorizonInv
  <2>2. QED
    BY <2>1 DEF CurrentWindow
<1>3. CASE Uncounted(t)
  <2>1. PICK kind \in Replies \ {"headers"} :
             Answer(t, [NoReply EXCEPT !.kind = kind])
    BY <1>3 DEF Uncounted
  <2>2. /\ [NoReply EXCEPT !.kind = kind] \in Reply
        /\ [NoReply EXCEPT !.kind = kind].reset <= clock + Window
    BY DEF NoReply, Reply, PaceTypes
  <2>3. QED
    BY <2>1, <2>2
<1>4. CASE Counted(t)
  <2>1. ASSUME NEW used \in (w.used + 1)..(w.used + 1 + Others), used <= Limit,
               Answer(t, [kind |-> "headers", remaining |-> Limit - used,
                          reset |-> w.reset])
        PROVE  \E r \in Reply : Answer(t, r) /\ r.reset <= clock + Window
    <3>1. [kind |-> "headers", remaining |-> Limit - used, reset |-> w.reset]
            \in Reply
      BY <2>1, <1>2 DEF Reply, ReplyKinds
    <3>2. QED
      BY <2>1, <3>1, <1>2
  <2>2. ASSUME Answer(t, [NoReply EXCEPT !.kind = "limited"])
        PROVE  \E r \in Reply : Answer(t, r) /\ r.reset <= clock + Window
    <3>1. /\ [NoReply EXCEPT !.kind = "limited"] \in Reply
          /\ [NoReply EXCEPT !.kind = "limited"].reset <= clock + Window
      BY DEF NoReply, Reply, ReplyKinds, PaceTypes
    <3>2. QED
      BY <2>2, <3>1
  <2>3. QED
    BY <1>4, <2>1, <2>2 DEF Counted
<1>5. QED
  BY <1>3, <1>4

\* The counters stay integers.
LEMMA CountTypesStep ==
  ASSUME CountTypes, ThreadTypes, FamilyInv, [Next]_vars
  PROVE  CountTypes'
<1> USE ModelValuesAssumption, SettingsAssumption
<1>1. ASSUME NEW t \in Threads, NEW f \in Families, Enter(t, f)
      PROVE  CountTypes'
  BY <1>1 DEF Enter, CountTypes, ThreadTypes, FamilyInv, Goto, vars, orgVars,
         paceVars, familyVars, threadVars, startVars, leakVars
<1>2. ASSUME NEW t \in Threads, Dequeue(t)
      PROVE  CountTypes'
  BY <1>2 DEF Dequeue, CountTypes, ThreadTypes, FamilyInv, Goto, vars,
         orgVars, paceVars, familyVars, threadVars, startVars, leakVars
<1>2a. ASSUME NEW t \in Threads, JoinQueue(t)
      PROVE  CountTypes'
  BY <1>2a DEF JoinQueue, CountTypes, ThreadTypes, FamilyInv, Goto, vars,
         orgVars, paceVars, familyVars, threadVars, startVars, leakVars
<1>2b. ASSUME NEW t \in Threads, LeaveQueue(t)
      PROVE  CountTypes'
  BY <1>2b DEF LeaveQueue, CountTypes, ThreadTypes, FamilyInv, Goto, vars,
         orgVars, paceVars, familyVars, threadVars, startVars, leakVars
<1>2c. ASSUME NEW t \in Threads, InterruptedInQueue(t)
      PROVE  CountTypes'
  BY <1>2c DEF InterruptedInQueue, CountTypes, ThreadTypes, FamilyInv, Goto, vars,
         orgVars, paceVars, familyVars, threadVars, startVars, leakVars
<1>3. ASSUME NEW t \in Threads, Paced(t)
      PROVE  CountTypes'
  BY <1>3 DEF Paced, CountTypes, ThreadTypes, FamilyInv, Goto, vars, orgVars,
         paceVars, familyVars, threadVars, startVars, leakVars
<1>4. ASSUME NEW t \in Threads, OutageOver(t)
      PROVE  CountTypes'
  BY <1>4 DEF OutageOver, CountTypes, ThreadTypes, FamilyInv, Goto, vars,
         orgVars, paceVars, familyVars, threadVars, startVars, leakVars
<1>5. ASSUME NEW t \in Threads, TakePermit(t)
      PROVE  CountTypes'
  BY <1>5 DEF TakePermit, CountTypes, ThreadTypes, FamilyInv, Goto, vars,
         orgVars, paceVars, familyVars, threadVars, startVars, leakVars
<1>6. ASSUME NEW t \in Threads, Check(t)
      PROVE  CountTypes'
  BY <1>6 DEF Check, WaitAgain, CountTypes, ThreadTypes, FamilyInv, Goto,
         vars, orgVars, paceVars, familyVars, threadVars, startVars, leakVars
<1>7. ASSUME NEW t \in Threads, Book(t)
      PROVE  CountTypes'
  BY <1>7 DEF Book, WaitAgain, CountTypes, ThreadTypes, FamilyInv, Goto, vars,
         orgVars, paceVars, familyVars, threadVars, startVars, leakVars
<1>8. ASSUME NEW t \in Threads, Interrupted(t)
      PROVE  CountTypes'
  BY <1>8 DEF Interrupted, CountTypes, ThreadTypes, FamilyInv, Goto, vars,
         orgVars, paceVars, familyVars, threadVars, startVars, leakVars
<1>9. ASSUME NEW t \in Threads, Begin(t)
      PROVE  CountTypes'
  BY <1>9 DEF Begin, CountTypes, ThreadTypes, FamilyInv, Goto, vars, orgVars,
         paceVars, familyVars, threadVars, startVars, leakVars
<1>10. ASSUME NEW t \in Threads, Counted(t)
      PROVE  CountTypes'
  BY <1>10 DEF Counted, Answer, CountTypes, ThreadTypes, FamilyInv, Goto,
         vars, orgVars, paceVars, familyVars, threadVars, startVars, leakVars
<1>11. ASSUME NEW t \in Threads, Uncounted(t)
      PROVE  CountTypes'
  BY <1>11 DEF Uncounted, Answer, CountTypes, ThreadTypes, FamilyInv, Goto,
         vars, orgVars, paceVars, familyVars, threadVars, startVars, leakVars
<1>12. ASSUME NEW t \in Threads, End(t)
      PROVE  CountTypes'
  BY <1>12 DEF End, CountTypes, ThreadTypes, FamilyInv, Goto, vars, orgVars,
         paceVars, familyVars, threadVars, startVars, leakVars
<1>13. ASSUME NEW t \in Threads, Publish(t)
      PROVE  CountTypes'
  <2>1. /\ pc[t] = "ended"
        /\ pc' = [pc EXCEPT ![t] = "free"]
        /\ reply' = [reply EXCEPT ![t] = NoReply]
        /\ UNCHANGED <<clock, permits, slots, queued, active, fam, sampled,
                       left, window, startVars, leakVars, pauseSeen>>
    BY <1>13 DEF Publish, Goto
  <2>2. QED
    BY <2>1 DEF CountTypes, leakVars
<1>14. ASSUME NEW t \in Threads, ReleasePermit(t)
      PROVE  CountTypes'
  BY <1>14 DEF ReleasePermit, CountTypes, ThreadTypes, FamilyInv, Goto, vars,
         orgVars, paceVars, familyVars, threadVars, startVars, leakVars
<1>15. ASSUME NEW t \in Threads, ReleaseSlot(t)
      PROVE  CountTypes'
  BY <1>15 DEF ReleaseSlot, CountTypes, ThreadTypes, FamilyInv, Goto, vars,
         orgVars, paceVars, familyVars, threadVars, startVars, leakVars
<1>16. CASE Tick
  BY <1>16 DEF Tick, CountTypes, ThreadTypes, FamilyInv, Goto, vars, orgVars,
         paceVars, familyVars, threadVars, startVars, leakVars
<1>17. CASE UNCHANGED vars
  BY <1>17 DEF CountTypes, ThreadTypes, FamilyInv, Goto, vars, orgVars,
         paceVars, familyVars, threadVars, startVars, leakVars
<1>18. QED
  BY <1>1, <1>2, <1>2a, <1>2b, <1>2c, <1>3, <1>4, <1>5, <1>6, <1>7, <1>8, <1>9,
     <1>10, <1>11, <1>12, <1>13, <1>14, <1>15, <1>16, <1>17
  DEF Next, ThreadStep, Finished

\* The threads' local state keeps its types.
LEMMA ThreadTypesStep ==
  ASSUME PaceTypes, ThreadTypes, FamilyInv, HorizonInv, [Next]_vars
  PROVE  ThreadTypes'
<1> USE ModelValuesAssumption, SettingsAssumption
<1>1. ASSUME NEW t \in Threads, NEW f \in Families, Enter(t, f)
      PROVE  ThreadTypes'
  BY <1>1 DEF Enter, ThreadTypes, Labels, Goto, vars, orgVars, paceVars,
         familyVars, threadVars, startVars, leakVars
<1>2. ASSUME NEW t \in Threads, Dequeue(t)
      PROVE  ThreadTypes'
  BY <1>2 DEF Dequeue, ThreadTypes, Labels, Goto, vars, orgVars, paceVars,
         familyVars, threadVars, startVars, leakVars
<1>2a. ASSUME NEW t \in Threads, JoinQueue(t)
      PROVE  ThreadTypes'
  BY <1>2a DEF JoinQueue, ThreadTypes, Labels, Goto, vars, orgVars, paceVars,
         familyVars, threadVars, startVars, leakVars
<1>2b. ASSUME NEW t \in Threads, LeaveQueue(t)
      PROVE  ThreadTypes'
  BY <1>2b DEF LeaveQueue, ThreadTypes, Labels, Goto, vars, orgVars, paceVars,
         familyVars, threadVars, startVars, leakVars
<1>2c. ASSUME NEW t \in Threads, InterruptedInQueue(t)
      PROVE  ThreadTypes'
  BY <1>2c DEF InterruptedInQueue, ThreadTypes, Labels, Goto, vars, orgVars, paceVars,
         familyVars, threadVars, startVars, leakVars
<1>3. ASSUME NEW t \in Threads, Paced(t)
      PROVE  ThreadTypes'
  BY <1>3 DEF Paced, ThreadTypes, Labels, Goto, vars, orgVars, paceVars,
         familyVars, threadVars, startVars, leakVars
<1>4. ASSUME NEW t \in Threads, OutageOver(t)
      PROVE  ThreadTypes'
  BY <1>4 DEF OutageOver, ThreadTypes, Labels, Goto, vars, orgVars, paceVars,
         familyVars, threadVars, startVars, leakVars
<1>5. ASSUME NEW t \in Threads, TakePermit(t)
      PROVE  ThreadTypes'
  BY <1>5 DEF TakePermit, ThreadTypes, Labels, Goto, vars, orgVars, paceVars,
         familyVars, threadVars, startVars, leakVars
<1>6. ASSUME NEW t \in Threads, Check(t)
      PROVE  ThreadTypes'
  <2>1. /\ pc' = [pc EXCEPT ![t] = "book"] \/ pc' = [pc EXCEPT ![t] = "pace"]
        /\ sampled' = [sampled EXCEPT ![t] = clock] \/ sampled' = sampled
        /\ UNCHANGED <<fam, reply, left>>
    BY <1>6 DEF Check, WaitAgain, Goto
  <2>2. clock \in Nat
    BY DEF PaceTypes
  <2>3. pc' \in [Threads -> Labels]
    BY <2>1 DEF ThreadTypes, Labels
  <2>4. sampled' \in [Threads -> Nat]
    BY <2>1, <2>2 DEF ThreadTypes
  <2>5. QED
    BY <2>1, <2>3, <2>4 DEF ThreadTypes
<1>7. ASSUME NEW t \in Threads, Book(t)
      PROVE  ThreadTypes'
  BY <1>7 DEF Book, WaitAgain, ThreadTypes, Labels, Goto, vars, orgVars,
         paceVars, familyVars, threadVars, startVars, leakVars
<1>8. ASSUME NEW t \in Threads, Interrupted(t)
      PROVE  ThreadTypes'
  BY <1>8 DEF Interrupted, ThreadTypes, Labels, Goto, vars, orgVars, paceVars,
         familyVars, threadVars, startVars, leakVars
<1>9. ASSUME NEW t \in Threads, Begin(t)
      PROVE  ThreadTypes'
  BY <1>9 DEF Begin, ThreadTypes, Labels, Goto, vars, orgVars, paceVars,
         familyVars, threadVars, startVars, leakVars
<1>10. ASSUME NEW t \in Threads, Counted(t)
      PROVE  ThreadTypes'
  <2>1. PICK r \in Reply : Answer(t, r)
    BY <1>10, AnswerReply DEF Answer
  <2>2. QED
    BY <2>1 DEF Answer, Goto, ThreadTypes, Labels
<1>11. ASSUME NEW t \in Threads, Uncounted(t)
      PROVE  ThreadTypes'
  <2>1. PICK r \in Reply : Answer(t, r)
    BY <1>11, AnswerReply DEF Answer
  <2>2. QED
    BY <2>1 DEF Answer, Goto, ThreadTypes, Labels
<1>12. ASSUME NEW t \in Threads, End(t)
      PROVE  ThreadTypes'
  BY <1>12 DEF End, ThreadTypes, Labels, Goto, vars, orgVars, paceVars,
         familyVars, threadVars, startVars, leakVars
<1>13. ASSUME NEW t \in Threads, Publish(t)
      PROVE  ThreadTypes'
  <2>1. /\ pc[t] = "ended"
        /\ pc' = [pc EXCEPT ![t] = "free"]
        /\ reply' = [reply EXCEPT ![t] = NoReply]
        /\ UNCHANGED <<clock, permits, slots, queued, active, fam, sampled,
                       left, window, startVars, leakVars, pauseSeen>>
    BY <1>13 DEF Publish, Goto
  <2>2. QED
    BY <2>1 DEF ThreadTypes, Labels, Reply, ReplyKinds, NoReply
<1>14. ASSUME NEW t \in Threads, ReleasePermit(t)
      PROVE  ThreadTypes'
  BY <1>14 DEF ReleasePermit, ThreadTypes, Labels, Goto, vars, orgVars,
         paceVars, familyVars, threadVars, startVars, leakVars
<1>15. ASSUME NEW t \in Threads, ReleaseSlot(t)
      PROVE  ThreadTypes'
  BY <1>15 DEF ReleaseSlot, ThreadTypes, Labels, Goto, vars, orgVars,
         paceVars, familyVars, threadVars, startVars, leakVars
<1>16. CASE Tick
  BY <1>16 DEF Tick, ThreadTypes, Labels, Goto, vars, orgVars, paceVars,
         familyVars, threadVars, startVars, leakVars
<1>17. CASE UNCHANGED vars
  BY <1>17 DEF ThreadTypes, Labels, Goto, vars, orgVars, paceVars, familyVars,
         threadVars, startVars, leakVars
<1>18. QED
  BY <1>1, <1>2, <1>2a, <1>2b, <1>2c, <1>3, <1>4, <1>5, <1>6, <1>7, <1>8, <1>9,
     <1>10, <1>11, <1>12, <1>13, <1>14, <1>15, <1>16, <1>17
  DEF Next, ThreadStep, Finished

\* A thread enters a family when it leaves idle, and leaves it on its way back.
LEMMA FamilyStep ==
  ASSUME ThreadTypes, FamilyInv, [Next]_vars
  PROVE  FamilyInv'
<1> USE ModelValuesAssumption, SettingsAssumption
<1>1. ASSUME NEW t \in Threads, NEW f \in Families, Enter(t, f)
      PROVE  FamilyInv'
  BY <1>1 DEF Enter, ThreadTypes, Labels, FamilyInv, Goto, vars, orgVars,
         paceVars, familyVars, threadVars, startVars, leakVars
<1>2. ASSUME NEW t \in Threads, Dequeue(t)
      PROVE  FamilyInv'
  BY <1>2 DEF Dequeue, ThreadTypes, Labels, FamilyInv, Goto, vars, orgVars,
         paceVars, familyVars, threadVars, startVars, leakVars
<1>2a. ASSUME NEW t \in Threads, JoinQueue(t)
      PROVE  FamilyInv'
  BY <1>2a DEF JoinQueue, ThreadTypes, Labels, FamilyInv, Goto, vars, orgVars,
         paceVars, familyVars, threadVars, startVars, leakVars
<1>2b. ASSUME NEW t \in Threads, LeaveQueue(t)
      PROVE  FamilyInv'
  BY <1>2b DEF LeaveQueue, ThreadTypes, Labels, FamilyInv, Goto, vars, orgVars,
         paceVars, familyVars, threadVars, startVars, leakVars
<1>2c. ASSUME NEW t \in Threads, InterruptedInQueue(t)
      PROVE  FamilyInv'
  BY <1>2c DEF InterruptedInQueue, ThreadTypes, Labels, FamilyInv, Goto, vars, orgVars,
         paceVars, familyVars, threadVars, startVars, leakVars
<1>3. ASSUME NEW t \in Threads, Paced(t)
      PROVE  FamilyInv'
  BY <1>3 DEF Paced, ThreadTypes, Labels, FamilyInv, Goto, vars, orgVars,
         paceVars, familyVars, threadVars, startVars, leakVars
<1>4. ASSUME NEW t \in Threads, OutageOver(t)
      PROVE  FamilyInv'
  BY <1>4 DEF OutageOver, ThreadTypes, Labels, FamilyInv, Goto, vars, orgVars,
         paceVars, familyVars, threadVars, startVars, leakVars
<1>5. ASSUME NEW t \in Threads, TakePermit(t)
      PROVE  FamilyInv'
  BY <1>5 DEF TakePermit, ThreadTypes, Labels, FamilyInv, Goto, vars, orgVars,
         paceVars, familyVars, threadVars, startVars, leakVars
<1>6. ASSUME NEW t \in Threads, Check(t)
      PROVE  FamilyInv'
  BY <1>6 DEF Check, WaitAgain, ThreadTypes, Labels, FamilyInv, Goto, vars,
         orgVars, paceVars, familyVars, threadVars, startVars, leakVars
<1>7. ASSUME NEW t \in Threads, Book(t)
      PROVE  FamilyInv'
  BY <1>7 DEF Book, WaitAgain, ThreadTypes, Labels, FamilyInv, Goto, vars,
         orgVars, paceVars, familyVars, threadVars, startVars, leakVars
<1>8. ASSUME NEW t \in Threads, Interrupted(t)
      PROVE  FamilyInv'
  BY <1>8 DEF Interrupted, ThreadTypes, Labels, FamilyInv, Goto, vars,
         orgVars, paceVars, familyVars, threadVars, startVars, leakVars
<1>9. ASSUME NEW t \in Threads, Begin(t)
      PROVE  FamilyInv'
  BY <1>9 DEF Begin, ThreadTypes, Labels, FamilyInv, Goto, vars, orgVars,
         paceVars, familyVars, threadVars, startVars, leakVars
<1>10. ASSUME NEW t \in Threads, Counted(t)
      PROVE  FamilyInv'
  BY <1>10 DEF Counted, Answer, ThreadTypes, Labels, FamilyInv, Goto, vars,
         orgVars, paceVars, familyVars, threadVars, startVars, leakVars
<1>11. ASSUME NEW t \in Threads, Uncounted(t)
      PROVE  FamilyInv'
  BY <1>11 DEF Uncounted, Answer, ThreadTypes, Labels, FamilyInv, Goto, vars,
         orgVars, paceVars, familyVars, threadVars, startVars, leakVars
<1>12. ASSUME NEW t \in Threads, End(t)
      PROVE  FamilyInv'
  BY <1>12 DEF End, ThreadTypes, Labels, FamilyInv, Goto, vars, orgVars,
         paceVars, familyVars, threadVars, startVars, leakVars
<1>13. ASSUME NEW t \in Threads, Publish(t)
      PROVE  FamilyInv'
  <2>1. /\ pc[t] = "ended"
        /\ pc' = [pc EXCEPT ![t] = "free"]
        /\ reply' = [reply EXCEPT ![t] = NoReply]
        /\ UNCHANGED <<clock, permits, slots, queued, active, fam, sampled,
                       left, window, startVars, leakVars, pauseSeen>>
    BY <1>13 DEF Publish, Goto
  <2>2. QED
    BY <2>1 DEF ThreadTypes, Labels, FamilyInv
<1>14. ASSUME NEW t \in Threads, ReleasePermit(t)
      PROVE  FamilyInv'
  BY <1>14 DEF ReleasePermit, ThreadTypes, Labels, FamilyInv, Goto, vars,
         orgVars, paceVars, familyVars, threadVars, startVars, leakVars
<1>15. ASSUME NEW t \in Threads, ReleaseSlot(t)
      PROVE  FamilyInv'
  BY <1>15 DEF ReleaseSlot, ThreadTypes, Labels, FamilyInv, Goto, vars,
         orgVars, paceVars, familyVars, threadVars, startVars, leakVars
<1>16. CASE Tick
  BY <1>16 DEF Tick, ThreadTypes, Labels, FamilyInv, Goto, vars, orgVars,
         paceVars, familyVars, threadVars, startVars, leakVars
<1>17. CASE UNCHANGED vars
  BY <1>17 DEF ThreadTypes, Labels, FamilyInv, Goto, vars, orgVars, paceVars,
         familyVars, threadVars, startVars, leakVars
<1>18. QED
  BY <1>1, <1>2, <1>2a, <1>2b, <1>2c, <1>3, <1>4, <1>5, <1>6, <1>7, <1>8, <1>9,
     <1>10, <1>11, <1>12, <1>13, <1>14, <1>15, <1>16, <1>17
  DEF Next, ThreadStep, Finished

-----------------------------------------------------------------------------
\* Counting threads.
LEMMA CountOf ==
  ASSUME NEW S \in SUBSET Threads
  PROVE  Cardinality(S) \in Nat
BY ModelValuesAssumption, FS_Subset, FS_CardinalityType

LEMMA OneMore ==
  ASSUME NEW S \in SUBSET Threads, NEW t \in Threads, t \notin S
  PROVE  Cardinality(S \cup {t}) = Cardinality(S) + 1
BY ModelValuesAssumption, FS_Subset, FS_AddElement

LEMMA OneLess ==
  ASSUME NEW S \in SUBSET Threads, NEW t \in Threads, t \in S
  PROVE  Cardinality(S \ {t}) = Cardinality(S) - 1
BY ModelValuesAssumption, FS_Subset, FS_RemoveElement

\* Permits are taken by TakePermit and given back by whoever leaves the holders.
LEMMA PermitsStep ==
  ASSUME CountTypes, ThreadTypes, PermitsConserved, [Next]_vars
  PROVE  PermitsConserved'
<1> USE ModelValuesAssumption, SettingsAssumption
<1>1. ASSUME NEW t \in Threads, NEW f \in Families, Enter(t, f)
      PROVE  PermitsConserved'
  <2>1. PermitHolders' = PermitHolders /\ permits' = permits
    BY <1>1 DEF Enter, PermitHolders, ThreadTypes, Labels, Goto, vars, orgVars,
                 threadVars, startVars, leakVars
  <2>2. QED
    BY <2>1 DEF PermitsConserved
<1>2. ASSUME NEW t \in Threads, Dequeue(t)
      PROVE  PermitsConserved'
  <2>1. PermitHolders' = PermitHolders /\ permits' = permits
    BY <1>2 DEF Dequeue, PermitHolders, ThreadTypes, Labels, Goto, vars, orgVars,
                 threadVars, startVars, leakVars
  <2>2. QED
    BY <2>1 DEF PermitsConserved
<1>2a. ASSUME NEW t \in Threads, JoinQueue(t)
      PROVE  PermitsConserved'
  <2>1. PermitHolders' = PermitHolders /\ permits' = permits
    BY <1>2a DEF JoinQueue, PermitHolders, ThreadTypes, Labels, Goto, vars, orgVars,
                 threadVars, startVars, leakVars
  <2>2. QED
    BY <2>1 DEF PermitsConserved
<1>2b. ASSUME NEW t \in Threads, LeaveQueue(t)
      PROVE  PermitsConserved'
  <2>1. PermitHolders' = PermitHolders /\ permits' = permits
    BY <1>2b DEF LeaveQueue, PermitHolders, ThreadTypes, Labels, Goto, vars, orgVars,
                 threadVars, startVars, leakVars
  <2>2. QED
    BY <2>1 DEF PermitsConserved
<1>2c. ASSUME NEW t \in Threads, InterruptedInQueue(t)
      PROVE  PermitsConserved'
  <2>1. PermitHolders' = PermitHolders /\ permits' = permits
    BY <1>2c DEF InterruptedInQueue, PermitHolders, ThreadTypes, Labels, Goto, vars, orgVars,
                 threadVars, startVars, leakVars
  <2>2. QED
    BY <2>1 DEF PermitsConserved
<1>3. ASSUME NEW t \in Threads, Paced(t)
      PROVE  PermitsConserved'
  <2>1. PermitHolders' = PermitHolders /\ permits' = permits
    BY <1>3 DEF Paced, PermitHolders, ThreadTypes, Labels, Goto, vars, orgVars,
                 threadVars, startVars, leakVars
  <2>2. QED
    BY <2>1 DEF PermitsConserved
<1>4. ASSUME NEW t \in Threads, OutageOver(t)
      PROVE  PermitsConserved'
  <2>1. PermitHolders' = PermitHolders /\ permits' = permits
    BY <1>4 DEF OutageOver, PermitHolders, ThreadTypes, Labels, Goto, vars, orgVars,
                 threadVars, startVars, leakVars
  <2>2. QED
    BY <2>1 DEF PermitsConserved
<1>5. ASSUME NEW t \in Threads, TakePermit(t)
      PROVE  PermitsConserved'
  <2>1. /\ PermitHolders' = PermitHolders \cup {t}
        /\ t \notin PermitHolders
        /\ permits' = permits - 1
    BY <1>5 DEF TakePermit, PermitHolders, ThreadTypes, Labels, Goto
  <2>2. PermitHolders \in SUBSET Threads /\ permits \in Int
    BY DEF PermitHolders, CountTypes
  <2>3. /\ Cardinality(PermitHolders) \in Nat
        /\ t \notin PermitHolders => Cardinality(PermitHolders \cup {t})
                                     = Cardinality(PermitHolders) + 1
    BY <2>2, CountOf, OneMore
  <2>4. QED
    BY <2>1, <2>2, <2>3 DEF PermitsConserved
<1>6. ASSUME NEW t \in Threads, Check(t)
      PROVE  PermitsConserved'
  <2>1. \/ PermitHolders' = PermitHolders /\ permits' = permits
        \/ /\ PermitHolders' = PermitHolders \ {t}
           /\ t \in PermitHolders
           /\ permits' = permits + 1
    BY <1>6 DEF Check, WaitAgain, PermitHolders, ThreadTypes, Labels, Goto
  <2>2. PermitHolders \in SUBSET Threads /\ permits \in Int
    BY DEF PermitHolders, CountTypes
  <2>3. /\ Cardinality(PermitHolders) \in Nat
        /\ t \in PermitHolders => Cardinality(PermitHolders \ {t})
                                  = Cardinality(PermitHolders) - 1
    BY <2>2, CountOf, OneLess
  <2>4. QED
    BY <2>1, <2>2, <2>3 DEF PermitsConserved
<1>7. ASSUME NEW t \in Threads, Book(t)
      PROVE  PermitsConserved'
  <2>1. \/ PermitHolders' = PermitHolders /\ permits' = permits
        \/ /\ PermitHolders' = PermitHolders \ {t}
           /\ t \in PermitHolders
           /\ permits' = permits + 1
    BY <1>7 DEF Book, WaitAgain, PermitHolders, ThreadTypes, Labels, Goto
  <2>2. PermitHolders \in SUBSET Threads /\ permits \in Int
    BY DEF PermitHolders, CountTypes
  <2>3. /\ Cardinality(PermitHolders) \in Nat
        /\ t \in PermitHolders => Cardinality(PermitHolders \ {t})
                                  = Cardinality(PermitHolders) - 1
    BY <2>2, CountOf, OneLess
  <2>4. QED
    BY <2>1, <2>2, <2>3 DEF PermitsConserved
<1>8. ASSUME NEW t \in Threads, Interrupted(t)
      PROVE  PermitsConserved'
  <2>1. \/ PermitHolders' = PermitHolders /\ permits' = permits
        \/ /\ PermitHolders' = PermitHolders \ {t}
           /\ t \in PermitHolders
           /\ permits' = permits + 1
    BY <1>8 DEF Interrupted, PermitHolders, ThreadTypes, Labels, Goto
  <2>2. PermitHolders \in SUBSET Threads /\ permits \in Int
    BY DEF PermitHolders, CountTypes
  <2>3. /\ Cardinality(PermitHolders) \in Nat
        /\ t \in PermitHolders => Cardinality(PermitHolders \ {t})
                                  = Cardinality(PermitHolders) - 1
    BY <2>2, CountOf, OneLess
  <2>4. QED
    BY <2>1, <2>2, <2>3 DEF PermitsConserved
<1>9. ASSUME NEW t \in Threads, Begin(t)
      PROVE  PermitsConserved'
  <2>1. PermitHolders' = PermitHolders /\ permits' = permits
    BY <1>9 DEF Begin, PermitHolders, ThreadTypes, Labels, Goto, vars, orgVars,
                 threadVars, startVars, leakVars
  <2>2. QED
    BY <2>1 DEF PermitsConserved
<1>10. ASSUME NEW t \in Threads, Counted(t)
      PROVE  PermitsConserved'
  <2>1. PermitHolders' = PermitHolders /\ permits' = permits
    BY <1>10 DEF Counted, Answer, PermitHolders, ThreadTypes, Labels, Goto, vars, orgVars,
                 threadVars, startVars, leakVars
  <2>2. QED
    BY <2>1 DEF PermitsConserved
<1>11. ASSUME NEW t \in Threads, Uncounted(t)
      PROVE  PermitsConserved'
  <2>1. PermitHolders' = PermitHolders /\ permits' = permits
    BY <1>11 DEF Uncounted, Answer, PermitHolders, ThreadTypes, Labels, Goto, vars, orgVars,
                 threadVars, startVars, leakVars
  <2>2. QED
    BY <2>1 DEF PermitsConserved
<1>12. ASSUME NEW t \in Threads, End(t)
      PROVE  PermitsConserved'
  <2>1. PermitHolders' = PermitHolders /\ permits' = permits
    BY <1>12 DEF End, PermitHolders, ThreadTypes, Labels, Goto, vars, orgVars,
                 threadVars, startVars, leakVars
  <2>2. QED
    BY <2>1 DEF PermitsConserved
<1>13. ASSUME NEW t \in Threads, Publish(t)
      PROVE  PermitsConserved'
  <2>1. /\ pc[t] = "ended" /\ pc' = [pc EXCEPT ![t] = "free"]
        /\ permits' = permits
    BY <1>13 DEF Publish, Goto
  <2>2. PermitHolders' = PermitHolders
    BY <2>1 DEF PermitHolders, ThreadTypes, Labels
  <2>3. QED
    BY <2>1, <2>2 DEF PermitsConserved
<1>14. ASSUME NEW t \in Threads, ReleasePermit(t)
      PROVE  PermitsConserved'
  <2>1. /\ PermitHolders' = PermitHolders \ {t}
        /\ t \in PermitHolders
        /\ permits' = permits + 1
    BY <1>14 DEF ReleasePermit, PermitHolders, ThreadTypes, Labels, Goto
  <2>2. PermitHolders \in SUBSET Threads /\ permits \in Int
    BY DEF PermitHolders, CountTypes
  <2>3. /\ Cardinality(PermitHolders) \in Nat
        /\ t \in PermitHolders => Cardinality(PermitHolders \ {t})
                                  = Cardinality(PermitHolders) - 1
    BY <2>2, CountOf, OneLess
  <2>4. QED
    BY <2>1, <2>2, <2>3 DEF PermitsConserved
<1>15. ASSUME NEW t \in Threads, ReleaseSlot(t)
      PROVE  PermitsConserved'
  <2>1. PermitHolders' = PermitHolders /\ permits' = permits
    BY <1>15 DEF ReleaseSlot, PermitHolders, ThreadTypes, Labels, Goto, vars, orgVars,
                 threadVars, startVars, leakVars
  <2>2. QED
    BY <2>1 DEF PermitsConserved
<1>16. CASE Tick
  <2>1. PermitHolders' = PermitHolders /\ permits' = permits
    BY <1>16 DEF Tick, PermitHolders, ThreadTypes, Labels, Goto, vars, orgVars,
                 threadVars, startVars, leakVars
  <2>2. QED
    BY <2>1 DEF PermitsConserved
<1>17. CASE UNCHANGED vars
  <2>1. PermitHolders' = PermitHolders /\ permits' = permits
    BY <1>17 DEF PermitHolders, ThreadTypes, Labels, Goto, vars, orgVars,
                 threadVars, startVars, leakVars
  <2>2. QED
    BY <2>1 DEF PermitsConserved
<1>18. QED
  BY <1>1, <1>2, <1>2a, <1>2b, <1>2c, <1>3, <1>4, <1>5, <1>6, <1>7, <1>8, <1>9,
     <1>10, <1>11, <1>12, <1>13, <1>14, <1>15, <1>16, <1>17
  DEF Next, ThreadStep, Finished

\* Slots are taken by Enter or Dequeue and given back on the way to idle.
LEMMA SlotsStep ==
  ASSUME CountTypes, ThreadTypes, FamilyInv, SlotsConserved, [Next]_vars
  PROVE  SlotsConserved'
<1> USE ModelValuesAssumption, SettingsAssumption
<1>1. ASSUME NEW t \in Threads, NEW f \in Families, Enter(t, f)
      PROVE  SlotsConserved'
  <2> SUFFICES ASSUME NEW g \in Families
               PROVE  slots'[g] + Cardinality(SlotHolders(g)') + lostSlots'[g]
                         = FamilyCap
    BY DEF SlotsConserved
  <2>0. slots[g] + Cardinality(SlotHolders(g)) + lostSlots[g] = FamilyCap
    BY DEF SlotsConserved
  <2>a. lostSlots' = lostSlots
    BY <1>1 DEF Enter, leakVars
  <2>1. \/ SlotHolders(g)' = SlotHolders(g) /\ slots'[g] = slots[g]
        \/ /\ SlotHolders(g)' = SlotHolders(g) \cup {t} /\ t \notin SlotHolders(g)
           /\ slots'[g] = slots[g] - 1
    BY <1>1 DEF Enter, SlotHolders, CountTypes, ThreadTypes, FamilyInv,
                 Labels, Goto
  <2>2. /\ SlotHolders(g) \in SUBSET Threads
        /\ slots[g] \in Int /\ lostSlots[g] \in Int
    BY DEF SlotHolders, CountTypes
  <2>3. /\ Cardinality(SlotHolders(g)) \in Nat
        /\ t \notin SlotHolders(g) => Cardinality(SlotHolders(g) \cup {t})
                                      = Cardinality(SlotHolders(g)) + 1
    BY <2>2, CountOf, OneMore
  <2>4. \/ /\ Cardinality(SlotHolders(g)') = Cardinality(SlotHolders(g))
           /\ slots'[g] = slots[g]
        \/ /\ Cardinality(SlotHolders(g)') = Cardinality(SlotHolders(g)) + 1
           /\ slots'[g] = slots[g] - 1
    BY <2>1, <2>3
  <2>5. QED
    BY <2>0, <2>a, <2>2, <2>3, <2>4
<1>2. ASSUME NEW t \in Threads, Dequeue(t)
      PROVE  SlotsConserved'
  <2> SUFFICES ASSUME NEW g \in Families
               PROVE  slots'[g] + Cardinality(SlotHolders(g)') + lostSlots'[g]
                         = FamilyCap
    BY DEF SlotsConserved
  <2>0. slots[g] + Cardinality(SlotHolders(g)) + lostSlots[g] = FamilyCap
    BY DEF SlotsConserved
  <2>a. lostSlots' = lostSlots
    BY <1>2 DEF Dequeue, leakVars
  <2>1. \/ SlotHolders(g)' = SlotHolders(g) /\ slots'[g] = slots[g]
        \/ /\ SlotHolders(g)' = SlotHolders(g) \cup {t} /\ t \notin SlotHolders(g)
           /\ slots'[g] = slots[g] - 1
    BY <1>2 DEF Dequeue, SlotHolders, CountTypes, ThreadTypes, FamilyInv,
                 Labels, Goto
  <2>2. /\ SlotHolders(g) \in SUBSET Threads
        /\ slots[g] \in Int /\ lostSlots[g] \in Int
    BY DEF SlotHolders, CountTypes
  <2>3. /\ Cardinality(SlotHolders(g)) \in Nat
        /\ t \notin SlotHolders(g) => Cardinality(SlotHolders(g) \cup {t})
                                      = Cardinality(SlotHolders(g)) + 1
    BY <2>2, CountOf, OneMore
  <2>4. \/ /\ Cardinality(SlotHolders(g)') = Cardinality(SlotHolders(g))
           /\ slots'[g] = slots[g]
        \/ /\ Cardinality(SlotHolders(g)') = Cardinality(SlotHolders(g)) + 1
           /\ slots'[g] = slots[g] - 1
    BY <2>1, <2>3
  <2>5. QED
    BY <2>0, <2>a, <2>2, <2>3, <2>4
<1>2a. ASSUME NEW t \in Threads, JoinQueue(t)
      PROVE  SlotsConserved'
  <2> SUFFICES ASSUME NEW g \in Families
               PROVE  slots'[g] + Cardinality(SlotHolders(g)') + lostSlots'[g]
                         = FamilyCap
    BY DEF SlotsConserved
  <2>0. slots[g] + Cardinality(SlotHolders(g)) + lostSlots[g] = FamilyCap
    BY DEF SlotsConserved
  <2>a. lostSlots' = lostSlots
    BY <1>2a DEF JoinQueue, leakVars
  <2>1. SlotHolders(g)' = SlotHolders(g) /\ slots'[g] = slots[g]
    BY <1>2a DEF JoinQueue, SlotHolders, ThreadTypes, FamilyInv, Labels, Goto, vars,
                 familyVars, threadVars, startVars, leakVars
  <2>2. QED
    BY <2>0, <2>a, <2>1
<1>2b. ASSUME NEW t \in Threads, LeaveQueue(t)
      PROVE  SlotsConserved'
  <2> SUFFICES ASSUME NEW g \in Families
               PROVE  slots'[g] + Cardinality(SlotHolders(g)') + lostSlots'[g]
                         = FamilyCap
    BY DEF SlotsConserved
  <2>0. slots[g] + Cardinality(SlotHolders(g)) + lostSlots[g] = FamilyCap
    BY DEF SlotsConserved
  <2>a. lostSlots' = lostSlots
    BY <1>2b DEF LeaveQueue, leakVars
  <2>1. SlotHolders(g)' = SlotHolders(g) /\ slots'[g] = slots[g]
    BY <1>2b DEF LeaveQueue, SlotHolders, ThreadTypes, FamilyInv, Labels, Goto, vars,
                 familyVars, threadVars, startVars, leakVars
  <2>2. QED
    BY <2>0, <2>a, <2>1
<1>2c. ASSUME NEW t \in Threads, InterruptedInQueue(t)
      PROVE  SlotsConserved'
  <2> SUFFICES ASSUME NEW g \in Families
               PROVE  slots'[g] + Cardinality(SlotHolders(g)') + lostSlots'[g]
                         = FamilyCap
    BY DEF SlotsConserved
  <2>0. slots[g] + Cardinality(SlotHolders(g)) + lostSlots[g] = FamilyCap
    BY DEF SlotsConserved
  <2>1. /\ slots' = slots
        /\ \/ SlotHolders(g)' = SlotHolders(g) /\ lostSlots'[g] = lostSlots[g]
           \/ /\ SlotHolders(g)' = SlotHolders(g) \ {t} /\ t \in SlotHolders(g)
              /\ lostSlots'[g] = lostSlots[g] + 1
    BY <1>2c DEF InterruptedInQueue, SlotHolders, CountTypes, ThreadTypes,
                 FamilyInv, Labels, Goto, familyVars
  <2>2. /\ SlotHolders(g) \in SUBSET Threads
        /\ slots[g] \in Int /\ lostSlots[g] \in Int
    BY DEF SlotHolders, CountTypes
  <2>3. /\ Cardinality(SlotHolders(g)) \in Nat
        /\ t \in SlotHolders(g) => Cardinality(SlotHolders(g) \ {t})
                                   = Cardinality(SlotHolders(g)) - 1
    BY <2>2, CountOf, OneLess
  <2>4. \/ /\ Cardinality(SlotHolders(g)') = Cardinality(SlotHolders(g))
           /\ lostSlots'[g] = lostSlots[g]
        \/ /\ Cardinality(SlotHolders(g)') = Cardinality(SlotHolders(g)) - 1
           /\ lostSlots'[g] = lostSlots[g] + 1
    BY <2>1, <2>3
  <2>5. QED
    BY <2>0, <2>1, <2>2, <2>3, <2>4
<1>3. ASSUME NEW t \in Threads, Paced(t)
      PROVE  SlotsConserved'
  <2> SUFFICES ASSUME NEW g \in Families
               PROVE  slots'[g] + Cardinality(SlotHolders(g)') + lostSlots'[g]
                         = FamilyCap
    BY DEF SlotsConserved
  <2>0. slots[g] + Cardinality(SlotHolders(g)) + lostSlots[g] = FamilyCap
    BY DEF SlotsConserved
  <2>a. lostSlots' = lostSlots
    BY <1>3 DEF Paced, leakVars
  <2>1. SlotHolders(g)' = SlotHolders(g) /\ slots'[g] = slots[g]
    BY <1>3 DEF Paced, SlotHolders, ThreadTypes, FamilyInv, Labels, Goto, vars,
                 familyVars, threadVars, startVars, leakVars
  <2>2. QED
    BY <2>0, <2>a, <2>1
<1>4. ASSUME NEW t \in Threads, OutageOver(t)
      PROVE  SlotsConserved'
  <2> SUFFICES ASSUME NEW g \in Families
               PROVE  slots'[g] + Cardinality(SlotHolders(g)') + lostSlots'[g]
                         = FamilyCap
    BY DEF SlotsConserved
  <2>0. slots[g] + Cardinality(SlotHolders(g)) + lostSlots[g] = FamilyCap
    BY DEF SlotsConserved
  <2>a. lostSlots' = lostSlots
    BY <1>4 DEF OutageOver, leakVars
  <2>1. SlotHolders(g)' = SlotHolders(g) /\ slots'[g] = slots[g]
    BY <1>4 DEF OutageOver, SlotHolders, ThreadTypes, FamilyInv, Labels, Goto, vars,
                 familyVars, threadVars, startVars, leakVars
  <2>2. QED
    BY <2>0, <2>a, <2>1
<1>5. ASSUME NEW t \in Threads, TakePermit(t)
      PROVE  SlotsConserved'
  <2> SUFFICES ASSUME NEW g \in Families
               PROVE  slots'[g] + Cardinality(SlotHolders(g)') + lostSlots'[g]
                         = FamilyCap
    BY DEF SlotsConserved
  <2>0. slots[g] + Cardinality(SlotHolders(g)) + lostSlots[g] = FamilyCap
    BY DEF SlotsConserved
  <2>a. lostSlots' = lostSlots
    BY <1>5 DEF TakePermit, leakVars
  <2>1. SlotHolders(g)' = SlotHolders(g) /\ slots'[g] = slots[g]
    BY <1>5 DEF TakePermit, SlotHolders, ThreadTypes, FamilyInv, Labels, Goto, vars,
                 familyVars, threadVars, startVars, leakVars
  <2>2. QED
    BY <2>0, <2>a, <2>1
<1>6. ASSUME NEW t \in Threads, Check(t)
      PROVE  SlotsConserved'
  <2> SUFFICES ASSUME NEW g \in Families
               PROVE  slots'[g] + Cardinality(SlotHolders(g)') + lostSlots'[g]
                         = FamilyCap
    BY DEF SlotsConserved
  <2>0. slots[g] + Cardinality(SlotHolders(g)) + lostSlots[g] = FamilyCap
    BY DEF SlotsConserved
  <2>a. lostSlots' = lostSlots
    BY <1>6 DEF Check, leakVars
  <2>1. SlotHolders(g)' = SlotHolders(g) /\ slots'[g] = slots[g]
    BY <1>6 DEF Check, WaitAgain, SlotHolders, ThreadTypes, FamilyInv, Labels, Goto, vars,
                 familyVars, threadVars, startVars, leakVars
  <2>2. QED
    BY <2>0, <2>a, <2>1
<1>7. ASSUME NEW t \in Threads, Book(t)
      PROVE  SlotsConserved'
  <2> SUFFICES ASSUME NEW g \in Families
               PROVE  slots'[g] + Cardinality(SlotHolders(g)') + lostSlots'[g]
                         = FamilyCap
    BY DEF SlotsConserved
  <2>0. slots[g] + Cardinality(SlotHolders(g)) + lostSlots[g] = FamilyCap
    BY DEF SlotsConserved
  <2>a. lostSlots' = lostSlots
    BY <1>7 DEF Book, leakVars
  <2>1. SlotHolders(g)' = SlotHolders(g) /\ slots'[g] = slots[g]
    BY <1>7 DEF Book, WaitAgain, SlotHolders, ThreadTypes, FamilyInv, Labels, Goto, vars,
                 familyVars, threadVars, startVars, leakVars
  <2>2. QED
    BY <2>0, <2>a, <2>1
<1>8. ASSUME NEW t \in Threads, Interrupted(t)
      PROVE  SlotsConserved'
  <2> SUFFICES ASSUME NEW g \in Families
               PROVE  slots'[g] + Cardinality(SlotHolders(g)') + lostSlots'[g]
                         = FamilyCap
    BY DEF SlotsConserved
  <2>0. slots[g] + Cardinality(SlotHolders(g)) + lostSlots[g] = FamilyCap
    BY DEF SlotsConserved
  <2>a. lostSlots' = lostSlots
    BY <1>8 DEF Interrupted, leakVars
  <2>1. \/ SlotHolders(g)' = SlotHolders(g) /\ slots'[g] = slots[g]
        \/ /\ SlotHolders(g)' = SlotHolders(g) \ {t} /\ t \in SlotHolders(g)
           /\ slots'[g] = slots[g] + 1
    BY <1>8 DEF Interrupted, SlotHolders, CountTypes, ThreadTypes, FamilyInv,
                 Labels, Goto
  <2>2. /\ SlotHolders(g) \in SUBSET Threads
        /\ slots[g] \in Int /\ lostSlots[g] \in Int
    BY DEF SlotHolders, CountTypes
  <2>3. /\ Cardinality(SlotHolders(g)) \in Nat
        /\ t \in SlotHolders(g) => Cardinality(SlotHolders(g) \ {t})
                                   = Cardinality(SlotHolders(g)) - 1
    BY <2>2, CountOf, OneLess
  <2>4. \/ /\ Cardinality(SlotHolders(g)') = Cardinality(SlotHolders(g))
           /\ slots'[g] = slots[g]
        \/ /\ Cardinality(SlotHolders(g)') = Cardinality(SlotHolders(g)) - 1
           /\ slots'[g] = slots[g] + 1
    BY <2>1, <2>3
  <2>5. QED
    BY <2>0, <2>a, <2>2, <2>3, <2>4
<1>9. ASSUME NEW t \in Threads, Begin(t)
      PROVE  SlotsConserved'
  <2> SUFFICES ASSUME NEW g \in Families
               PROVE  slots'[g] + Cardinality(SlotHolders(g)') + lostSlots'[g]
                         = FamilyCap
    BY DEF SlotsConserved
  <2>0. slots[g] + Cardinality(SlotHolders(g)) + lostSlots[g] = FamilyCap
    BY DEF SlotsConserved
  <2>a. lostSlots' = lostSlots
    BY <1>9 DEF Begin, leakVars
  <2>1. SlotHolders(g)' = SlotHolders(g) /\ slots'[g] = slots[g]
    BY <1>9 DEF Begin, SlotHolders, ThreadTypes, FamilyInv, Labels, Goto, vars,
                 familyVars, threadVars, startVars, leakVars
  <2>2. QED
    BY <2>0, <2>a, <2>1
<1>10. ASSUME NEW t \in Threads, Counted(t)
      PROVE  SlotsConserved'
  <2> SUFFICES ASSUME NEW g \in Families
               PROVE  slots'[g] + Cardinality(SlotHolders(g)') + lostSlots'[g]
                         = FamilyCap
    BY DEF SlotsConserved
  <2>0. slots[g] + Cardinality(SlotHolders(g)) + lostSlots[g] = FamilyCap
    BY DEF SlotsConserved
  <2>a. lostSlots' = lostSlots
    BY <1>10 DEF Counted, Answer, leakVars
  <2>1. SlotHolders(g)' = SlotHolders(g) /\ slots'[g] = slots[g]
    BY <1>10 DEF Counted, Answer, SlotHolders, ThreadTypes, FamilyInv, Labels, Goto, vars,
                 familyVars, threadVars, startVars, leakVars
  <2>2. QED
    BY <2>0, <2>a, <2>1
<1>11. ASSUME NEW t \in Threads, Uncounted(t)
      PROVE  SlotsConserved'
  <2> SUFFICES ASSUME NEW g \in Families
               PROVE  slots'[g] + Cardinality(SlotHolders(g)') + lostSlots'[g]
                         = FamilyCap
    BY DEF SlotsConserved
  <2>0. slots[g] + Cardinality(SlotHolders(g)) + lostSlots[g] = FamilyCap
    BY DEF SlotsConserved
  <2>a. lostSlots' = lostSlots
    BY <1>11 DEF Uncounted, Answer, leakVars
  <2>1. SlotHolders(g)' = SlotHolders(g) /\ slots'[g] = slots[g]
    BY <1>11 DEF Uncounted, Answer, SlotHolders, ThreadTypes, FamilyInv, Labels, Goto, vars,
                 familyVars, threadVars, startVars, leakVars
  <2>2. QED
    BY <2>0, <2>a, <2>1
<1>12. ASSUME NEW t \in Threads, End(t)
      PROVE  SlotsConserved'
  <2> SUFFICES ASSUME NEW g \in Families
               PROVE  slots'[g] + Cardinality(SlotHolders(g)') + lostSlots'[g]
                         = FamilyCap
    BY DEF SlotsConserved
  <2>0. slots[g] + Cardinality(SlotHolders(g)) + lostSlots[g] = FamilyCap
    BY DEF SlotsConserved
  <2>a. lostSlots' = lostSlots
    BY <1>12 DEF End, leakVars
  <2>1. SlotHolders(g)' = SlotHolders(g) /\ slots'[g] = slots[g]
    BY <1>12 DEF End, SlotHolders, ThreadTypes, FamilyInv, Labels, Goto, vars,
                 familyVars, threadVars, startVars, leakVars
  <2>2. QED
    BY <2>0, <2>a, <2>1
<1>13. ASSUME NEW t \in Threads, Publish(t)
      PROVE  SlotsConserved'
  <2> SUFFICES ASSUME NEW g \in Families
               PROVE  slots'[g] + Cardinality(SlotHolders(g)') + lostSlots'[g]
                         = FamilyCap
    BY DEF SlotsConserved
  <2>0. slots[g] + Cardinality(SlotHolders(g)) + lostSlots[g] = FamilyCap
    BY DEF SlotsConserved
  <2>a. lostSlots' = lostSlots
    BY <1>13 DEF Publish, leakVars
  <2>1. /\ pc[t] = "ended" /\ pc' = [pc EXCEPT ![t] = "free"]
        /\ UNCHANGED <<slots, fam>>
    BY <1>13 DEF Publish, Goto
  <2>2. SlotHolders(g)' = SlotHolders(g)
    BY <2>1 DEF SlotHolders, ThreadTypes, Labels
  <2>3. QED
    BY <2>0, <2>a, <2>1, <2>2
<1>14. ASSUME NEW t \in Threads, ReleasePermit(t)
      PROVE  SlotsConserved'
  <2> SUFFICES ASSUME NEW g \in Families
               PROVE  slots'[g] + Cardinality(SlotHolders(g)') + lostSlots'[g]
                         = FamilyCap
    BY DEF SlotsConserved
  <2>0. slots[g] + Cardinality(SlotHolders(g)) + lostSlots[g] = FamilyCap
    BY DEF SlotsConserved
  <2>a. lostSlots' = lostSlots
    BY <1>14 DEF ReleasePermit, leakVars
  <2>1. SlotHolders(g)' = SlotHolders(g) /\ slots'[g] = slots[g]
    BY <1>14 DEF ReleasePermit, SlotHolders, ThreadTypes, FamilyInv, Labels, Goto, vars,
                 familyVars, threadVars, startVars, leakVars
  <2>2. QED
    BY <2>0, <2>a, <2>1
<1>15. ASSUME NEW t \in Threads, ReleaseSlot(t)
      PROVE  SlotsConserved'
  <2> SUFFICES ASSUME NEW g \in Families
               PROVE  slots'[g] + Cardinality(SlotHolders(g)') + lostSlots'[g]
                         = FamilyCap
    BY DEF SlotsConserved
  <2>0. slots[g] + Cardinality(SlotHolders(g)) + lostSlots[g] = FamilyCap
    BY DEF SlotsConserved
  <2>a. lostSlots' = lostSlots
    BY <1>15 DEF ReleaseSlot, leakVars
  <2>1. \/ SlotHolders(g)' = SlotHolders(g) /\ slots'[g] = slots[g]
        \/ /\ SlotHolders(g)' = SlotHolders(g) \ {t} /\ t \in SlotHolders(g)
           /\ slots'[g] = slots[g] + 1
    BY <1>15 DEF ReleaseSlot, SlotHolders, CountTypes, ThreadTypes, FamilyInv,
                 Labels, Goto
  <2>2. /\ SlotHolders(g) \in SUBSET Threads
        /\ slots[g] \in Int /\ lostSlots[g] \in Int
    BY DEF SlotHolders, CountTypes
  <2>3. /\ Cardinality(SlotHolders(g)) \in Nat
        /\ t \in SlotHolders(g) => Cardinality(SlotHolders(g) \ {t})
                                   = Cardinality(SlotHolders(g)) - 1
    BY <2>2, CountOf, OneLess
  <2>4. \/ /\ Cardinality(SlotHolders(g)') = Cardinality(SlotHolders(g))
           /\ slots'[g] = slots[g]
        \/ /\ Cardinality(SlotHolders(g)') = Cardinality(SlotHolders(g)) - 1
           /\ slots'[g] = slots[g] + 1
    BY <2>1, <2>3
  <2>5. QED
    BY <2>0, <2>a, <2>2, <2>3, <2>4
<1>16. CASE Tick
  <2> SUFFICES ASSUME NEW g \in Families
               PROVE  slots'[g] + Cardinality(SlotHolders(g)') + lostSlots'[g]
                         = FamilyCap
    BY DEF SlotsConserved
  <2>0. slots[g] + Cardinality(SlotHolders(g)) + lostSlots[g] = FamilyCap
    BY DEF SlotsConserved
  <2>a. lostSlots' = lostSlots
    BY <1>16 DEF Tick, leakVars
  <2>1. SlotHolders(g)' = SlotHolders(g) /\ slots'[g] = slots[g]
    BY <1>16 DEF Tick, SlotHolders, ThreadTypes, FamilyInv, Labels, Goto, vars,
                 familyVars, threadVars, startVars, leakVars
  <2>2. QED
    BY <2>0, <2>a, <2>1
<1>17. CASE UNCHANGED vars
  <2> SUFFICES ASSUME NEW g \in Families
               PROVE  slots'[g] + Cardinality(SlotHolders(g)') + lostSlots'[g]
                         = FamilyCap
    BY DEF SlotsConserved
  <2>0. slots[g] + Cardinality(SlotHolders(g)) + lostSlots[g] = FamilyCap
    BY DEF SlotsConserved
  <2>a. lostSlots' = lostSlots
    BY <1>17 DEF vars, leakVars
  <2>1. SlotHolders(g)' = SlotHolders(g) /\ slots'[g] = slots[g]
    BY <1>17 DEF SlotHolders, ThreadTypes, FamilyInv, Labels, Goto, vars,
                 familyVars, threadVars, startVars, leakVars
  <2>2. QED
    BY <2>0, <2>a, <2>1
<1>18. QED
  BY <1>1, <1>2, <1>2a, <1>2b, <1>2c, <1>3, <1>4, <1>5, <1>6, <1>7, <1>8, <1>9,
     <1>10, <1>11, <1>12, <1>13, <1>14, <1>15, <1>16, <1>17
  DEF Next, ThreadStep, Finished

\* The counters move with the threads they count.
LEMMA CountersStep ==
  ASSUME CountTypes, ThreadTypes, FamilyInv, CountersExact, [Next]_vars
  PROVE  CountersExact'
<1> USE ModelValuesAssumption, SettingsAssumption
<1>1. ASSUME NEW t \in Threads, NEW f \in Families, Enter(t, f)
      PROVE  CountersExact'
  <2> SUFFICES ASSUME NEW g \in Families
               PROVE  /\ queued'[g] = Cardinality(QueuedThreads(g)') + lostCounts'[g]
                      /\ active'[g] = Cardinality(ActiveThreads(g)')
    BY DEF CountersExact
  <2>0. /\ queued[g] = Cardinality(QueuedThreads(g)) + lostCounts[g]
        /\ active[g] = Cardinality(ActiveThreads(g))
    BY DEF CountersExact
  <2>a. lostCounts' = lostCounts
    BY <1>1 DEF Enter, leakVars
  <2>1. /\ QueuedThreads(g)' = QueuedThreads(g) /\ queued'[g] = queued[g]
        /\ ActiveThreads(g)' = ActiveThreads(g) /\ active'[g] = active[g]
    BY <1>1 DEF Enter, QueuedThreads, ActiveThreads, ThreadTypes, FamilyInv,
                 Labels, Goto, vars, familyVars, threadVars, startVars, leakVars
  <2>2. QED
    BY <2>0, <2>a, <2>1
<1>2. ASSUME NEW t \in Threads, Dequeue(t)
      PROVE  CountersExact'
  <2> SUFFICES ASSUME NEW g \in Families
               PROVE  /\ queued'[g] = Cardinality(QueuedThreads(g)') + lostCounts'[g]
                      /\ active'[g] = Cardinality(ActiveThreads(g)')
    BY DEF CountersExact
  <2>0. /\ queued[g] = Cardinality(QueuedThreads(g)) + lostCounts[g]
        /\ active[g] = Cardinality(ActiveThreads(g))
    BY DEF CountersExact
  <2>a. lostCounts' = lostCounts
    BY <1>2 DEF Dequeue, leakVars
  <2>1. /\ QueuedThreads(g)' = QueuedThreads(g) /\ queued'[g] = queued[g]
        /\ ActiveThreads(g)' = ActiveThreads(g) /\ active'[g] = active[g]
    BY <1>2 DEF Dequeue, QueuedThreads, ActiveThreads, ThreadTypes, FamilyInv,
                 Labels, Goto, vars, familyVars, threadVars, startVars, leakVars
  <2>2. QED
    BY <2>0, <2>a, <2>1
<1>2a. ASSUME NEW t \in Threads, JoinQueue(t)
      PROVE  CountersExact'
  <2> SUFFICES ASSUME NEW g \in Families
               PROVE  /\ queued'[g] = Cardinality(QueuedThreads(g)') + lostCounts'[g]
                      /\ active'[g] = Cardinality(ActiveThreads(g)')
    BY DEF CountersExact
  <2>0. /\ queued[g] = Cardinality(QueuedThreads(g)) + lostCounts[g]
        /\ active[g] = Cardinality(ActiveThreads(g))
    BY DEF CountersExact
  <2>a. lostCounts' = lostCounts
    BY <1>2a DEF JoinQueue, leakVars
  <2>1. /\ \/ QueuedThreads(g)' = QueuedThreads(g) /\ queued'[g] = queued[g]
           \/ /\ QueuedThreads(g)' = QueuedThreads(g) \cup {t} /\ t \notin QueuedThreads(g)
              /\ queued'[g] = queued[g] + 1
        /\ ActiveThreads(g)' = ActiveThreads(g) /\ active'[g] = active[g]
    BY <1>2a DEF JoinQueue, QueuedThreads, ActiveThreads, CountTypes, ThreadTypes,
                 FamilyInv, Labels, Goto
  <2>2. QueuedThreads(g) \in SUBSET Threads
    BY DEF QueuedThreads
  <2>3. /\ Cardinality(QueuedThreads(g)) \in Nat
        /\ t \notin QueuedThreads(g) => Cardinality(QueuedThreads(g) \cup {t})
             = Cardinality(QueuedThreads(g)) + 1
    BY <2>2, CountOf, OneMore
  <2>4. \/ /\ Cardinality(QueuedThreads(g)') = Cardinality(QueuedThreads(g))
           /\ queued'[g] = queued[g]
        \/ /\ Cardinality(QueuedThreads(g)') = Cardinality(QueuedThreads(g)) + 1
           /\ queued'[g] = queued[g] + 1
    BY <2>1, <2>3
  <2>5. queued[g] \in Int /\ lostCounts[g] \in Int
    BY DEF CountTypes
  <2>6. QED
    BY <2>0, <2>a, <2>1, <2>3, <2>4, <2>5
<1>2b. ASSUME NEW t \in Threads, LeaveQueue(t)
      PROVE  CountersExact'
  <2> SUFFICES ASSUME NEW g \in Families
               PROVE  /\ queued'[g] = Cardinality(QueuedThreads(g)') + lostCounts'[g]
                      /\ active'[g] = Cardinality(ActiveThreads(g)')
    BY DEF CountersExact
  <2>0. /\ queued[g] = Cardinality(QueuedThreads(g)) + lostCounts[g]
        /\ active[g] = Cardinality(ActiveThreads(g))
    BY DEF CountersExact
  <2>a. lostCounts' = lostCounts
    BY <1>2b DEF LeaveQueue, leakVars
  <2>1. /\ \/ QueuedThreads(g)' = QueuedThreads(g) /\ queued'[g] = queued[g]
           \/ /\ QueuedThreads(g)' = QueuedThreads(g) \ {t} /\ t \in QueuedThreads(g)
              /\ queued'[g] = queued[g] - 1
        /\ ActiveThreads(g)' = ActiveThreads(g) /\ active'[g] = active[g]
    BY <1>2b DEF LeaveQueue, QueuedThreads, ActiveThreads, CountTypes, ThreadTypes,
                 FamilyInv, Labels, Goto
  <2>2. QueuedThreads(g) \in SUBSET Threads
    BY DEF QueuedThreads
  <2>3. /\ Cardinality(QueuedThreads(g)) \in Nat
        /\ t \in QueuedThreads(g) => Cardinality(QueuedThreads(g) \ {t})
             = Cardinality(QueuedThreads(g)) - 1
    BY <2>2, CountOf, OneLess
  <2>4. CASE QueuedThreads(g)' = QueuedThreads(g) /\ queued'[g] = queued[g]
    BY <2>0, <2>a, <2>1, <2>4
  <2>5. CASE /\ QueuedThreads(g)' = QueuedThreads(g) \ {t} /\ t \in QueuedThreads(g)
             /\ queued'[g] = queued[g] - 1
    BY <2>0, <2>a, <2>1, <2>3, <2>5 DEF CountTypes
  <2>6. QED
    BY <2>1, <2>4, <2>5
<1>2c. ASSUME NEW t \in Threads, InterruptedInQueue(t)
      PROVE  CountersExact'
  <2> SUFFICES ASSUME NEW g \in Families
               PROVE  /\ queued'[g] = Cardinality(QueuedThreads(g)') + lostCounts'[g]
                      /\ active'[g] = Cardinality(ActiveThreads(g)')
    BY DEF CountersExact
  <2>0. /\ queued[g] = Cardinality(QueuedThreads(g)) + lostCounts[g]
        /\ active[g] = Cardinality(ActiveThreads(g))
    BY DEF CountersExact
  <2>1. /\ ActiveThreads(g)' = ActiveThreads(g) /\ active' = active
        /\ queued' = queued
        /\ \/ /\ QueuedThreads(g)' = QueuedThreads(g)
              /\ lostCounts'[g] = lostCounts[g]
           \/ /\ QueuedThreads(g)' = QueuedThreads(g) \ {t} /\ t \in QueuedThreads(g)
              /\ lostCounts'[g] = lostCounts[g] + 1
    BY <1>2c DEF InterruptedInQueue, QueuedThreads, ActiveThreads, CountTypes,
                 ThreadTypes, FamilyInv, Labels, Goto, familyVars
  <2>2. QueuedThreads(g) \in SUBSET Threads
    BY DEF QueuedThreads
  <2>3. /\ Cardinality(QueuedThreads(g)) \in Nat
        /\ t \in QueuedThreads(g) => Cardinality(QueuedThreads(g) \ {t})
             = Cardinality(QueuedThreads(g)) - 1
    BY <2>2, CountOf, OneLess
  <2>4. QED
    BY <2>0, <2>1, <2>3 DEF CountTypes
<1>3. ASSUME NEW t \in Threads, Paced(t)
      PROVE  CountersExact'
  <2> SUFFICES ASSUME NEW g \in Families
               PROVE  /\ queued'[g] = Cardinality(QueuedThreads(g)') + lostCounts'[g]
                      /\ active'[g] = Cardinality(ActiveThreads(g)')
    BY DEF CountersExact
  <2>0. /\ queued[g] = Cardinality(QueuedThreads(g)) + lostCounts[g]
        /\ active[g] = Cardinality(ActiveThreads(g))
    BY DEF CountersExact
  <2>a. lostCounts' = lostCounts
    BY <1>3 DEF Paced, leakVars
  <2>1. /\ QueuedThreads(g)' = QueuedThreads(g) /\ queued'[g] = queued[g]
        /\ ActiveThreads(g)' = ActiveThreads(g) /\ active'[g] = active[g]
    BY <1>3 DEF Paced, QueuedThreads, ActiveThreads, ThreadTypes, FamilyInv,
                 Labels, Goto, vars, familyVars, threadVars, startVars, leakVars
  <2>2. QED
    BY <2>0, <2>a, <2>1
<1>4. ASSUME NEW t \in Threads, OutageOver(t)
      PROVE  CountersExact'
  <2> SUFFICES ASSUME NEW g \in Families
               PROVE  /\ queued'[g] = Cardinality(QueuedThreads(g)') + lostCounts'[g]
                      /\ active'[g] = Cardinality(ActiveThreads(g)')
    BY DEF CountersExact
  <2>0. /\ queued[g] = Cardinality(QueuedThreads(g)) + lostCounts[g]
        /\ active[g] = Cardinality(ActiveThreads(g))
    BY DEF CountersExact
  <2>a. lostCounts' = lostCounts
    BY <1>4 DEF OutageOver, leakVars
  <2>1. /\ QueuedThreads(g)' = QueuedThreads(g) /\ queued'[g] = queued[g]
        /\ ActiveThreads(g)' = ActiveThreads(g) /\ active'[g] = active[g]
    BY <1>4 DEF OutageOver, QueuedThreads, ActiveThreads, ThreadTypes, FamilyInv,
                 Labels, Goto, vars, familyVars, threadVars, startVars, leakVars
  <2>2. QED
    BY <2>0, <2>a, <2>1
<1>5. ASSUME NEW t \in Threads, TakePermit(t)
      PROVE  CountersExact'
  <2> SUFFICES ASSUME NEW g \in Families
               PROVE  /\ queued'[g] = Cardinality(QueuedThreads(g)') + lostCounts'[g]
                      /\ active'[g] = Cardinality(ActiveThreads(g)')
    BY DEF CountersExact
  <2>0. /\ queued[g] = Cardinality(QueuedThreads(g)) + lostCounts[g]
        /\ active[g] = Cardinality(ActiveThreads(g))
    BY DEF CountersExact
  <2>a. lostCounts' = lostCounts
    BY <1>5 DEF TakePermit, leakVars
  <2>1. /\ QueuedThreads(g)' = QueuedThreads(g) /\ queued'[g] = queued[g]
        /\ ActiveThreads(g)' = ActiveThreads(g) /\ active'[g] = active[g]
    BY <1>5 DEF TakePermit, QueuedThreads, ActiveThreads, ThreadTypes, FamilyInv,
                 Labels, Goto, vars, familyVars, threadVars, startVars, leakVars
  <2>2. QED
    BY <2>0, <2>a, <2>1
<1>6. ASSUME NEW t \in Threads, Check(t)
      PROVE  CountersExact'
  <2> SUFFICES ASSUME NEW g \in Families
               PROVE  /\ queued'[g] = Cardinality(QueuedThreads(g)') + lostCounts'[g]
                      /\ active'[g] = Cardinality(ActiveThreads(g)')
    BY DEF CountersExact
  <2>0. /\ queued[g] = Cardinality(QueuedThreads(g)) + lostCounts[g]
        /\ active[g] = Cardinality(ActiveThreads(g))
    BY DEF CountersExact
  <2>a. lostCounts' = lostCounts
    BY <1>6 DEF Check, leakVars
  <2>1. /\ QueuedThreads(g)' = QueuedThreads(g) /\ queued'[g] = queued[g]
        /\ ActiveThreads(g)' = ActiveThreads(g) /\ active'[g] = active[g]
    BY <1>6 DEF Check, WaitAgain, QueuedThreads, ActiveThreads, ThreadTypes, FamilyInv,
                 Labels, Goto, vars, familyVars, threadVars, startVars, leakVars
  <2>2. QED
    BY <2>0, <2>a, <2>1
<1>7. ASSUME NEW t \in Threads, Book(t)
      PROVE  CountersExact'
  <2> SUFFICES ASSUME NEW g \in Families
               PROVE  /\ queued'[g] = Cardinality(QueuedThreads(g)') + lostCounts'[g]
                      /\ active'[g] = Cardinality(ActiveThreads(g)')
    BY DEF CountersExact
  <2>0. /\ queued[g] = Cardinality(QueuedThreads(g)) + lostCounts[g]
        /\ active[g] = Cardinality(ActiveThreads(g))
    BY DEF CountersExact
  <2>a. lostCounts' = lostCounts
    BY <1>7 DEF Book, leakVars
  <2>1. /\ QueuedThreads(g)' = QueuedThreads(g) /\ queued'[g] = queued[g]
        /\ ActiveThreads(g)' = ActiveThreads(g) /\ active'[g] = active[g]
    BY <1>7 DEF Book, WaitAgain, QueuedThreads, ActiveThreads, ThreadTypes, FamilyInv,
                 Labels, Goto, vars, familyVars, threadVars, startVars, leakVars
  <2>2. QED
    BY <2>0, <2>a, <2>1
<1>8. ASSUME NEW t \in Threads, Interrupted(t)
      PROVE  CountersExact'
  <2> SUFFICES ASSUME NEW g \in Families
               PROVE  /\ queued'[g] = Cardinality(QueuedThreads(g)') + lostCounts'[g]
                      /\ active'[g] = Cardinality(ActiveThreads(g)')
    BY DEF CountersExact
  <2>0. /\ queued[g] = Cardinality(QueuedThreads(g)) + lostCounts[g]
        /\ active[g] = Cardinality(ActiveThreads(g))
    BY DEF CountersExact
  <2>a. lostCounts' = lostCounts
    BY <1>8 DEF Interrupted, leakVars
  <2>1. /\ QueuedThreads(g)' = QueuedThreads(g) /\ queued'[g] = queued[g]
        /\ ActiveThreads(g)' = ActiveThreads(g) /\ active'[g] = active[g]
    BY <1>8 DEF Interrupted, QueuedThreads, ActiveThreads, ThreadTypes, FamilyInv,
                 Labels, Goto, vars, familyVars, threadVars, startVars, leakVars
  <2>2. QED
    BY <2>0, <2>a, <2>1
<1>9. ASSUME NEW t \in Threads, Begin(t)
      PROVE  CountersExact'
  <2> SUFFICES ASSUME NEW g \in Families
               PROVE  /\ queued'[g] = Cardinality(QueuedThreads(g)') + lostCounts'[g]
                      /\ active'[g] = Cardinality(ActiveThreads(g)')
    BY DEF CountersExact
  <2>0. /\ queued[g] = Cardinality(QueuedThreads(g)) + lostCounts[g]
        /\ active[g] = Cardinality(ActiveThreads(g))
    BY DEF CountersExact
  <2>a. lostCounts' = lostCounts
    BY <1>9 DEF Begin, leakVars
  <2>1. /\ \/ ActiveThreads(g)' = ActiveThreads(g) /\ active'[g] = active[g]
           \/ /\ ActiveThreads(g)' = ActiveThreads(g) \cup {t} /\ t \notin ActiveThreads(g)
              /\ active'[g] = active[g] + 1
        /\ QueuedThreads(g)' = QueuedThreads(g) /\ queued'[g] = queued[g]
    BY <1>9 DEF Begin, QueuedThreads, ActiveThreads, CountTypes, ThreadTypes,
                 FamilyInv, Labels, Goto
  <2>2. ActiveThreads(g) \in SUBSET Threads
    BY DEF ActiveThreads
  <2>3. /\ Cardinality(ActiveThreads(g)) \in Nat
        /\ t \notin ActiveThreads(g) => Cardinality(ActiveThreads(g) \cup {t})
             = Cardinality(ActiveThreads(g)) + 1
    BY <2>2, CountOf, OneMore
  <2>4. QED
    BY <2>0, <2>a, <2>1, <2>3 DEF CountTypes
<1>10. ASSUME NEW t \in Threads, Counted(t)
      PROVE  CountersExact'
  <2> SUFFICES ASSUME NEW g \in Families
               PROVE  /\ queued'[g] = Cardinality(QueuedThreads(g)') + lostCounts'[g]
                      /\ active'[g] = Cardinality(ActiveThreads(g)')
    BY DEF CountersExact
  <2>0. /\ queued[g] = Cardinality(QueuedThreads(g)) + lostCounts[g]
        /\ active[g] = Cardinality(ActiveThreads(g))
    BY DEF CountersExact
  <2>a. lostCounts' = lostCounts
    BY <1>10 DEF Counted, Answer, leakVars
  <2>1. /\ QueuedThreads(g)' = QueuedThreads(g) /\ queued'[g] = queued[g]
        /\ ActiveThreads(g)' = ActiveThreads(g) /\ active'[g] = active[g]
    BY <1>10 DEF Counted, Answer, QueuedThreads, ActiveThreads, ThreadTypes, FamilyInv,
                 Labels, Goto, vars, familyVars, threadVars, startVars, leakVars
  <2>2. QED
    BY <2>0, <2>a, <2>1
<1>11. ASSUME NEW t \in Threads, Uncounted(t)
      PROVE  CountersExact'
  <2> SUFFICES ASSUME NEW g \in Families
               PROVE  /\ queued'[g] = Cardinality(QueuedThreads(g)') + lostCounts'[g]
                      /\ active'[g] = Cardinality(ActiveThreads(g)')
    BY DEF CountersExact
  <2>0. /\ queued[g] = Cardinality(QueuedThreads(g)) + lostCounts[g]
        /\ active[g] = Cardinality(ActiveThreads(g))
    BY DEF CountersExact
  <2>a. lostCounts' = lostCounts
    BY <1>11 DEF Uncounted, Answer, leakVars
  <2>1. /\ QueuedThreads(g)' = QueuedThreads(g) /\ queued'[g] = queued[g]
        /\ ActiveThreads(g)' = ActiveThreads(g) /\ active'[g] = active[g]
    BY <1>11 DEF Uncounted, Answer, QueuedThreads, ActiveThreads, ThreadTypes, FamilyInv,
                 Labels, Goto, vars, familyVars, threadVars, startVars, leakVars
  <2>2. QED
    BY <2>0, <2>a, <2>1
<1>12. ASSUME NEW t \in Threads, End(t)
      PROVE  CountersExact'
  <2> SUFFICES ASSUME NEW g \in Families
               PROVE  /\ queued'[g] = Cardinality(QueuedThreads(g)') + lostCounts'[g]
                      /\ active'[g] = Cardinality(ActiveThreads(g)')
    BY DEF CountersExact
  <2>0. /\ queued[g] = Cardinality(QueuedThreads(g)) + lostCounts[g]
        /\ active[g] = Cardinality(ActiveThreads(g))
    BY DEF CountersExact
  <2>a. lostCounts' = lostCounts
    BY <1>12 DEF End, leakVars
  <2>1. /\ \/ ActiveThreads(g)' = ActiveThreads(g) /\ active'[g] = active[g]
           \/ /\ ActiveThreads(g)' = ActiveThreads(g) \ {t} /\ t \in ActiveThreads(g)
              /\ active'[g] = active[g] - 1
        /\ QueuedThreads(g)' = QueuedThreads(g) /\ queued'[g] = queued[g]
    BY <1>12 DEF End, QueuedThreads, ActiveThreads, CountTypes, ThreadTypes,
                 FamilyInv, Labels, Goto
  <2>2. ActiveThreads(g) \in SUBSET Threads
    BY DEF ActiveThreads
  <2>3. /\ Cardinality(ActiveThreads(g)) \in Nat
        /\ t \in ActiveThreads(g) => Cardinality(ActiveThreads(g) \ {t})
             = Cardinality(ActiveThreads(g)) - 1
    BY <2>2, CountOf, OneLess
  <2>4. QED
    BY <2>0, <2>a, <2>1, <2>3 DEF CountTypes
<1>13. ASSUME NEW t \in Threads, Publish(t)
      PROVE  CountersExact'
  <2> SUFFICES ASSUME NEW g \in Families
               PROVE  /\ queued'[g] = Cardinality(QueuedThreads(g)') + lostCounts'[g]
                      /\ active'[g] = Cardinality(ActiveThreads(g)')
    BY DEF CountersExact
  <2>0. /\ queued[g] = Cardinality(QueuedThreads(g)) + lostCounts[g]
        /\ active[g] = Cardinality(ActiveThreads(g))
    BY DEF CountersExact
  <2>a. lostCounts' = lostCounts
    BY <1>13 DEF Publish, leakVars
  <2>1. /\ pc[t] = "ended" /\ pc' = [pc EXCEPT ![t] = "free"]
        /\ UNCHANGED <<queued, active, fam>>
    BY <1>13 DEF Publish, Goto
  <2>2. QueuedThreads(g)' = QueuedThreads(g) /\ ActiveThreads(g)' = ActiveThreads(g)
    BY <2>1 DEF QueuedThreads, ActiveThreads, ThreadTypes, Labels
  <2>3. QED
    BY <2>0, <2>a, <2>1, <2>2
<1>14. ASSUME NEW t \in Threads, ReleasePermit(t)
      PROVE  CountersExact'
  <2> SUFFICES ASSUME NEW g \in Families
               PROVE  /\ queued'[g] = Cardinality(QueuedThreads(g)') + lostCounts'[g]
                      /\ active'[g] = Cardinality(ActiveThreads(g)')
    BY DEF CountersExact
  <2>0. /\ queued[g] = Cardinality(QueuedThreads(g)) + lostCounts[g]
        /\ active[g] = Cardinality(ActiveThreads(g))
    BY DEF CountersExact
  <2>a. lostCounts' = lostCounts
    BY <1>14 DEF ReleasePermit, leakVars
  <2>1. /\ QueuedThreads(g)' = QueuedThreads(g) /\ queued'[g] = queued[g]
        /\ ActiveThreads(g)' = ActiveThreads(g) /\ active'[g] = active[g]
    BY <1>14 DEF ReleasePermit, QueuedThreads, ActiveThreads, ThreadTypes, FamilyInv,
                 Labels, Goto, vars, familyVars, threadVars, startVars, leakVars
  <2>2. QED
    BY <2>0, <2>a, <2>1
<1>15. ASSUME NEW t \in Threads, ReleaseSlot(t)
      PROVE  CountersExact'
  <2> SUFFICES ASSUME NEW g \in Families
               PROVE  /\ queued'[g] = Cardinality(QueuedThreads(g)') + lostCounts'[g]
                      /\ active'[g] = Cardinality(ActiveThreads(g)')
    BY DEF CountersExact
  <2>0. /\ queued[g] = Cardinality(QueuedThreads(g)) + lostCounts[g]
        /\ active[g] = Cardinality(ActiveThreads(g))
    BY DEF CountersExact
  <2>a. lostCounts' = lostCounts
    BY <1>15 DEF ReleaseSlot, leakVars
  <2>1. /\ QueuedThreads(g)' = QueuedThreads(g) /\ queued'[g] = queued[g]
        /\ ActiveThreads(g)' = ActiveThreads(g) /\ active'[g] = active[g]
    BY <1>15 DEF ReleaseSlot, QueuedThreads, ActiveThreads, ThreadTypes, FamilyInv,
                 Labels, Goto, vars, familyVars, threadVars, startVars, leakVars
  <2>2. QED
    BY <2>0, <2>a, <2>1
<1>16. CASE Tick
  <2> SUFFICES ASSUME NEW g \in Families
               PROVE  /\ queued'[g] = Cardinality(QueuedThreads(g)') + lostCounts'[g]
                      /\ active'[g] = Cardinality(ActiveThreads(g)')
    BY DEF CountersExact
  <2>0. /\ queued[g] = Cardinality(QueuedThreads(g)) + lostCounts[g]
        /\ active[g] = Cardinality(ActiveThreads(g))
    BY DEF CountersExact
  <2>a. lostCounts' = lostCounts
    BY <1>16 DEF Tick, leakVars
  <2>1. /\ QueuedThreads(g)' = QueuedThreads(g) /\ queued'[g] = queued[g]
        /\ ActiveThreads(g)' = ActiveThreads(g) /\ active'[g] = active[g]
    BY <1>16 DEF Tick, QueuedThreads, ActiveThreads, ThreadTypes, FamilyInv,
                 Labels, Goto, vars, familyVars, threadVars, startVars, leakVars
  <2>2. QED
    BY <2>0, <2>a, <2>1
<1>17. CASE UNCHANGED vars
  <2> SUFFICES ASSUME NEW g \in Families
               PROVE  /\ queued'[g] = Cardinality(QueuedThreads(g)') + lostCounts'[g]
                      /\ active'[g] = Cardinality(ActiveThreads(g)')
    BY DEF CountersExact
  <2>0. /\ queued[g] = Cardinality(QueuedThreads(g)) + lostCounts[g]
        /\ active[g] = Cardinality(ActiveThreads(g))
    BY DEF CountersExact
  <2>a. lostCounts' = lostCounts
    BY <1>17 DEF vars, leakVars
  <2>1. /\ QueuedThreads(g)' = QueuedThreads(g) /\ queued'[g] = queued[g]
        /\ ActiveThreads(g)' = ActiveThreads(g) /\ active'[g] = active[g]
    BY <1>17 DEF QueuedThreads, ActiveThreads, ThreadTypes, FamilyInv,
                 Labels, Goto, vars, familyVars, threadVars, startVars, leakVars
  <2>2. QED
    BY <2>0, <2>a, <2>1
<1>18. QED
  BY <1>1, <1>2, <1>2a, <1>2b, <1>2c, <1>3, <1>4, <1>5, <1>6, <1>7, <1>8, <1>9,
     <1>10, <1>11, <1>12, <1>13, <1>14, <1>15, <1>16, <1>17
  DEF Next, ThreadStep, Finished

-----------------------------------------------------------------------------
\* The interval that spreads a budget over the rest of a window is positive.
LEMMA PacePositive ==
  ASSUME NEW a \in Nat \ {0}, NEW b \in Nat \ {0}
  PROVE  CeilDiv(a, b) \in Nat \ {0}
<1>1. a + b - 1 >= b /\ a + b - 1 \in Nat
  OBVIOUS
<1>2. (a + b - 1) \div b \in Nat /\ (a + b - 1) \div b >= 1
  BY <1>1
<1>3. QED
  BY <1>2 DEF CeilDiv

\* The window that Okta counts a request in.
LEMMA CountedWindow ==
  ASSUME NEW t \in Threads, PaceTypes, ThreadTypes, FamilyInv, HorizonInv,
         Counted(t)
  PROVE  /\ window' \in [Families -> [reset: Nat, used: Nat]]
         /\ \A f \in Families : window'[f].reset <= clock + Window
<1> USE WindowAssumption, BoundsAssumption
<1> DEFINE f == fam[t]
           w == CurrentWindow(f)
<1>1. f \in Families
  BY DEF Counted, FamilyInv, ThreadTypes
<1>2. w \in [reset: Nat, used: Nat] /\ w.reset <= clock + Window
  <2>1. /\ clock \in Nat
        /\ window[f] \in [reset: Nat, used: Nat]
        /\ window[f].reset <= clock + Window
    BY <1>1 DEF PaceTypes, HorizonInv
  <2>2. QED
    BY <2>1 DEF CurrentWindow
<1>3. CASE UNCHANGED window
  BY <1>3 DEF PaceTypes, HorizonInv
<1>4. ASSUME NEW used \in (w.used + 1)..(w.used + 1 + Others),
             window' = [window EXCEPT ![f] = [w EXCEPT !.used = used]]
      PROVE  /\ window' \in [Families -> [reset: Nat, used: Nat]]
             /\ \A g \in Families : window'[g].reset <= clock + Window
  <2>1. /\ [w EXCEPT !.used = used] \in [reset: Nat, used: Nat]
        /\ [w EXCEPT !.used = used].reset <= clock + Window
    BY <1>2
  <2>2. window \in [Families -> [reset: Nat, used: Nat]]
    BY DEF PaceTypes
  <2>3. ASSUME NEW g \in Families
        PROVE  /\ window'[g] \in [reset: Nat, used: Nat]
               /\ window'[g].reset <= clock + Window
    BY <1>1, <1>4, <2>1, <2>2, <2>3 DEF HorizonInv
  <2>4. QED
    BY <1>4, <2>2, <2>3
<1>5. QED
  BY <1>3, <1>4 DEF Counted

\* Booking moves the family's deadline forward or leaves it alone.
LEMMA BookEffect ==
  ASSUME NEW t \in Threads, PaceTypes, ThreadTypes, FamilyInv, Book(t)
  PROVE  /\ next' \in [Families -> Nat]
         /\ \A f \in Families : next'[f] >= next[f]
<1>1. fam[t] \in Families /\ sampled[t] \in Nat
  BY DEF Book, FamilyInv, ThreadTypes
<1>2. /\ Max2(interval[fam[t]], probe[fam[t]]) \in Nat
      /\ next[fam[t]] \in Nat /\ next \in [Families -> Nat]
  BY <1>1 DEF Max2, PaceTypes
<1>3. CASE UNCHANGED next
  BY <1>2, <1>3
<1>4. CASE /\ sampled[t] >= next[fam[t]]
           /\ next' = [next EXCEPT ![fam[t]] =
                         sampled[t] + Max2(interval[fam[t]], probe[fam[t]])]
  BY <1>1, <1>2, <1>4
<1>5. QED
  BY <1>3, <1>4 DEF Book

\* What publishing the outcome of a request may do: deadlines only move
\* forward, an observation only advances, and one at the reserve puts the
\* family's deadline past the reset.
ObservationEffect(f) ==
  /\ observed'[f] \in Observation
  /\ observed'[f].reset <= clock + Window
  /\ observed'[f].remaining <= Reserve => next'[f] > observed'[f].reset
  /\ observed[f] # NoWindow =>
       /\ observed'[f].reset >= observed[f].reset
       /\ observed'[f].reset = observed[f].reset
            => observed'[f].remaining <= observed[f].remaining

PublishEffect ==
  /\ orgNext' \in Nat /\ orgNext' >= orgNext
  /\ interval' \in [Families -> Nat \ {0}]
  /\ probe' \in [Families -> Nat]
  /\ next' \in [Families -> Nat]
  /\ observed' \in [Families -> Observation \cup {NoWindow}]
  /\ \A f \in Families : /\ next'[f] >= next[f]
                         /\ observed'[f] = observed[f] \/ ObservationEffect(f)

\* A merged observation is never behind the one it replaces.
LEMMA MergeAdvances ==
  ASSUME NEW f \in Families, NEW o \in Observation, PaceTypes, HorizonInv,
         o.reset <= clock + Window, ~IsOutdated(f, o)
  PROVE  /\ Merge(f, o) \in Observation
         /\ Merge(f, o).reset <= clock + Window
         /\ observed[f] # NoWindow =>
              /\ Merge(f, o).reset >= observed[f].reset
              /\ Merge(f, o).reset = observed[f].reset
                   => Merge(f, o).remaining <= observed[f].remaining
<1>1. o.reset \in Nat /\ o.remaining \in Nat
  BY DEF Observation
<1>2. CASE observed[f] = NoWindow
  BY <1>2 DEF Merge
<1>3. CASE observed[f] # NoWindow
  <2>1. /\ observed[f] \in Observation
        /\ observed[f].reset \in Nat /\ observed[f].remaining \in Nat
    BY <1>3 DEF PaceTypes, Observation
  <2>2. CASE o.reset > observed[f].reset
    BY <1>1, <1>3, <2>1, <2>2 DEF Merge
  <2>3. CASE o.reset = observed[f].reset
    <3>1. Merge(f, o) = [observed[f] EXCEPT !.remaining = Min2(@, o.remaining)]
      BY <1>1, <1>3, <2>1, <2>3 DEF Merge
    <3>2. /\ Min2(observed[f].remaining, o.remaining) \in Nat
          /\ Min2(observed[f].remaining, o.remaining) <= observed[f].remaining
      BY <1>1, <2>1 DEF Min2
    <3>3. /\ Merge(f, o) \in Observation
          /\ Merge(f, o).reset = observed[f].reset
          /\ Merge(f, o).remaining = Min2(observed[f].remaining, o.remaining)
      BY <2>1, <3>1, <3>2 DEF Observation
    <3>4. QED
      BY <1>1, <2>1, <2>3, <3>2, <3>3
  <2>4. QED
    BY <1>1, <1>3, <2>1, <2>2, <2>3 DEF IsOutdated
<1>4. QED
  BY <1>2, <1>3

LEMMA ObserveHas ==
  ASSUME NEW f \in Families, NEW o \in Observation, PaceTypes, HorizonInv,
         CountTypes, CountersExact, o.reset <= clock + Window,
         ~IsOutdated(f, o), ObserveWindow(f, o)
  PROVE  /\ observed' \in [Families -> Observation \cup {NoWindow}]
         /\ next' \in [Families -> Nat]
         /\ \A g \in Families :
              /\ next'[g] >= next[g]
              /\ observed'[g] = observed[g] \/ ObservationEffect(g)
         /\ interval' \in [Families -> Nat \ {0}]
         /\ probe' \in [Families -> Nat]
<1> USE SettingsAssumption, WindowAssumption
<1> DEFINE m       == Merge(f, o)
           toReset == m.reset - clock
           held    == Reserve + active[f]
           pace    == IF toReset <= 0 THEN DefaultInterval
                      ELSE CeilDiv(Min2(toReset, MaxCooldown), m.remaining - held)
<1>1. /\ m \in Observation /\ m.reset \in Nat /\ m.remaining \in Nat
      /\ m.reset <= clock + Window
      /\ observed[f] # NoWindow =>
           /\ m.reset >= observed[f].reset
           /\ m.reset = observed[f].reset
                => m.remaining <= observed[f].remaining
  BY MergeAdvances DEF Observation
<1>2. held \in Nat /\ held >= Reserve
  <2>1. active[f] = Cardinality(ActiveThreads(f))
    BY DEF CountersExact
  <2>2. ActiveThreads(f) \in SUBSET Threads
    BY DEF ActiveThreads
  <2>3. Cardinality(ActiveThreads(f)) \in Nat
    BY <2>2, CountOf
  <2>4. QED
    BY <2>1, <2>3
<1>3. /\ clock \in Nat /\ next[f] \in Nat /\ next \in [Families -> Nat]
      /\ interval \in [Families -> Nat \ {0}] /\ probe \in [Families -> Nat]
      /\ observed \in [Families -> Observation \cup {NoWindow}]
  BY DEF PaceTypes
<1>4. observed' = [observed EXCEPT ![f] = m]
  BY DEF ObserveWindow, ResetPause
<1>5. CASE m.remaining <= held
  <2> DEFINE n == Max2(next[f], clock + Min2(toReset + 1, MaxCooldown))
  <2>1. /\ next' = [next EXCEPT ![f] = n]
        /\ probe' = [probe EXCEPT ![f] = ProbeInterval]
        /\ interval' = [interval EXCEPT ![f] = DefaultInterval]
    BY <1>1, <1>2, <1>5 DEF ObserveWindow, ResetPause
  <2>2. Min2(toReset + 1, MaxCooldown) = toReset + 1
    BY <1>1, <1>3 DEF Min2
  <2>3. n \in Nat /\ n >= next[f] /\ n > m.reset
    BY <1>1, <1>3, <2>2 DEF Max2
  <2>4. observed'[f] = m /\ next'[f] = n
    BY <1>3, <1>4, <2>1
  <2> HIDE DEF m, n
  <2>5. ObservationEffect(f)
    BY <1>1, <2>3, <2>4 DEF ObservationEffect
  <2>6. QED
    BY <1>1, <1>3, <1>4, <2>1, <2>3, <2>5
<1>6. CASE m.remaining > held
  <2> DEFINE n == Max2(next[f], clock + pace)
  <2>1. /\ next' = [next EXCEPT ![f] = n]
        /\ probe' = [probe EXCEPT ![f] = 0]
        /\ interval' = [interval EXCEPT ![f] = pace]
    BY <1>1, <1>2, <1>6 DEF ObserveWindow, ResetPause
  <2>2. pace \in Nat \ {0}
    <3>1. CASE toReset <= 0
      BY <3>1
    <3>2. CASE toReset > 0
      <4>1. Min2(toReset, MaxCooldown) \in Nat \ {0}
        BY <1>1, <1>3, <3>2 DEF Min2
      <4>2. m.remaining - held \in Nat \ {0}
        BY <1>1, <1>2, <1>6
      <4>3. QED
        BY <4>1, <4>2, <3>2, PacePositive, <1>1, <1>3
    <3>3. QED
      BY <3>1, <3>2, <1>1, <1>3
  <2> HIDE DEF pace
  <2>3. n \in Nat /\ n >= next[f]
    BY <1>3, <2>2 DEF Max2
  <2>4. ~(m.remaining <= Reserve)
    BY <1>1, <1>2, <1>6
  <2>5. observed'[f] = m /\ next'[f] = n
    BY <1>3, <1>4, <2>1
  <2> HIDE DEF m, n
  <2>6. ObservationEffect(f)
    BY <1>1, <2>3, <2>4, <2>5 DEF ObservationEffect
  <2>7. QED
    BY <1>1, <1>3, <1>4, <2>1, <2>2, <2>3, <2>6
<1>7. QED
  BY <1>1, <1>2, <1>5, <1>6

LEMMA PublishHas ==
  ASSUME NEW t \in Threads, CountTypes, PaceTypes, ThreadTypes, FamilyInv,
         HorizonInv, CountersExact, Publish(t)
  PROVE  PublishEffect
<1> USE SettingsAssumption
<1> DEFINE f == fam[t]
           o == [remaining |-> reply[t].remaining, reset |-> reply[t].reset]
<1>1. f \in Families
  BY DEF Publish, FamilyInv, ThreadTypes
<1>2. o \in Observation /\ o.reset <= clock + Window
  BY DEF ThreadTypes, Reply, Observation, HorizonInv
<1>3. /\ clock \in Nat /\ orgNext \in Nat
      /\ next \in [Families -> Nat]
      /\ interval \in [Families -> Nat \ {0}] /\ probe \in [Families -> Nat]
      /\ observed \in [Families -> Observation \cup {NoWindow}]
  BY DEF PaceTypes
<1>4. next[f] \in Nat
  BY <1>1, <1>3
<1>5. CASE ~IsOutdated(f, o) /\ ObserveWindow(f, o) /\ UNCHANGED orgNext
  BY <1>1, <1>2, <1>3, <1>5, ObserveHas DEF PublishEffect
<1>6. CASE probe' = [probe EXCEPT ![f] = 0]
           /\ UNCHANGED <<orgNext, next, interval, observed>>
  <2>1. probe' \in [Families -> Nat]
    BY <1>3, <1>6
  <2>2. QED
    BY <1>1, <1>3, <1>4, <1>6, <2>1 DEF PublishEffect
<1>7. ASSUME NEW delay \in Delays, Defer(f, delay),
             UNCHANGED <<orgNext, interval, observed>>
      PROVE  PublishEffect
  <2> DEFINE n == Max2(next[f], clock + Min2(delay, MaxCooldown))
  <2>1. n \in Nat /\ n >= next[f]
    BY <1>3, <1>4 DEF Max2, Min2
  <2>2. Max2(probe[f], ProbeInterval) \in Nat
    BY <1>1, <1>3 DEF Max2
  <2>3. CASE UNCHANGED <<next, probe>>
    BY <1>3, <1>7, <2>3 DEF PublishEffect
  <2>4. CASE /\ next' = [next EXCEPT ![f] = n]
             /\ probe' = [probe EXCEPT ![f] = Max2(probe[f], ProbeInterval)]
    <3>1. probe' \in [Families -> Nat]
      BY <1>3, <2>2, <2>4
    <3>2. QED
      BY <1>1, <1>3, <1>7, <2>1, <2>4, <3>1 DEF PublishEffect
  <2>5. QED
    BY <1>7, <2>3, <2>4 DEF Defer
<1>8. ASSUME NEW delay \in Delays, DeferOutage(delay), UNCHANGED paceVars
      PROVE  PublishEffect
  <2>1. orgNext' \in Nat /\ orgNext' >= orgNext
    BY <1>3, <1>8 DEF DeferOutage, Max2, Min2
  <2>2. QED
    BY <1>1, <1>3, <1>4, <1>8, <2>1 DEF PublishEffect, paceVars
<1>9. CASE UNCHANGED <<orgNext, paceVars>>
  BY <1>1, <1>3, <1>4, <1>9 DEF PublishEffect, paceVars
<1>10. QED
  BY <1>5, <1>6, <1>7, <1>8, <1>9 DEF Publish

\* Deadlines, intervals, observations and windows keep their types.
LEMMA PaceTypesStep ==
  ASSUME CountTypes, PaceTypes, ThreadTypes, FamilyInv, HorizonInv,
         SpacingInv, CountersExact, [Next]_vars
  PROVE  PaceTypes'
<1> USE ModelValuesAssumption, SettingsAssumption, WindowAssumption
<1>1. ASSUME NEW t \in Threads, NEW f \in Families, Enter(t, f)
      PROVE  PaceTypes'
  BY <1>1 DEF Enter, PaceTypes, Goto, vars, orgVars, paceVars, familyVars,
         threadVars, startVars, leakVars
<1>2. ASSUME NEW t \in Threads, Dequeue(t)
      PROVE  PaceTypes'
  BY <1>2 DEF Dequeue, PaceTypes, Goto, vars, orgVars, paceVars, familyVars,
         threadVars, startVars, leakVars
<1>2a. ASSUME NEW t \in Threads, JoinQueue(t)
      PROVE  PaceTypes'
  BY <1>2a DEF JoinQueue, PaceTypes, Goto, vars, orgVars, paceVars, familyVars,
         threadVars, startVars, leakVars
<1>2b. ASSUME NEW t \in Threads, LeaveQueue(t)
      PROVE  PaceTypes'
  BY <1>2b DEF LeaveQueue, PaceTypes, Goto, vars, orgVars, paceVars, familyVars,
         threadVars, startVars, leakVars
<1>2c. ASSUME NEW t \in Threads, InterruptedInQueue(t)
      PROVE  PaceTypes'
  BY <1>2c DEF InterruptedInQueue, PaceTypes, Goto, vars, orgVars, paceVars, familyVars,
         threadVars, startVars, leakVars
<1>3. ASSUME NEW t \in Threads, Paced(t)
      PROVE  PaceTypes'
  BY <1>3 DEF Paced, PaceTypes, Goto, vars, orgVars, paceVars, familyVars,
         threadVars, startVars, leakVars
<1>4. ASSUME NEW t \in Threads, OutageOver(t)
      PROVE  PaceTypes'
  BY <1>4 DEF OutageOver, PaceTypes, Goto, vars, orgVars, paceVars,
         familyVars, threadVars, startVars, leakVars
<1>5. ASSUME NEW t \in Threads, TakePermit(t)
      PROVE  PaceTypes'
  BY <1>5 DEF TakePermit, PaceTypes, Goto, vars, orgVars, paceVars,
         familyVars, threadVars, startVars, leakVars
<1>6. ASSUME NEW t \in Threads, Check(t)
      PROVE  PaceTypes'
  BY <1>6 DEF Check, WaitAgain, PaceTypes, Goto, vars, orgVars, paceVars,
         familyVars, threadVars, startVars, leakVars
<1>7. ASSUME NEW t \in Threads, Book(t)
      PROVE  PaceTypes'
  <2>1. /\ next' \in [Families -> Nat]
        /\ \A f \in Families : next'[f] >= next[f]
    BY <1>7, BookEffect
  <2>2. UNCHANGED <<clock, orgNext, interval, probe, observed, reply, window>>
    BY <1>7 DEF Book
  <2>3. /\ lastStart' \in [Families -> Nat \cup {-1}]
        /\ pauseSeen' \in [Threads -> Nat]
    BY <1>7 DEF Book, PaceTypes, ThreadTypes, startVars
  <2>a. lastPace' \in [Families -> Nat]
    <3>1. \A f \in Families : Max2(interval[f], probe[f]) \in Nat
      BY DEF Max2, PaceTypes
    <3>2. fam[t] \in Families
      BY <1>7 DEF Book, FamilyInv, ThreadTypes
    <3>3. \/ lastPace' = lastPace
          \/ lastPace' = [lastPace EXCEPT
                            ![fam[t]] = Max2(interval[fam[t]], probe[fam[t]])]
      BY <1>7 DEF Book, startVars
    <3>4. QED
      BY <3>1, <3>2, <3>3 DEF PaceTypes
  <2>4. QED
    BY <2>1, <2>2, <2>3, <2>a DEF PaceTypes
<1>8. ASSUME NEW t \in Threads, Interrupted(t)
      PROVE  PaceTypes'
  BY <1>8 DEF Interrupted, PaceTypes, Goto, vars, orgVars, paceVars,
         familyVars, threadVars, startVars, leakVars
<1>9. ASSUME NEW t \in Threads, Begin(t)
      PROVE  PaceTypes'
  BY <1>9 DEF Begin, PaceTypes, Goto, vars, orgVars, paceVars, familyVars,
         threadVars, startVars, leakVars
<1>10. ASSUME NEW t \in Threads, Counted(t)
      PROVE  PaceTypes'
  <2>1. PICK r \in Reply : Answer(t, r) /\ r.reset <= clock + Window
    BY <1>10, AnswerReply
  <2>2. window' \in [Families -> [reset: Nat, used: Nat]]
    BY <1>10, CountedWindow
  <2>3. QED
    BY <2>1, <2>2 DEF Answer, PaceTypes, orgVars, familyVars, paceVars, startVars
<1>11. ASSUME NEW t \in Threads, Uncounted(t)
      PROVE  PaceTypes'
  BY <1>11 DEF Uncounted, Answer, PaceTypes, Goto, vars, orgVars, paceVars,
         familyVars, threadVars, startVars, leakVars
<1>12. ASSUME NEW t \in Threads, End(t)
      PROVE  PaceTypes'
  BY <1>12 DEF End, PaceTypes, Goto, vars, orgVars, paceVars, familyVars,
         threadVars, startVars, leakVars
<1>13. ASSUME NEW t \in Threads, Publish(t)
      PROVE  PaceTypes'
  <2>1. PublishEffect
    BY <1>13, PublishHas
  <2>2. UNCHANGED <<clock, window, lastStart, lastPace, pauseSeen>>
    BY <1>13 DEF Publish, startVars
  <2>3. reply' = [reply EXCEPT ![t] = NoReply]
    BY <1>13 DEF Publish
  <2>4. QED
    BY <2>1, <2>2 DEF PublishEffect, PaceTypes
<1>14. ASSUME NEW t \in Threads, ReleasePermit(t)
      PROVE  PaceTypes'
  BY <1>14 DEF ReleasePermit, PaceTypes, Goto, vars, orgVars, paceVars,
         familyVars, threadVars, startVars, leakVars
<1>15. ASSUME NEW t \in Threads, ReleaseSlot(t)
      PROVE  PaceTypes'
  BY <1>15 DEF ReleaseSlot, PaceTypes, Goto, vars, orgVars, paceVars,
         familyVars, threadVars, startVars, leakVars
<1>16. CASE Tick
  BY <1>16 DEF Tick, PaceTypes, Goto, vars, orgVars, paceVars, familyVars,
         threadVars, startVars, leakVars
<1>17. CASE UNCHANGED vars
  BY <1>17 DEF PaceTypes, Goto, vars, orgVars, paceVars, familyVars,
         threadVars, startVars, leakVars
<1>18. QED
  BY <1>1, <1>2, <1>2a, <1>2b, <1>2c, <1>3, <1>4, <1>5, <1>6, <1>7, <1>8, <1>9,
     <1>10, <1>11, <1>12, <1>13, <1>14, <1>15, <1>16, <1>17
  DEF Next, ThreadStep, Finished

\* Windows end no later than Window from now.
LEMMA HorizonStep ==
  ASSUME CountTypes, PaceTypes, ThreadTypes, FamilyInv, HorizonInv,
         SpacingInv, CountersExact, PaceTypes', [Next]_vars
  PROVE  HorizonInv'
<1> USE ModelValuesAssumption, SettingsAssumption, WindowAssumption
<1>1. ASSUME NEW t \in Threads, NEW f \in Families, Enter(t, f)
      PROVE  HorizonInv'
  BY <1>1 DEF Enter, PaceTypes, ThreadTypes, HorizonInv, Goto, vars, orgVars,
         paceVars, familyVars, threadVars, startVars, leakVars
<1>2. ASSUME NEW t \in Threads, Dequeue(t)
      PROVE  HorizonInv'
  BY <1>2 DEF Dequeue, PaceTypes, ThreadTypes, HorizonInv, Goto, vars,
         orgVars, paceVars, familyVars, threadVars, startVars, leakVars
<1>2a. ASSUME NEW t \in Threads, JoinQueue(t)
      PROVE  HorizonInv'
  BY <1>2a DEF JoinQueue, PaceTypes, ThreadTypes, HorizonInv, Goto, vars,
         orgVars, paceVars, familyVars, threadVars, startVars, leakVars
<1>2b. ASSUME NEW t \in Threads, LeaveQueue(t)
      PROVE  HorizonInv'
  BY <1>2b DEF LeaveQueue, PaceTypes, ThreadTypes, HorizonInv, Goto, vars,
         orgVars, paceVars, familyVars, threadVars, startVars, leakVars
<1>2c. ASSUME NEW t \in Threads, InterruptedInQueue(t)
      PROVE  HorizonInv'
  BY <1>2c DEF InterruptedInQueue, PaceTypes, ThreadTypes, HorizonInv, Goto, vars,
         orgVars, paceVars, familyVars, threadVars, startVars, leakVars
<1>3. ASSUME NEW t \in Threads, Paced(t)
      PROVE  HorizonInv'
  BY <1>3 DEF Paced, PaceTypes, ThreadTypes, HorizonInv, Goto, vars, orgVars,
         paceVars, familyVars, threadVars, startVars, leakVars
<1>4. ASSUME NEW t \in Threads, OutageOver(t)
      PROVE  HorizonInv'
  BY <1>4 DEF OutageOver, PaceTypes, ThreadTypes, HorizonInv, Goto, vars,
         orgVars, paceVars, familyVars, threadVars, startVars, leakVars
<1>5. ASSUME NEW t \in Threads, TakePermit(t)
      PROVE  HorizonInv'
  BY <1>5 DEF TakePermit, PaceTypes, ThreadTypes, HorizonInv, Goto, vars,
         orgVars, paceVars, familyVars, threadVars, startVars, leakVars
<1>6. ASSUME NEW t \in Threads, Check(t)
      PROVE  HorizonInv'
  BY <1>6 DEF Check, WaitAgain, PaceTypes, ThreadTypes, HorizonInv, Goto,
         vars, orgVars, paceVars, familyVars, threadVars, startVars, leakVars
<1>7. ASSUME NEW t \in Threads, Book(t)
      PROVE  HorizonInv'
  <2>1. /\ next' \in [Families -> Nat]
        /\ \A f \in Families : next'[f] >= next[f]
    BY <1>7, BookEffect
  <2>2. UNCHANGED <<clock, orgNext, interval, probe, observed, reply, window>>
    BY <1>7 DEF Book
  <2>3. QED
    BY <2>2 DEF HorizonInv
<1>8. ASSUME NEW t \in Threads, Interrupted(t)
      PROVE  HorizonInv'
  BY <1>8 DEF Interrupted, PaceTypes, ThreadTypes, HorizonInv, Goto, vars,
         orgVars, paceVars, familyVars, threadVars, startVars, leakVars
<1>9. ASSUME NEW t \in Threads, Begin(t)
      PROVE  HorizonInv'
  BY <1>9 DEF Begin, PaceTypes, ThreadTypes, HorizonInv, Goto, vars, orgVars,
         paceVars, familyVars, threadVars, startVars, leakVars
<1>10. ASSUME NEW t \in Threads, Counted(t)
      PROVE  HorizonInv'
  <2>1. PICK r \in Reply : Answer(t, r) /\ r.reset <= clock + Window
    BY <1>10, AnswerReply
  <2>2. \A f \in Families : window'[f].reset <= clock + Window
    BY <1>10, CountedWindow
  <2>3. QED
    BY <2>1, <2>2
    DEF Answer, ThreadTypes, HorizonInv, orgVars, familyVars, paceVars
<1>11. ASSUME NEW t \in Threads, Uncounted(t)
      PROVE  HorizonInv'
  <2>1. PICK r \in Reply : Answer(t, r) /\ r.reset <= clock + Window
    BY <1>11, AnswerReply
  <2>2. UNCHANGED window
    BY <1>11 DEF Uncounted
  <2>3. QED
    BY <2>1, <2>2
    DEF Answer, ThreadTypes, HorizonInv, orgVars, familyVars, paceVars
<1>12. ASSUME NEW t \in Threads, End(t)
      PROVE  HorizonInv'
  BY <1>12 DEF End, PaceTypes, ThreadTypes, HorizonInv, Goto, vars, orgVars,
         paceVars, familyVars, threadVars, startVars, leakVars
<1>13. ASSUME NEW t \in Threads, Publish(t)
      PROVE  HorizonInv'
  <2>1. PublishEffect
    BY <1>13, PublishHas
  <2>2. UNCHANGED <<clock, window, lastStart, lastPace, pauseSeen>>
    BY <1>13 DEF Publish, startVars
  <2>3. reply' = [reply EXCEPT ![t] = NoReply]
    BY <1>13 DEF Publish
  <2>4. reply' \in [Threads -> Reply] /\ NoReply.reset = 0
    BY <2>3 DEF ThreadTypes, Reply, ReplyKinds, NoReply
  <2>5. \A f \in Families :
          observed'[f] # NoWindow => observed'[f].reset <= clock + Window
    BY <2>1 DEF PublishEffect, ObservationEffect, HorizonInv
  <2>6. \A u \in Threads : reply'[u].reset <= clock + Window
    BY <2>3, <2>4 DEF ThreadTypes, PaceTypes, HorizonInv
  <2>7. QED
    BY <2>2, <2>5, <2>6 DEF HorizonInv
<1>14. ASSUME NEW t \in Threads, ReleasePermit(t)
      PROVE  HorizonInv'
  BY <1>14 DEF ReleasePermit, PaceTypes, ThreadTypes, HorizonInv, Goto, vars,
         orgVars, paceVars, familyVars, threadVars, startVars, leakVars
<1>15. ASSUME NEW t \in Threads, ReleaseSlot(t)
      PROVE  HorizonInv'
  BY <1>15 DEF ReleaseSlot, PaceTypes, ThreadTypes, HorizonInv, Goto, vars,
         orgVars, paceVars, familyVars, threadVars, startVars, leakVars
<1>16. CASE Tick
  <2>1. clock' = clock + 1 /\ UNCHANGED <<window, observed, reply>>
    BY <1>16 DEF Tick, familyVars, paceVars, threadVars, startVars, leakVars
  <2>2. /\ clock \in Nat /\ reply \in [Threads -> Reply]
        /\ observed \in [Families -> Observation \cup {NoWindow}]
        /\ window \in [Families -> [reset: Nat, used: Nat]]
    BY DEF PaceTypes, ThreadTypes
  <2>3. QED
    BY <2>1, <2>2 DEF HorizonInv, Observation, Reply
<1>17. CASE UNCHANGED vars
  BY <1>17 DEF PaceTypes, ThreadTypes, HorizonInv, Goto, vars, orgVars,
         paceVars, familyVars, threadVars, startVars, leakVars
<1>18. QED
  BY <1>1, <1>2, <1>2a, <1>2b, <1>2c, <1>3, <1>4, <1>5, <1>6, <1>7, <1>8, <1>9,
     <1>10, <1>11, <1>12, <1>13, <1>14, <1>15, <1>16, <1>17
  DEF Next, ThreadStep, Finished

\* A booked start moves the deadline past itself.
LEMMA SpacingStep ==
  ASSUME CountTypes, PaceTypes, ThreadTypes, FamilyInv, HorizonInv,
         SpacingInv, CountersExact, [Next]_vars
  PROVE  SpacingInv'
<1> USE ModelValuesAssumption, SettingsAssumption, WindowAssumption
<1>1. ASSUME NEW t \in Threads, NEW f \in Families, Enter(t, f)
      PROVE  SpacingInv'
  BY <1>1 DEF Enter, PaceTypes, SpacingInv, Goto, vars, orgVars, paceVars,
         familyVars, threadVars, startVars, leakVars
<1>2. ASSUME NEW t \in Threads, Dequeue(t)
      PROVE  SpacingInv'
  BY <1>2 DEF Dequeue, PaceTypes, SpacingInv, Goto, vars, orgVars, paceVars,
         familyVars, threadVars, startVars, leakVars
<1>2a. ASSUME NEW t \in Threads, JoinQueue(t)
      PROVE  SpacingInv'
  BY <1>2a DEF JoinQueue, PaceTypes, SpacingInv, Goto, vars, orgVars, paceVars,
         familyVars, threadVars, startVars, leakVars
<1>2b. ASSUME NEW t \in Threads, LeaveQueue(t)
      PROVE  SpacingInv'
  BY <1>2b DEF LeaveQueue, PaceTypes, SpacingInv, Goto, vars, orgVars, paceVars,
         familyVars, threadVars, startVars, leakVars
<1>2c. ASSUME NEW t \in Threads, InterruptedInQueue(t)
      PROVE  SpacingInv'
  BY <1>2c DEF InterruptedInQueue, PaceTypes, SpacingInv, Goto, vars, orgVars, paceVars,
         familyVars, threadVars, startVars, leakVars
<1>3. ASSUME NEW t \in Threads, Paced(t)
      PROVE  SpacingInv'
  BY <1>3 DEF Paced, PaceTypes, SpacingInv, Goto, vars, orgVars, paceVars,
         familyVars, threadVars, startVars, leakVars
<1>4. ASSUME NEW t \in Threads, OutageOver(t)
      PROVE  SpacingInv'
  BY <1>4 DEF OutageOver, PaceTypes, SpacingInv, Goto, vars, orgVars,
         paceVars, familyVars, threadVars, startVars, leakVars
<1>5. ASSUME NEW t \in Threads, TakePermit(t)
      PROVE  SpacingInv'
  BY <1>5 DEF TakePermit, PaceTypes, SpacingInv, Goto, vars, orgVars,
         paceVars, familyVars, threadVars, startVars, leakVars
<1>6. ASSUME NEW t \in Threads, Check(t)
      PROVE  SpacingInv'
  BY <1>6 DEF Check, WaitAgain, PaceTypes, SpacingInv, Goto, vars, orgVars,
         paceVars, familyVars, threadVars, startVars, leakVars
<1>7. ASSUME NEW t \in Threads, Book(t)
      PROVE  SpacingInv'
  <2>1. CASE /\ sampled[t] >= next[fam[t]]
             /\ next' = [next EXCEPT ![fam[t]] =
                           sampled[t] + Max2(interval[fam[t]], probe[fam[t]])]
             /\ lastStart' = [lastStart EXCEPT ![fam[t]] = sampled[t]]
             /\ lastPace' = [lastPace EXCEPT
                               ![fam[t]] = Max2(interval[fam[t]], probe[fam[t]])]
    <3>1. fam[t] \in Families /\ sampled[t] \in Nat
      BY <1>7 DEF Book, FamilyInv, ThreadTypes
    <3>2. Max2(interval[fam[t]], probe[fam[t]]) \in Nat \ {0}
      BY <3>1 DEF Max2, PaceTypes
    <3>3. QED
      BY <2>1, <3>1, <3>2 DEF PaceTypes, SpacingInv
  <2>2. CASE UNCHANGED <<next, startVars>>
    BY <2>2 DEF SpacingInv, startVars
  <2>3. QED
    BY <1>7, <2>1, <2>2 DEF Book
<1>8. ASSUME NEW t \in Threads, Interrupted(t)
      PROVE  SpacingInv'
  BY <1>8 DEF Interrupted, PaceTypes, SpacingInv, Goto, vars, orgVars,
         paceVars, familyVars, threadVars, startVars, leakVars
<1>9. ASSUME NEW t \in Threads, Begin(t)
      PROVE  SpacingInv'
  BY <1>9 DEF Begin, PaceTypes, SpacingInv, Goto, vars, orgVars, paceVars,
         familyVars, threadVars, startVars, leakVars
<1>10. ASSUME NEW t \in Threads, Counted(t)
      PROVE  SpacingInv'
  BY <1>10 DEF Counted, Answer, PaceTypes, SpacingInv, Goto, vars, orgVars,
         paceVars, familyVars, threadVars, startVars, leakVars
<1>11. ASSUME NEW t \in Threads, Uncounted(t)
      PROVE  SpacingInv'
  BY <1>11 DEF Uncounted, Answer, PaceTypes, SpacingInv, Goto, vars, orgVars,
         paceVars, familyVars, threadVars, startVars, leakVars
<1>12. ASSUME NEW t \in Threads, End(t)
      PROVE  SpacingInv'
  BY <1>12 DEF End, PaceTypes, SpacingInv, Goto, vars, orgVars, paceVars,
         familyVars, threadVars, startVars, leakVars
<1>13. ASSUME NEW t \in Threads, Publish(t)
      PROVE  SpacingInv'
  <2>1. PublishEffect
    BY <1>13, PublishHas
  <2>2. UNCHANGED <<clock, window, lastStart, lastPace, pauseSeen>>
    BY <1>13 DEF Publish, startVars
  <2>3. reply' = [reply EXCEPT ![t] = NoReply]
    BY <1>13 DEF Publish
  <2>4. QED
    BY <2>1, <2>2 DEF PublishEffect, PaceTypes, SpacingInv
<1>14. ASSUME NEW t \in Threads, ReleasePermit(t)
      PROVE  SpacingInv'
  BY <1>14 DEF ReleasePermit, PaceTypes, SpacingInv, Goto, vars, orgVars,
         paceVars, familyVars, threadVars, startVars, leakVars
<1>15. ASSUME NEW t \in Threads, ReleaseSlot(t)
      PROVE  SpacingInv'
  BY <1>15 DEF ReleaseSlot, PaceTypes, SpacingInv, Goto, vars, orgVars,
         paceVars, familyVars, threadVars, startVars, leakVars
<1>16. CASE Tick
  BY <1>16 DEF Tick, PaceTypes, SpacingInv, Goto, vars, orgVars, paceVars,
         familyVars, threadVars, startVars, leakVars
<1>17. CASE UNCHANGED vars
  BY <1>17 DEF PaceTypes, SpacingInv, Goto, vars, orgVars, paceVars,
         familyVars, threadVars, startVars, leakVars
<1>18. QED
  BY <1>1, <1>2, <1>2a, <1>2b, <1>2c, <1>3, <1>4, <1>5, <1>6, <1>7, <1>8, <1>9,
     <1>10, <1>11, <1>12, <1>13, <1>14, <1>15, <1>16, <1>17
  DEF Next, ThreadStep, Finished

\* A window at its reserve keeps its family waiting past the reset.
LEMMA SpentStep ==
  ASSUME CountTypes, PaceTypes, ThreadTypes, FamilyInv, HorizonInv,
         SpacingInv, CountersExact, SpentWindowBlocks, [Next]_vars
  PROVE  SpentWindowBlocks'
<1> USE ModelValuesAssumption, SettingsAssumption, WindowAssumption
<1>1. ASSUME NEW t \in Threads, NEW f \in Families, Enter(t, f)
      PROVE  SpentWindowBlocks'
  BY <1>1 DEF Enter, PaceTypes, SpentWindowBlocks, Goto, vars, orgVars,
         paceVars, familyVars, threadVars, startVars, leakVars
<1>2. ASSUME NEW t \in Threads, Dequeue(t)
      PROVE  SpentWindowBlocks'
  BY <1>2 DEF Dequeue, PaceTypes, SpentWindowBlocks, Goto, vars, orgVars,
         paceVars, familyVars, threadVars, startVars, leakVars
<1>2a. ASSUME NEW t \in Threads, JoinQueue(t)
      PROVE  SpentWindowBlocks'
  BY <1>2a DEF JoinQueue, PaceTypes, SpentWindowBlocks, Goto, vars, orgVars,
         paceVars, familyVars, threadVars, startVars, leakVars
<1>2b. ASSUME NEW t \in Threads, LeaveQueue(t)
      PROVE  SpentWindowBlocks'
  BY <1>2b DEF LeaveQueue, PaceTypes, SpentWindowBlocks, Goto, vars, orgVars,
         paceVars, familyVars, threadVars, startVars, leakVars
<1>2c. ASSUME NEW t \in Threads, InterruptedInQueue(t)
      PROVE  SpentWindowBlocks'
  BY <1>2c DEF InterruptedInQueue, PaceTypes, SpentWindowBlocks, Goto, vars, orgVars,
         paceVars, familyVars, threadVars, startVars, leakVars
<1>3. ASSUME NEW t \in Threads, Paced(t)
      PROVE  SpentWindowBlocks'
  BY <1>3 DEF Paced, PaceTypes, SpentWindowBlocks, Goto, vars, orgVars,
         paceVars, familyVars, threadVars, startVars, leakVars
<1>4. ASSUME NEW t \in Threads, OutageOver(t)
      PROVE  SpentWindowBlocks'
  BY <1>4 DEF OutageOver, PaceTypes, SpentWindowBlocks, Goto, vars, orgVars,
         paceVars, familyVars, threadVars, startVars, leakVars
<1>5. ASSUME NEW t \in Threads, TakePermit(t)
      PROVE  SpentWindowBlocks'
  BY <1>5 DEF TakePermit, PaceTypes, SpentWindowBlocks, Goto, vars, orgVars,
         paceVars, familyVars, threadVars, startVars, leakVars
<1>6. ASSUME NEW t \in Threads, Check(t)
      PROVE  SpentWindowBlocks'
  BY <1>6 DEF Check, WaitAgain, PaceTypes, SpentWindowBlocks, Goto, vars,
         orgVars, paceVars, familyVars, threadVars, startVars, leakVars
<1>7. ASSUME NEW t \in Threads, Book(t)
      PROVE  SpentWindowBlocks'
  <2>1. /\ next' \in [Families -> Nat]
        /\ \A f \in Families : next'[f] >= next[f]
    BY <1>7, BookEffect
  <2>2. UNCHANGED <<clock, orgNext, interval, probe, observed, reply, window>>
    BY <1>7 DEF Book
  <2>3. QED
    BY <2>1, <2>2 DEF PaceTypes, Observation, SpentWindowBlocks
<1>8. ASSUME NEW t \in Threads, Interrupted(t)
      PROVE  SpentWindowBlocks'
  BY <1>8 DEF Interrupted, PaceTypes, SpentWindowBlocks, Goto, vars, orgVars,
         paceVars, familyVars, threadVars, startVars, leakVars
<1>9. ASSUME NEW t \in Threads, Begin(t)
      PROVE  SpentWindowBlocks'
  BY <1>9 DEF Begin, PaceTypes, SpentWindowBlocks, Goto, vars, orgVars,
         paceVars, familyVars, threadVars, startVars, leakVars
<1>10. ASSUME NEW t \in Threads, Counted(t)
      PROVE  SpentWindowBlocks'
  BY <1>10 DEF Counted, Answer, PaceTypes, SpentWindowBlocks, Goto, vars,
         orgVars, paceVars, familyVars, threadVars, startVars, leakVars
<1>11. ASSUME NEW t \in Threads, Uncounted(t)
      PROVE  SpentWindowBlocks'
  BY <1>11 DEF Uncounted, Answer, PaceTypes, SpentWindowBlocks, Goto, vars,
         orgVars, paceVars, familyVars, threadVars, startVars, leakVars
<1>12. ASSUME NEW t \in Threads, End(t)
      PROVE  SpentWindowBlocks'
  BY <1>12 DEF End, PaceTypes, SpentWindowBlocks, Goto, vars, orgVars,
         paceVars, familyVars, threadVars, startVars, leakVars
<1>13. ASSUME NEW t \in Threads, Publish(t)
      PROVE  SpentWindowBlocks'
  <2>1. PublishEffect
    BY <1>13, PublishHas
  <2>2. UNCHANGED <<clock, window, lastStart, lastPace, pauseSeen>>
    BY <1>13 DEF Publish, startVars
  <2>3. reply' = [reply EXCEPT ![t] = NoReply]
    BY <1>13 DEF Publish
  <2>4. QED
    BY <2>1
    DEF PublishEffect, ObservationEffect, PaceTypes, Observation,
        SpentWindowBlocks
<1>14. ASSUME NEW t \in Threads, ReleasePermit(t)
      PROVE  SpentWindowBlocks'
  BY <1>14 DEF ReleasePermit, PaceTypes, SpentWindowBlocks, Goto, vars,
         orgVars, paceVars, familyVars, threadVars, startVars, leakVars
<1>15. ASSUME NEW t \in Threads, ReleaseSlot(t)
      PROVE  SpentWindowBlocks'
  BY <1>15 DEF ReleaseSlot, PaceTypes, SpentWindowBlocks, Goto, vars, orgVars,
         paceVars, familyVars, threadVars, startVars, leakVars
<1>16. CASE Tick
  BY <1>16 DEF Tick, PaceTypes, SpentWindowBlocks, Goto, vars, orgVars,
         paceVars, familyVars, threadVars, startVars, leakVars
<1>17. CASE UNCHANGED vars
  BY <1>17 DEF PaceTypes, SpentWindowBlocks, Goto, vars, orgVars, paceVars,
         familyVars, threadVars, startVars, leakVars
<1>18. QED
  BY <1>1, <1>2, <1>2a, <1>2b, <1>2c, <1>3, <1>4, <1>5, <1>6, <1>7, <1>8, <1>9,
     <1>10, <1>11, <1>12, <1>13, <1>14, <1>15, <1>16, <1>17
  DEF Next, ThreadStep, Finished

-----------------------------------------------------------------------------
IInv ==
  /\ CountTypes /\ PaceTypes /\ ThreadTypes /\ FamilyInv /\ HorizonInv
  /\ SpacingInv /\ PermitsConserved /\ SlotsConserved /\ CountersExact
  /\ SpentWindowBlocks

\* The inductive invariant holds initially and every step preserves it.
LEMMA IInvInit == Init => IInv
<1> SUFFICES ASSUME Init PROVE IInv
  OBVIOUS
<1> USE ModelValuesAssumption, SettingsAssumption, WindowAssumption,
        BoundsAssumption
<1>1. CountTypes /\ PaceTypes /\ ThreadTypes /\ FamilyInv
  BY DEF Init, CountTypes, PaceTypes, ThreadTypes, FamilyInv, Labels, NoReply,
         Reply, ReplyKinds
<1>2. HorizonInv /\ SpacingInv /\ SpentWindowBlocks
  BY DEF Init, HorizonInv, SpacingInv, SpentWindowBlocks, NoReply
<1>3. PermitsConserved
  <2>1. PermitHolders = {}
    BY DEF Init, PermitHolders
  <2>2. permits = OrgCap /\ Cardinality({}) = 0
    BY FS_EmptySet DEF Init
  <2>3. QED
    BY <2>1, <2>2 DEF PermitsConserved
<1>4. SlotsConserved
  <2>1. \A f \in Families : SlotHolders(f) = {}
    BY DEF Init, SlotHolders
  <2>2. /\ \A f \in Families : slots[f] = FamilyCap /\ lostSlots[f] = 0
        /\ Cardinality({}) = 0
    BY FS_EmptySet DEF Init
  <2>3. QED
    BY <2>1, <2>2 DEF SlotsConserved
<1>5. CountersExact
  <2>1. \A f \in Families : QueuedThreads(f) = {} /\ ActiveThreads(f) = {}
    BY DEF Init, QueuedThreads, ActiveThreads
  <2>2. /\ \A f \in Families : queued[f] = 0 /\ active[f] = 0 /\ lostCounts[f] = 0
        /\ Cardinality({}) = 0
    BY FS_EmptySet DEF Init
  <2>3. QED
    BY <2>1, <2>2 DEF CountersExact
<1>6. QED
  BY <1>1, <1>2, <1>3, <1>4, <1>5 DEF IInv

LEMMA IInvStep == IInv /\ [Next]_vars => IInv'
<1> SUFFICES ASSUME IInv, [Next]_vars PROVE IInv'
  OBVIOUS
<1> USE DEF IInv
<1>1. CountTypes' /\ ThreadTypes' /\ FamilyInv'
  BY CountTypesStep, ThreadTypesStep, FamilyStep
<1>2. PaceTypes' /\ SpacingInv' /\ SpentWindowBlocks'
  BY PaceTypesStep, SpacingStep, SpentStep
<1>3. HorizonInv'
  BY <1>2, HorizonStep
<1>4. PermitsConserved' /\ SlotsConserved' /\ CountersExact'
  BY PermitsStep, SlotsStep, CountersStep
<1>5. QED
  BY <1>1, <1>2, <1>3, <1>4

LEMMA Invariance == Spec => []IInv
BY IInvInit, IInvStep, PTL DEF Spec

\* No permit is leaked or freed twice, a slot is only leaked by an interrupt in
\* the queue, and the counters that pacing and telemetry read are exact but for
\* those interrupts, for any number of threads, families, slots and permits.
THEOREM ResourcesAreConserved == Spec => []ResourcesConserved
<1>1. IInv => ResourcesConserved
  BY DEF IInv, ResourcesConserved
<1>2. QED
  BY <1>1, Invariance, PTL

\* The types, with the bounds of the counters: neither semaphore is released
\* above its initial value, which would raise an exception.
THEOREM TypeCorrect == Spec => []TypeOK
<1>1. IInv => TypeOK
  <2> SUFFICES ASSUME IInv PROVE TypeOK
    OBVIOUS
  <2> USE DEF IInv
  <2>1. permits \in 0..OrgCap
    <3>1. PermitHolders \in SUBSET Threads
      BY DEF PermitHolders
    <3>2. Cardinality(PermitHolders) \in Nat
      BY <3>1, CountOf
    <3>3. permits \in Nat /\ permits + Cardinality(PermitHolders) = OrgCap
      BY DEF PermitsConserved, CountTypes
    <3>4. OrgCap \in Nat
      BY SettingsAssumption
    <3>5. QED
      BY <3>2, <3>3, <3>4
  <2>2. ASSUME NEW f \in Families
        PROVE  /\ slots[f] \in 0..FamilyCap
               /\ lostSlots[f] \in 0..FamilyCap
               /\ queued[f] \in Nat
               /\ active[f] \in Nat
    <3>1. /\ SlotHolders(f) \in SUBSET Threads
          /\ QueuedThreads(f) \in SUBSET Threads
          /\ ActiveThreads(f) \in SUBSET Threads
      BY DEF SlotHolders, QueuedThreads, ActiveThreads
    <3>2. /\ Cardinality(SlotHolders(f)) \in Nat
          /\ Cardinality(QueuedThreads(f)) \in Nat
          /\ Cardinality(ActiveThreads(f)) \in Nat
      BY <3>1, CountOf
    <3>3. /\ slots[f] \in Nat
          /\ slots[f] + Cardinality(SlotHolders(f)) + lostSlots[f] = FamilyCap
          /\ lostSlots[f] \in Nat /\ lostCounts[f] \in Nat
          /\ queued[f] = Cardinality(QueuedThreads(f)) + lostCounts[f]
          /\ active[f] = Cardinality(ActiveThreads(f))
      BY DEF CountTypes, SlotsConserved, CountersExact
    <3>4. FamilyCap \in Nat
      BY SettingsAssumption
    <3>5. slots[f] \in 0..FamilyCap /\ lostSlots[f] \in 0..FamilyCap
      BY <3>2, <3>3, <3>4
    <3>6. QED
      BY <3>2, <3>3, <3>5
  <2>3. QED
    BY <2>1, <2>2
    DEF TypeOK, CountTypes, PaceTypes, ThreadTypes, Labels
<1>2. QED
  BY <1>1, Invariance, PTL

\* A family whose window is known to be down to the reserve starts nothing
\* before the window has been reset.
THEOREM SpentWindowsBlock == Spec => []SpentWindowBlocks
<1>1. IInv => SpentWindowBlocks
  BY DEF IInv
<1>2. QED
  BY <1>1, Invariance, PTL

\* A publication and a booking are the only steps that change deadlines and
\* observations.
LEMMA PacingStep ==
  ASSUME IInv, [Next]_vars
  PROVE  \/ UNCHANGED <<orgNext, next, observed>>
         \/ PublishEffect
         \/ /\ UNCHANGED <<orgNext, observed>>
            /\ next' \in [Families -> Nat]
            /\ \A f \in Families : next'[f] >= next[f]
<1>1. ASSUME NEW t \in Threads, Publish(t)
      PROVE  PublishEffect
  BY <1>1, PublishHas DEF IInv
<1>2. ASSUME NEW t \in Threads, Book(t)
      PROVE  /\ UNCHANGED <<orgNext, observed>>
             /\ next' \in [Families -> Nat]
             /\ \A f \in Families : next'[f] >= next[f]
  BY <1>2, BookEffect DEF IInv, Book
<1>3. ASSUME NEW t \in Threads, NEW f \in Families, Enter(t, f)
      PROVE  UNCHANGED <<orgNext, next, observed>>
  BY <1>3 DEF Enter, orgVars, paceVars
<1>4. ASSUME NEW t \in Threads,
             \/ JoinQueue(t) \/ Dequeue(t) \/ LeaveQueue(t)
             \/ InterruptedInQueue(t) \/ Paced(t) \/ OutageOver(t)
             \/ TakePermit(t) \/ Check(t) \/ Interrupted(t)
      PROVE  UNCHANGED <<orgNext, next, observed>>
  BY <1>4 DEF JoinQueue, Dequeue, LeaveQueue, InterruptedInQueue, Paced,
              OutageOver, TakePermit, Check, Interrupted, orgVars, paceVars, familyVars
<1>5. ASSUME NEW t \in Threads,
             \/ Begin(t) \/ Counted(t) \/ Uncounted(t) \/ End(t)
             \/ ReleasePermit(t) \/ ReleaseSlot(t)
      PROVE  UNCHANGED <<orgNext, next, observed>>
  BY <1>5 DEF Begin, Counted, Uncounted, Answer, End, ReleasePermit,
              ReleaseSlot, orgVars, paceVars, familyVars
<1>6. CASE Tick \/ Finished \/ UNCHANGED vars
  BY <1>6 DEF Tick, Finished, vars, orgVars, paceVars, familyVars
<1>7. QED
  BY <1>1, <1>2, <1>3, <1>4, <1>5, <1>6 DEF Next, ThreadStep

\* Whatever the threads publish, and in whatever order, no deadline moves back.
THEOREM DeadlinesAdvance == Spec => DeadlinesNeverRetreat
<1>1. IInv /\ [Next]_vars
      => [/\ orgNext' >= orgNext
          /\ \A f \in Families : next'[f] >= next[f]]_vars
  <2> SUFFICES ASSUME IInv, [Next]_vars
               PROVE  /\ orgNext' >= orgNext
                      /\ \A f \in Families : next'[f] >= next[f]
    OBVIOUS
  <2>1. orgNext \in Nat /\ next \in [Families -> Nat]
    BY DEF IInv, PaceTypes
  <2>2. QED
    BY <2>1, PacingStep DEF PublishEffect
<1>2. QED
  BY <1>1, Invariance, PTL DEF Spec, DeadlinesNeverRetreat

\* Whatever the order of the responses, the known window and its budget only
\* advance.
THEOREM ObservationsAdvance == Spec => ObservedAdvances
<1>1. ASSUME IInv, [Next]_vars, NEW f \in Families, observed[f] # NoWindow
      PROVE  /\ observed'[f] # NoWindow
             /\ observed'[f].reset >= observed[f].reset
             /\ observed'[f].reset = observed[f].reset
                  => observed'[f].remaining <= observed[f].remaining
  <2>1. observed'[f] = observed[f] \/ ObservationEffect(f)
    BY <1>1, PacingStep DEF PublishEffect
  <2>2. /\ observed[f] \in Observation
        /\ observed[f].reset \in Nat /\ observed[f].remaining \in Nat
    BY <1>1 DEF IInv, PaceTypes, Observation
  <2>3. QED
    BY <1>1, <2>1, <2>2, NoWindowAssumption DEF ObservationEffect
<1>2. IInv /\ [Next]_vars
      => [\A f \in Families :
            observed[f] # NoWindow =>
              /\ observed'[f] # NoWindow
              /\ observed'[f].reset >= observed[f].reset
              /\ observed'[f].reset = observed[f].reset
                   => observed'[f].remaining <= observed[f].remaining]_vars
  BY <1>1
<1>3. QED
  BY <1>2, Invariance, PTL DEF Spec, ObservedAdvances

\* However many threads pass the wait together, their starts are booked one
\* after the other, each at least the interval in force at the one before it
\* later than that one.
THEOREM StartsSpaced == Spec => StartsAreSpaced
<1>1. ASSUME IInv, [Next]_vars, NEW t \in Threads,
             pc[t] = "book", pc'[t] = "booked"
      PROVE  lastStart'[fam[t]] >= lastStart[fam[t]] + lastPace[fam[t]]
  <2>1. Book(t)
    <3>1. ASSUME NEW u \in Threads, NEW l, l # "booked", Goto(u, l)
          PROVE  FALSE
      BY <1>1, <3>1 DEF Goto, IInv, ThreadTypes
    <3>2. PICK u \in Threads :
            ThreadStep(u) \/ Interrupted(u) \/ InterruptedInQueue(u)
      BY <1>1 DEF Next, Tick, Finished, vars, threadVars, startVars, leakVars
    <3>3. CASE Book(u)
      <4>1. u = t
        BY <1>1, <3>3 DEF Book, WaitAgain, Goto, IInv, ThreadTypes
      <4>2. QED
        BY <3>3, <4>1
    <3>4. ~(\E f \in Families : Enter(u, f))
      BY <3>1 DEF Enter
    <3>5. ~(JoinQueue(u) \/ LeaveQueue(u) \/ InterruptedInQueue(u))
      BY <3>1 DEF JoinQueue, LeaveQueue, InterruptedInQueue
    <3>5a. ~(Dequeue(u) \/ Paced(u) \/ OutageOver(u) \/ TakePermit(u) \/ Check(u))
      BY <3>1 DEF Dequeue, Paced, OutageOver, TakePermit, Check, WaitAgain
    <3>6. ~(Begin(u) \/ Counted(u) \/ Uncounted(u) \/ End(u))
      BY <3>1 DEF Begin, Counted, Uncounted, Answer, End
    <3>7. ~(Publish(u) \/ ReleasePermit(u) \/ ReleaseSlot(u) \/ Interrupted(u))
      BY <3>1 DEF Publish, ReleasePermit, ReleaseSlot, Interrupted
    <3>8. QED
      BY <3>2, <3>3, <3>4, <3>5, <3>5a, <3>6, <3>7 DEF ThreadStep
  <2>2. /\ sampled[t] >= next[fam[t]]
        /\ lastStart' = [lastStart EXCEPT ![fam[t]] = sampled[t]]
    BY <1>1, <2>1 DEF Book, WaitAgain, Goto, IInv, ThreadTypes
  <2>3. fam[t] \in Families /\ sampled[t] \in Nat
    BY <1>1 DEF IInv, FamilyInv, ThreadTypes
  <2>4. /\ lastStart \in [Families -> Nat \cup {-1}]
        /\ lastPace \in [Families -> Nat] /\ next \in [Families -> Nat]
    BY <1>1 DEF IInv, PaceTypes
  <2>5. lastStart[fam[t]] + lastPace[fam[t]] <= next[fam[t]]
    BY <1>1, <2>3 DEF IInv, SpacingInv
  <2>6. QED
    BY <2>2, <2>3, <2>4, <2>5
<1>2. IInv /\ [Next]_vars
      => [\A t \in Threads :
            pc[t] = "book" /\ pc'[t] = "booked"
            => lastStart'[fam[t]] >= lastStart[fam[t]] + lastPace[fam[t]]]_vars
  BY <1>1
<1>3. QED
  BY <1>2, Invariance, PTL DEF Spec, StartsAreSpaced

\* What the threads publish moves deadlines and windows forward only.
THEOREM PublicationsOnlyAdvance == Spec => PublicationsAdvance
  BY DeadlinesAdvance, ObservationsAdvance DEF PublicationsAdvance

\* Pauses that a thread has seen are not withdrawn, and the clock that it read
\* for its start was past the pause that it saw when it got its permit.
OutageInv ==
  \A t \in Threads : /\ pauseSeen[t] <= orgNext
                     /\ pc[t] = "book" => pauseSeen[t] <= sampled[t]

LEMMA OutageStep ==
  ASSUME IInv, OutageInv, [Next]_vars
  PROVE  OutageInv'
<1>1. /\ pc \in [Threads -> Labels] /\ sampled \in [Threads -> Nat]
      /\ pauseSeen \in [Threads -> Nat] /\ orgNext \in Nat /\ clock \in Nat
  BY DEF IInv, ThreadTypes, PaceTypes
<1>2. orgNext' \in Nat /\ orgNext' >= orgNext
  BY <1>1, PacingStep DEF PublishEffect
<1>3. ASSUME NEW u \in Threads, TakePermit(u)
      PROVE  OutageInv'
  BY <1>1, <1>3 DEF TakePermit, Goto, OutageInv, familyVars
<1>4. ASSUME NEW u \in Threads, Check(u)
      PROVE  OutageInv'
  <2>1. pauseSeen' = pauseSeen /\ orgNext' = orgNext
    BY <1>4 DEF Check
  <2>2. pauseSeen[u] <= orgNext
    BY DEF OutageInv
  <2>3. CASE clock >= orgNext /\ sampled' = [sampled EXCEPT ![u] = clock] /\ Goto(u, "book")
    BY <1>1, <2>1, <2>2, <2>3 DEF Goto, OutageInv
  <2>4. CASE WaitAgain(u) /\ UNCHANGED sampled
    BY <1>1, <2>1, <2>4 DEF WaitAgain, Goto, OutageInv
  <2>5. QED
    BY <1>4, <2>3, <2>4 DEF Check
<1>5. ASSUME NEW u \in Threads, Book(u)
      PROVE  OutageInv'
  <2>1. /\ pauseSeen' = [pauseSeen EXCEPT ![u] = 0] /\ orgNext' = orgNext
        /\ sampled' = [sampled EXCEPT ![u] = 0]
        /\ Goto(u, "booked") \/ Goto(u, "pace")
    BY <1>5 DEF Book, WaitAgain
  <2>2. QED
    BY <1>1, <2>1 DEF Goto, OutageInv
<1>6. ASSUME NEW u \in Threads, NEW l, l # "book", Goto(u, l),
             UNCHANGED pauseSeen, sampled' = sampled \/ sampled' = [sampled EXCEPT ![u] = 0]
      PROVE  OutageInv'
  BY <1>1, <1>2, <1>6 DEF Goto, OutageInv
<1>7. ASSUME NEW u \in Threads,
             \/ \E f \in Families : Enter(u, f)
             \/ JoinQueue(u) \/ Dequeue(u) \/ LeaveQueue(u)
             \/ InterruptedInQueue(u) \/ Paced(u) \/ OutageOver(u) \/ Interrupted(u)
      PROVE  OutageInv'
  BY <1>6, <1>7 DEF Enter, JoinQueue, Dequeue, LeaveQueue, InterruptedInQueue, Paced,
                    OutageOver, Interrupted
<1>8. ASSUME NEW u \in Threads,
             \/ Begin(u) \/ Counted(u) \/ Uncounted(u) \/ End(u)
             \/ Publish(u) \/ ReleasePermit(u) \/ ReleaseSlot(u)
      PROVE  OutageInv'
  BY <1>6, <1>8 DEF Begin, Counted, Uncounted, Answer, End, Publish, ReleasePermit, ReleaseSlot
<1>9. CASE Tick \/ Finished \/ UNCHANGED vars
  <2>1. UNCHANGED <<pc, sampled, pauseSeen, orgNext>>
    BY <1>9 DEF Tick, Finished, vars, orgVars, threadVars, startVars, leakVars
  <2>2. QED
    BY <2>1 DEF OutageInv
<1>10. QED
  BY <1>3, <1>4, <1>5, <1>7, <1>8, <1>9 DEF Next, ThreadStep

\* A server failure that is not yet published is that of a thread which still
\* holds its permit.
FailureInv ==
  \A t \in Threads : reply[t].kind = "outage" => pc[t] \in {"answered", "ended"}

LEMMA FailureStep ==
  ASSUME IInv, FailureInv, [Next]_vars
  PROVE  FailureInv'
<1>1. pc \in [Threads -> Labels] /\ reply \in [Threads -> Reply]
  BY DEF IInv, ThreadTypes
<1>2. ASSUME NEW u \in Threads, NEW l, Goto(u, l), UNCHANGED reply,
             pc[u] \notin {"answered", "ended"}
      PROVE  FailureInv'
  BY <1>1, <1>2 DEF Goto, FailureInv
<1>3. ASSUME NEW u \in Threads,
             \/ \E f \in Families : Enter(u, f)
             \/ JoinQueue(u) \/ Dequeue(u) \/ LeaveQueue(u)
             \/ Paced(u) \/ OutageOver(u) \/ TakePermit(u)
      PROVE  FailureInv'
  BY <1>2, <1>3 DEF Enter, JoinQueue, Dequeue, LeaveQueue, Paced, OutageOver, TakePermit
<1>4. ASSUME NEW u \in Threads,
             \/ InterruptedInQueue(u) \/ Interrupted(u) \/ Check(u) \/ Book(u)
             \/ Begin(u) \/ ReleasePermit(u) \/ ReleaseSlot(u)
      PROVE  FailureInv'
  BY <1>2, <1>4 DEF InterruptedInQueue, Interrupted, Check, Book, WaitAgain, Begin,
                    ReleasePermit, ReleaseSlot
<1>5. ASSUME NEW u \in Threads, NEW x, Answer(u, x)
      PROVE  FailureInv'
  BY <1>1, <1>5 DEF Answer, Goto, FailureInv
<1>6. ASSUME NEW u \in Threads, Counted(u) \/ Uncounted(u)
      PROVE  FailureInv'
  BY <1>5, <1>6 DEF Counted, Uncounted
<1>7. ASSUME NEW u \in Threads, End(u)
      PROVE  FailureInv'
  BY <1>1, <1>7 DEF End, Goto, FailureInv
<1>8. ASSUME NEW u \in Threads, Publish(u)
      PROVE  FailureInv'
  <2>1. reply' = [reply EXCEPT ![u] = NoReply] /\ Goto(u, "free")
    BY <1>8 DEF Publish
  <2>2. QED
    BY <1>1, <2>1 DEF Goto, FailureInv, NoReply
<1>9. CASE Tick \/ Finished \/ UNCHANGED vars
  <2>1. UNCHANGED <<pc, reply>>
    BY <1>9 DEF Tick, Finished, vars, threadVars
  <2>2. QED
    BY <2>1 DEF FailureInv
<1>10. QED
  BY <1>3, <1>4, <1>6, <1>7, <1>8, <1>9 DEF Next, ThreadStep

\* A request that waited for a permit does not start in the pause that was
\* published before it got one, whoever published it, and none starts after a
\* permit was freed whose request failed without having published it.
THEOREM NoStartsDuringOutages == Spec => NoStartDuringOutage
<1>1. Init => OutageInv /\ FailureInv
  <2> SUFFICES ASSUME Init PROVE OutageInv /\ FailureInv
    OBVIOUS
  <2>1. QED
    BY DEF Init, OutageInv, FailureInv, NoReply
<1>2. IInv /\ OutageInv /\ FailureInv /\ [Next]_vars => OutageInv' /\ FailureInv'
  BY OutageStep, FailureStep
<1>3. OutageInv /\ FailureInv /\ [Next]_vars
        => [\A t \in Threads :
              pc[t] = "book" /\ pc'[t] = "booked" =>
                /\ sampled[t] >= pauseSeen[t]
                /\ \A u \in Threads : reply[u].kind = "outage" => u \in PermitHolders]_vars
  BY DEF OutageInv, FailureInv, PermitHolders
<1>4. QED
  BY <1>1, <1>2, <1>3, Invariance, PTL DEF Spec, NoStartDuringOutage
=============================================================================
