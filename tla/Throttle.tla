------------------------------ MODULE Throttle ------------------------------
(***************************************************************************)
(* Admission of requests (OrgThrottle and EndpointThrottle in utils/http.py *)
(* and their callers there).  Every endpoint family has a bounded number of *)
(* slots and a deadline before which none of its requests starts; all       *)
(* families share a bounded number of permits and an outage deadline.  A    *)
(* thread takes a slot, waits for both deadlines, takes a permit, looks at  *)
(* both deadlines once more while it books its start, and goes back to wait *)
(* without the permit if one of them moved.  What a response says about the *)
(* rate limit, or a failure about a pause, is published before the permit   *)
(* and the slot are freed.                                                  *)
(*                                                                         *)
(* Clock readings are natural numbers: deadlines that fall between two of   *)
(* them are rounded up, which no thread can tell.  The monotonic and the    *)
(* wall clock advance together.  The retry that follows a failed attempt is *)
(* a new request of the same thread.  Exceptions are modelled in acquire,   *)
(* where threads sleep and wait, and while a request is sent; that a thread *)
(* is interrupted while it waits for a lock later, which is held for a few  *)
(* instructions only, is not.                                               *)
(***************************************************************************)
EXTENDS Integers, FiniteSets

CONSTANTS
  Threads,          \* the request threads
  Families,         \* the endpoint families
  NoFamily,         \* the thread is not inside a request
  NoWindow,         \* None: no rate limit headers were observed yet
  FamilyCap,        \* max_concurrency of an EndpointThrottle
  OrgCap,           \* max_concurrency of the OrgThrottle
  Reserve,          \* remaining_reserve
  MaxCooldown,      \* max_cooldown_seconds
  DefaultInterval,  \* DEFAULT_REQUEST_INTERVAL_SECONDS
  ProbeInterval,    \* RATE_LIMIT_PROBE_INTERVAL_SECONDS
  Delays,           \* what _retry_delay may return
  Window,           \* Okta: length of a rate limit window
  Limit,            \* Okta: requests per window
  Others,           \* BOUND: requests of other API clients between two of ours
  Replies,          \* BOUND: the kinds of reply that a run considers
  Asks,             \* BOUND: the families that each thread asks
  MaxTime,          \* BOUND: ticks while nobody waits for a deadline
  MaxRequests       \* BOUND: attempts of one thread

ASSUME ModelValuesAssumption == /\ IsFiniteSet(Threads)
                                /\ NoFamily \notin Families

\* The constructors reject caps below one, a negative reserve and a cooldown
\* cap that is not positive.
ASSUME SettingsAssumption ==
  /\ FamilyCap \in Nat \ {0}
  /\ OrgCap \in Nat \ {0}
  /\ Reserve \in Nat
  /\ MaxCooldown \in Nat \ {0}
  /\ DefaultInterval \in Nat \ {0}
  /\ ProbeInterval \in Nat \ {0}
  /\ Delays \subseteq Nat

\* A pause until just past the reset of a window is not cut short by the
\* cooldown cap: windows last a minute, the cap is 300 seconds.
ASSUME WindowAssumption == /\ Window \in Nat \ {0}
                           /\ Limit \in Nat \ {0}
                           /\ Window < MaxCooldown

ASSUME AsksAssumption == Asks \in [Threads -> SUBSET Families]

ASSUME BoundsAssumption == /\ Others \in Nat
                           /\ MaxTime \in Nat
                           /\ MaxRequests \in Nat

(***************************************************************************)
(* How an attempt ends, as far as the throttle is concerned:                *)
(*   "headers"   success with rate limit headers                            *)
(*   "bare"      success without them                                       *)
(*   "malformed" success with headers that are not numbers                  *)
(*   "limited"   HTTP 429                                                   *)
(*   "outage"    HTTP 5xx or a transport failure that is retried            *)
(*   "final"     anything that publishes nothing: another status, a retry   *)
(*               with a new token, exhausted retries, any other exception   *)
(***************************************************************************)
ReplyKinds == {"headers", "bare", "malformed", "limited", "outage", "final"}

ASSUME RepliesAssumption == Replies \subseteq ReplyKinds

Reply == [kind: ReplyKinds, remaining: Nat, reset: Nat]
Observation == [remaining: Nat, reset: Nat]

ASSUME NoWindowAssumption == NoWindow \notin Observation

VARIABLES
  clock,
  permits,     \* OrgThrottle._gate: permits that are free
  orgNext,     \* OrgThrottle._next_allowed_at
  slots,       \* _semaphore of each family: slots that are free
  next,        \* _next_allowed_at
  interval,    \* _request_interval
  probe,       \* _probe_interval
  observed,    \* _observed_reset_at and _observed_remaining
  queued,      \* _queued
  active,      \* _active_http_requests
  pc,          \* where each thread stands
  fam,         \* the family of its request
  sampled,     \* now, as _try_book read it
  reply,       \* how its request ended
  left,        \* attempts it has still to make
  window,      \* Okta: the current window of each family
  lastStart,   \* history: when the latest start was booked
  lastPace,    \* history: the interval in force when it was booked
  lostCounts,  \* history: threads that left the queue without being discounted
  lostSlots,   \* history: slots that such threads took with them
  pauseSeen    \* history: orgNext when the thread took its permit

orgVars    == <<permits, orgNext>>
paceVars   == <<next, interval, probe, observed>>
familyVars == <<slots, paceVars, queued, active>>
threadVars == <<pc, fam, sampled, reply, left>>
startVars  == <<lastStart, lastPace>>
leakVars   == <<lostCounts, lostSlots>>
vars == <<clock, orgVars, familyVars, threadVars, window, startVars, leakVars,
          pauseSeen>>

-----------------------------------------------------------------------------
Min2(a, b) == IF a < b THEN a ELSE b
Max2(a, b) == IF a < b THEN b ELSE a

\* The time until the first clock reading at or after a quotient.
CeilDiv(a, b) == (a + b - 1) \div b

NoReply == [kind |-> "final", remaining |-> 0, reset |-> 0]

Init ==
  /\ clock = 0
  /\ permits = OrgCap
  /\ orgNext = 0
  /\ slots = [f \in Families |-> FamilyCap]
  /\ next = [f \in Families |-> 0]
  /\ interval = [f \in Families |-> DefaultInterval]
  /\ probe = [f \in Families |-> 0]
  /\ observed = [f \in Families |-> NoWindow]
  /\ queued = [f \in Families |-> 0]
  /\ active = [f \in Families |-> 0]
  /\ pc = [t \in Threads |-> "idle"]
  /\ fam = [t \in Threads |-> NoFamily]
  /\ sampled = [t \in Threads |-> 0]
  /\ reply = [t \in Threads |-> NoReply]
  /\ left = [t \in Threads |-> MaxRequests]
  /\ window = [f \in Families |-> [reset |-> 0, used |-> 0]]
  /\ lastStart = [f \in Families |-> -1]
  /\ lastPace = [f \in Families |-> 0]
  /\ lostCounts = [f \in Families |-> 0]
  /\ lostSlots = [f \in Families |-> 0]
  /\ pauseSeen = [t \in Threads |-> 0]

Goto(t, label) == pc' = [pc EXCEPT ![t] = label]

-----------------------------------------------------------------------------
(***************************************************************************)
(* EndpointThrottle.acquire                                                *)
(***************************************************************************)

\* acquire begins: a free slot is taken at once, otherwise the thread goes to
\* the queue.
Enter(t, f) ==
  /\ pc[t] = "idle"
  /\ left[t] > 0
  /\ f \in Asks[t]
  /\ left' = [left EXCEPT ![t] = @ - 1]
  /\ fam' = [fam EXCEPT ![t] = f]
  /\ \/ /\ slots[f] > 0
        /\ slots' = [slots EXCEPT ![f] = @ - 1]
        /\ Goto(t, "pace")
     \/ /\ slots[f] = 0
        /\ Goto(t, "join")
        /\ UNCHANGED slots
  /\ UNCHANGED <<clock, orgVars, paceVars, queued, active, sampled, reply,
                 window, startVars, leakVars, pauseSeen>>

\* The thread is counted, by now perhaps with a slot free,
JoinQueue(t) ==
  /\ pc[t] = "join"
  /\ queued' = [queued EXCEPT ![fam[t]] = @ + 1]
  /\ Goto(t, "queued")
  /\ UNCHANGED <<clock, orgVars, slots, paceVars, active, fam, sampled, reply,
                 left, window, startVars, leakVars, pauseSeen>>

\* waits for a slot
Dequeue(t) ==
  /\ pc[t] = "queued"
  /\ slots[fam[t]] > 0
  /\ slots' = [slots EXCEPT ![fam[t]] = @ - 1]
  /\ Goto(t, "leave")
  /\ UNCHANGED <<clock, orgVars, paceVars, queued, active, fam, sampled, reply,
                 left, window, startVars, leakVars, pauseSeen>>

\* and is discounted.
LeaveQueue(t) ==
  /\ pc[t] = "leave"
  /\ queued' = [queued EXCEPT ![fam[t]] = @ - 1]
  /\ Goto(t, "pace")
  /\ UNCHANGED <<clock, orgVars, slots, paceVars, active, fam, sampled, reply,
                 left, window, startVars, leakVars, pauseSeen>>

\* The queue is outside the try statement: an exception there, such as an
\* interrupt of the blocking acquire or of the wait for the lock, gives back
\* neither the count nor the slot.
InterruptedInQueue(t) ==
  /\ pc[t] \in {"join", "queued", "leave"}
  /\ LET f == fam[t] IN
       /\ lostCounts' = IF pc[t] = "join" THEN lostCounts
                        ELSE [lostCounts EXCEPT ![f] = @ + 1]
       /\ lostSlots' = IF pc[t] = "leave" THEN [lostSlots EXCEPT ![f] = @ + 1]
                       ELSE lostSlots
  /\ Goto(t, "idle")
  /\ fam' = [fam EXCEPT ![t] = NoFamily]
  /\ UNCHANGED <<clock, orgVars, familyVars, sampled, reply, left, window,
                 startVars, pauseSeen>>

\* _wait_until_allowed returns once the family's deadline has passed.
Paced(t) ==
  /\ pc[t] = "pace"
  /\ clock >= next[fam[t]]
  /\ Goto(t, "outage")
  /\ UNCHANGED <<clock, orgVars, familyVars, fam, sampled, reply, left,
                 window, startVars, leakVars, pauseSeen>>

\* OrgThrottle.wait returns once the outage deadline has passed.
OutageOver(t) ==
  /\ pc[t] = "outage"
  /\ clock >= orgNext
  /\ Goto(t, "permit")
  /\ UNCHANGED <<clock, orgVars, familyVars, fam, sampled, reply, left,
                 window, startVars, leakVars, pauseSeen>>

TakePermit(t) ==
  /\ pc[t] = "permit"
  /\ permits > 0
  /\ permits' = permits - 1
  /\ Goto(t, "check")
  /\ pauseSeen' = [pauseSeen EXCEPT ![t] = orgNext]
  /\ UNCHANGED <<clock, orgNext, familyVars, fam, sampled, reply, left,
                 window, startVars, leakVars>>

\* Wrong: the permit is kept while waiting (RequestsFinish).
WaitAgainWithPermit(t) ==
  /\ Goto(t, "pace")
  /\ UNCHANGED permits

\* The thread gives its permit back and waits again; it keeps its slot.
WaitAgain(t) ==
  /\ permits' = permits + 1
  /\ Goto(t, "pace")

\* Wrong: the outage is not looked at again (NoStartDuringOutage).
CheckClockOnly(t) ==
  /\ pc[t] = "check"
  /\ sampled' = [sampled EXCEPT ![t] = clock]
  /\ Goto(t, "book")
  /\ UNCHANGED <<clock, orgVars, familyVars, fam, reply, left, window,
                 startVars, leakVars, pauseSeen>>

\* _try_book reads the clock and asks the org throttle, without the family's
\* lock.
Check(t) ==
  /\ pc[t] = "check"
  /\ \/ /\ clock >= orgNext
        /\ sampled' = [sampled EXCEPT ![t] = clock]
        /\ Goto(t, "book")
        /\ UNCHANGED permits
     \/ /\ clock < orgNext
        /\ WaitAgain(t)
        /\ UNCHANGED sampled
  /\ UNCHANGED <<clock, orgNext, familyVars, fam, reply, left, window,
                 startVars, leakVars, pauseSeen>>

\* Wrong: the start is booked without another look (StartsAreSpaced).
BookUnchecked(t) ==
  /\ pc[t] = "book"
  /\ LET f == fam[t] IN
       /\ next' = [next EXCEPT
                     ![f] = Max2(@, sampled[t] + Max2(interval[f], probe[f]))]
       /\ lastStart' = [lastStart EXCEPT ![f] = sampled[t]]
       /\ lastPace' = [lastPace EXCEPT ![f] = Max2(interval[f], probe[f])]
  /\ Goto(t, "booked")
  /\ sampled' = [sampled EXCEPT ![t] = 0]
  /\ UNCHANGED <<clock, orgVars, slots, interval, probe, observed, queued,
                 active, fam, reply, left, window, leakVars>>
  /\ pauseSeen' = [pauseSeen EXCEPT ![t] = 0]

\* _try_book takes the family's lock and books the start, unless the family's
\* deadline has moved past the time it read.
Book(t) ==
  /\ pc[t] = "book"
  /\ LET f == fam[t] IN
       \/ /\ sampled[t] >= next[f]
          /\ next' = [next EXCEPT ![f] = sampled[t] + Max2(interval[f], probe[f])]
          /\ lastStart' = [lastStart EXCEPT ![f] = sampled[t]]
          /\ lastPace' = [lastPace EXCEPT ![f] = Max2(interval[f], probe[f])]
          /\ Goto(t, "booked")
          /\ UNCHANGED permits
       \/ /\ sampled[t] < next[f]
          /\ WaitAgain(t)
          /\ UNCHANGED <<next, startVars, leakVars>>
  /\ sampled' = [sampled EXCEPT ![t] = 0]
  /\ UNCHANGED <<clock, orgNext, slots, interval, probe, observed, queued,
                 active, fam, reply, left, window, leakVars>>
  /\ pauseSeen' = [pauseSeen EXCEPT ![t] = 0]

\* Wrong: a permit is freed that may not have been taken (TypeOK), the slot is
\* not freed (ResourcesConserved).
InterruptedFreesPermit(t) ==
  /\ pc[t] \in {"pace", "outage", "permit", "check", "book"}
  /\ permits' = permits + 1
  /\ slots' = [slots EXCEPT ![fam[t]] = @ + 1]
  /\ Goto(t, "idle")
  /\ fam' = [fam EXCEPT ![t] = NoFamily]
  /\ sampled' = [sampled EXCEPT ![t] = 0]
  /\ UNCHANGED <<clock, orgNext, paceVars, queued, active, reply, left, window,
                 startVars, leakVars, pauseSeen>>

InterruptedKeepsSlot(t) ==
  /\ pc[t] \in {"pace", "outage", "permit", "check", "book"}
  /\ permits' = IF pc[t] \in {"check", "book"} THEN permits + 1 ELSE permits
  /\ Goto(t, "idle")
  /\ fam' = [fam EXCEPT ![t] = NoFamily]
  /\ sampled' = [sampled EXCEPT ![t] = 0]
  /\ UNCHANGED <<clock, orgNext, slots, paceVars, queued, active, reply, left,
                 window, startVars, leakVars, pauseSeen>>

\* An exception inside the waiting loop gives back what the thread holds.
Interrupted(t) ==
  /\ pc[t] \in {"pace", "outage", "permit", "check", "book"}
  /\ permits' = IF pc[t] \in {"check", "book"} THEN permits + 1 ELSE permits
  /\ slots' = [slots EXCEPT ![fam[t]] = @ + 1]
  /\ Goto(t, "idle")
  /\ fam' = [fam EXCEPT ![t] = NoFamily]
  /\ sampled' = [sampled EXCEPT ![t] = 0]
  /\ UNCHANGED <<clock, orgNext, paceVars, queued, active, reply, left, window,
                 startVars, leakVars, pauseSeen>>

-----------------------------------------------------------------------------
(***************************************************************************)
(* _send_measured: the request is under way.                               *)
(***************************************************************************)

\* begin_http_request
Begin(t) ==
  /\ pc[t] = "booked"
  /\ active' = [active EXCEPT ![fam[t]] = @ + 1]
  /\ Goto(t, "sending")
  /\ UNCHANGED <<clock, orgVars, slots, paceVars, queued, fam, sampled, reply,
                 left, window, startVars, leakVars, pauseSeen>>

\* The window in which Okta counts a request of family f now.
CurrentWindow(f) ==
  IF clock >= window[f].reset
  THEN [reset |-> clock + Window, used |-> 0]
  ELSE window[f]

Answer(t, r) ==
  /\ pc[t] = "sending"
  /\ r.kind \in Replies
  /\ reply' = [reply EXCEPT ![t] = r]
  /\ Goto(t, "answered")
  /\ UNCHANGED <<clock, orgVars, familyVars, fam, sampled, left,
                 startVars, leakVars, pauseSeen>>

\* Okta counts the request, and some of other API clients, and answers with
\* what is left of the window, or with 429 once nothing is.
Counted(t) ==
  /\ pc[t] = "sending"
  /\ LET f == fam[t]
         w == CurrentWindow(f)
     IN  \/ \E used \in (w.used + 1)..(w.used + 1 + Others) :
              /\ used <= Limit
              /\ window' = [window EXCEPT ![f] = [w EXCEPT !.used = used]]
              /\ Answer(t, [kind |-> "headers", remaining |-> Limit - used,
                            reset |-> w.reset])
         \/ /\ w.used >= Limit
            /\ Answer(t, [NoReply EXCEPT !.kind = "limited"])
            /\ UNCHANGED window

\* Every other way for the request to end.
Uncounted(t) ==
  /\ \E kind \in Replies \ {"headers"} : Answer(t, [NoReply EXCEPT !.kind = kind])
  /\ UNCHANGED window

\* end_http_request
End(t) ==
  /\ pc[t] = "answered"
  /\ active' = [active EXCEPT ![fam[t]] = @ - 1]
  /\ Goto(t, "ended")
  /\ UNCHANGED <<clock, orgVars, slots, paceVars, queued, fam, sampled, reply,
                 left, window, startVars, leakVars, pauseSeen>>

-----------------------------------------------------------------------------
(***************************************************************************)
(* What _send_request publishes before it frees the permit and the slot.    *)
(***************************************************************************)

\* Wrong: the latest response always wins (PublicationsAdvance).
MergeLatest(f, o) == o

\* What is known of the family's window once observation o has come in; the
\* headers of an earlier window say nothing.
Merge(f, o) ==
  IF observed[f] = NoWindow THEN o
  ELSE IF o.reset > observed[f].reset THEN o
  ELSE [observed[f] EXCEPT !.remaining = Min2(@, o.remaining)]

IsOutdated(f, o) == observed[f] # NoWindow /\ o.reset < observed[f].reset

\* Wrong: the pause ends at the reset (SpentWindowBlocks).
ResetPauseExact(toReset) == Min2(toReset, MaxCooldown)

\* A pause until just past the reset of the window.
ResetPause(toReset) == Min2(toReset + 1, MaxCooldown)

\* observe_response with usable headers of the current or a later window.
ObserveWindow(f, o) ==
  LET m       == Merge(f, o)
      toReset == m.reset - clock
      held    == Reserve + active[f]
      pace    == IF toReset <= 0 THEN DefaultInterval
                 ELSE CeilDiv(Min2(toReset, MaxCooldown), m.remaining - held)
  IN  /\ observed' = [observed EXCEPT ![f] = m]
      /\ \/ /\ m.remaining <= held
            /\ next' = [next EXCEPT ![f] =
                          Max2(@, clock + ResetPause(toReset))]
            /\ probe' = [probe EXCEPT ![f] = ProbeInterval]
            /\ interval' = [interval EXCEPT ![f] = DefaultInterval]
         \/ /\ m.remaining > held
            /\ next' = [next EXCEPT ![f] = Max2(@, clock + pace)]
            /\ probe' = [probe EXCEPT ![f] = 0]
            /\ interval' = [interval EXCEPT ![f] = pace]

\* defer: a pause of the family, after a 429.
Defer(f, delay) ==
  IF delay = 0 THEN UNCHANGED <<next, probe>>
  ELSE /\ next' = [next EXCEPT ![f] = Max2(@, clock + Min2(delay, MaxCooldown))]
       /\ probe' = [probe EXCEPT ![f] = Max2(@, ProbeInterval)]

\* OrgThrottle.defer: a pause of every family, after a server-side failure.
DeferOutage(delay) ==
  orgNext' = IF delay = 0 THEN orgNext
             ELSE Max2(orgNext, clock + Min2(delay, MaxCooldown))

Publish(t) ==
  LET f == fam[t]
      o == [remaining |-> reply[t].remaining, reset |-> reply[t].reset]
  IN
  /\ pc[t] = "ended"
  /\ \/ /\ reply[t].kind = "headers"
        /\ ~IsOutdated(f, o)
        /\ ObserveWindow(f, o)
        /\ UNCHANGED orgNext
     \/ /\ reply[t].kind = "bare"
        /\ probe' = [probe EXCEPT ![f] = 0]
        /\ UNCHANGED <<orgNext, next, interval, observed>>
     \/ /\ reply[t].kind = "limited"
        /\ \E delay \in Delays : Defer(f, delay)
        /\ UNCHANGED <<orgNext, interval, observed>>
     \/ /\ reply[t].kind = "outage"
        /\ \E delay \in Delays : DeferOutage(delay)
        /\ UNCHANGED paceVars
     \/ /\ \/ reply[t].kind \in {"malformed", "final"}
           \/ reply[t].kind = "headers" /\ IsOutdated(f, o)
        /\ UNCHANGED <<orgNext, paceVars>>
  /\ reply' = [reply EXCEPT ![t] = NoReply]
  /\ Goto(t, "free")
  /\ UNCHANGED <<clock, permits, slots, queued, active, fam, sampled, left,
                 window, startVars, leakVars, pauseSeen>>

\* release frees the permit first,
ReleasePermit(t) ==
  /\ pc[t] = "free"
  /\ permits' = permits + 1
  /\ Goto(t, "freeSlot")
  /\ UNCHANGED <<clock, orgNext, familyVars, fam, sampled, reply, left, window,
                 startVars, leakVars, pauseSeen>>

\* then the slot.
ReleaseSlot(t) ==
  /\ pc[t] = "freeSlot"
  /\ slots' = [slots EXCEPT ![fam[t]] = @ + 1]
  /\ Goto(t, "idle")
  /\ fam' = [fam EXCEPT ![t] = NoFamily]
  /\ UNCHANGED <<clock, orgVars, paceVars, queued, active, sampled, reply,
                 left, window, startVars, leakVars, pauseSeen>>

-----------------------------------------------------------------------------
\* Somebody sleeps until a deadline.
Sleeping(t) == \/ pc[t] = "pace" /\ clock < next[fam[t]]
               \/ pc[t] = "outage" /\ clock < orgNext

Tick ==
  /\ clock < MaxTime \/ \E t \in Threads : Sleeping(t)
  /\ clock' = clock + 1
  /\ UNCHANGED <<orgVars, familyVars, threadVars, window,
                 startVars, leakVars, pauseSeen>>

Finished ==
  /\ \A t \in Threads : pc[t] = "idle" /\ left[t] = 0
  /\ UNCHANGED vars

ThreadStep(t) ==
  \/ \E f \in Families : Enter(t, f)
  \/ JoinQueue(t)
  \/ Dequeue(t)
  \/ LeaveQueue(t)
  \/ Paced(t)
  \/ OutageOver(t)
  \/ TakePermit(t)
  \/ Check(t)
  \/ Book(t)
  \/ Begin(t)
  \/ Counted(t)
  \/ Uncounted(t)
  \/ End(t)
  \/ Publish(t)
  \/ ReleasePermit(t)
  \/ ReleaseSlot(t)

Next ==
  \/ \E t \in Threads : ThreadStep(t) \/ Interrupted(t) \/ InterruptedInQueue(t)
  \/ Tick
  \/ Finished

\* Threads run, requests end (they have a timeout) and sleeps end.
Fairness == /\ \A t \in Threads : WF_vars(ThreadStep(t))
            /\ WF_vars(Tick)

Spec == Init /\ [][Next]_vars

FairSpec == Spec /\ Fairness

-----------------------------------------------------------------------------
TypeOK ==
  /\ clock \in Nat
  /\ permits \in 0..OrgCap
  /\ orgNext \in Nat
  /\ slots \in [Families -> 0..FamilyCap]
  /\ next \in [Families -> Nat]
  /\ interval \in [Families -> Nat \ {0}]
  /\ probe \in [Families -> Nat]
  /\ observed \in [Families -> Observation \cup {NoWindow}]
  /\ queued \in [Families -> Nat]
  /\ active \in [Families -> Nat]
  /\ pc \in [Threads -> {"idle", "join", "queued", "leave", "pace", "outage",
                         "permit", "check", "book", "booked", "sending",
                         "answered", "ended", "free", "freeSlot"}]
  /\ fam \in [Threads -> Families \cup {NoFamily}]
  /\ sampled \in [Threads -> Nat]
  /\ reply \in [Threads -> Reply]
  /\ left \in [Threads -> Nat]
  /\ window \in [Families -> [reset: Nat, used: Nat]]
  /\ lastStart \in [Families -> Nat \cup {-1}]
  /\ lastPace \in [Families -> Nat]
  /\ lostCounts \in [Families -> Nat]
  /\ lostSlots \in [Families -> 0..FamilyCap]
  /\ pauseSeen \in [Threads -> Nat]

\* The threads that hold a permit, a slot of family f, or are counted as
\* waiting for one, and those whose request of family f is under way.
PermitHolders == {t \in Threads : pc[t] \in {"check", "book", "booked", "sending",
                                             "answered", "ended", "free"}}
SlotHolders(f) == {t \in Threads : fam[t] = f /\ pc[t] \notin {"join", "queued"}}
QueuedThreads(f) == {t \in Threads : fam[t] = f /\ pc[t] \in {"queued", "leave"}}
ActiveThreads(f) == {t \in Threads : fam[t] = f /\ pc[t] \in {"sending", "answered"}}

\* Every permit is free or held by one thread, and so is every slot but those
\* that an interrupt in the queue lost.
PermitsConserved == permits + Cardinality(PermitHolders) = OrgCap

SlotsConserved ==
  \A f \in Families :
    slots[f] + Cardinality(SlotHolders(f)) + lostSlots[f] = FamilyCap

\* The counters that pacing and telemetry read count threads; the one of the
\* queue also those that were interrupted in it, for ever.
CountersExact ==
  \A f \in Families :
    /\ queued[f] = Cardinality(QueuedThreads(f)) + lostCounts[f]
    /\ active[f] = Cardinality(ActiveThreads(f))

\* With failures, retries and interrupts anywhere in acquire, what was acquired is
\* released exactly once, by the thread that acquired it.  The queue before the
\* waiting loop is the one place where something leaks: a count for each
\* interrupt in it, and the slot if the thread had it already; never a permit,
\* and nothing that was not lost there.
ResourcesConserved == PermitsConserved /\ SlotsConserved /\ CountersExact

\* Once a window is known to be down to its reserve, the family's deadline
\* lies past its reset, whatever was observed or booked since.
SpentWindowBlocks ==
  \A f \in Families :
    observed[f] # NoWindow /\ observed[f].remaining <= Reserve
      => next[f] > observed[f].reset

\* A start of a family is booked for no earlier than the latest one and the
\* interval that was in force then, however many threads pass the wait
\* together.
StartsAreSpaced ==
  [][ \A t \in Threads :
        pc[t] = "book" /\ pc'[t] = "booked"
        => lastStart'[fam[t]] >= lastStart[fam[t]] + lastPace[fam[t]] ]_vars

\* No pause is cut short: what one thread publishes never moves a deadline
\* that another one published to an earlier time.
DeadlinesNeverRetreat ==
  [][ /\ orgNext' >= orgNext
      /\ \A f \in Families : next'[f] >= next[f] ]_vars

\* Responses may be observed in any order: the known window never goes back,
\* and the budget known to be left in it never grows.
ObservedAdvances ==
  [][ \A f \in Families :
        observed[f] # NoWindow =>
          /\ observed'[f] # NoWindow
          /\ observed'[f].reset >= observed[f].reset
          /\ observed'[f].reset = observed[f].reset
               => observed'[f].remaining <= observed[f].remaining ]_vars

\* What the threads publish only ever moves the deadlines and the known windows
\* forward, in whatever order they publish it.
PublicationsAdvance == DeadlinesNeverRetreat /\ ObservedAdvances

\* A request that waited for a permit never starts in the pause that was
\* published before it got one, and none starts while a thread that has freed
\* its permit has yet to publish a server failure: the backoff is published
\* "before freeing the slot so a queued request cannot start ahead of it".
NoStartDuringOutage ==
  [][ \A t \in Threads :
        pc[t] = "book" /\ pc'[t] = "booked" =>
          /\ sampled[t] >= pauseSeen[t]
          /\ \A u \in Threads : reply[u].kind = "outage" => u \in PermitHolders ]_vars

\* Nobody waits for ever for a slot, a permit or a deadline: all requests come
\* to an end, unless interrupts in the queue have lost every slot of a family.
\* A thread holds its slot while it waits for a permit, but nobody waits for
\* anything but the end of a request while holding a permit.
RequestsFinish ==
  [](\A f \in Families : lostSlots[f] < FamilyCap)
    => <>(\A t \in Threads : pc[t] = "idle" /\ left[t] = 0)
=============================================================================
