------------------------ MODULE GroupListing_proofs ------------------------
(***************************************************************************)
(* Proofs about RequestRetry, for any limits and any delays, and about      *)
(* GroupListing, which sends such requests, for any page sizes and any      *)
(* number of groups as well.                                               *)
(***************************************************************************)
EXTENDS GroupListing, TLAPS

(* One request. *)

Going == {"waiting", "sending", "returned", "raised"}

\* Before the retries are exhausted each kind of transient failure has one
\* attempt left.
LimitsInv ==
  status \in Going => /\ timeouts < timeoutLimit
                      /\ transients - timeouts < MaxAttempts

BoundsInv == /\ TransientsBounded
             /\ timeouts <= transients

IInv == TypeOK /\ EveryFailureCounts /\ LimitsInv /\ BoundsInv

-----------------------------------------------------------------------------
LEMMA IInvInit == Init => IInv
<1> SUFFICES ASSUME NEW b \in Budgets, Idle(b) PROVE IInv
  BY DEF Init
<1>1. TypeOK
  <2>1. timeoutLimit \in 1..MaxAttempts
    BY LimitsAssumption DEF Idle
  <2>2. QED
    BY <2>1 DEF Idle, TypeOK, Causes
<1>2. EveryFailureCounts /\ LimitsInv /\ BoundsInv
  BY LimitsAssumption
  DEF Idle, EveryFailureCounts, FailedAttempts, LimitsInv, Going, BoundsInv,
      TransientsBounded
<1>3. QED
  BY <1>1, <1>2 DEF IInv

\* The types are kept by the steps of a request, whoever asks for it.
LEMMA TypeStep ==
  ASSUME TypeOK, StartRequest \/ AttemptStep \/ Tick \/ UNCHANGED retryVars
  PROVE  TypeOK'
<1> USE LimitsAssumption DEF TypeOK
<1>1. CASE StartRequest
  <2>1. timeoutLimit' \in 1..MaxAttempts
    BY <1>1 DEF StartRequest, Least
  <2>2. QED
    BY <1>1, <2>1 DEF StartRequest, Causes
<1>2. CASE Acquired \/ Succeeds \/ Fails
  BY <1>2 DEF Acquired, Succeeds, Fails, Budgets, countVars
<1>3. CASE Unauthorized
  BY <1>3 DEF Unauthorized, TryAgain
<1>4. ASSUME NEW delay \in Delays, RateLimited(delay)
      PROVE  TypeOK'
  BY <1>4 DEF RateLimited, TryAgain, Exhausted, Pause, Greatest, Causes
<1>5. ASSUME NEW delay \in Delays, NEW kind \in {"server_error", "transport"},
             ServerSide(kind, delay)
      PROVE  TypeOK'
  BY <1>5 DEF ServerSide, TryAgain, Exhausted, Pause, Greatest, Causes
<1>6. ASSUME NEW delay \in Delays, ReadTimeout(delay)
      PROVE  TypeOK'
  BY <1>6 DEF ReadTimeout, TryAgain, Exhausted, Pause, Greatest, Causes
<1>7. CASE Tick
  BY <1>7 DEF Tick, countVars
<1>8. CASE UNCHANGED retryVars
  BY <1>8 DEF retryVars, countVars
<1>9. QED
  BY <1>1, <1>2, <1>3, <1>4, <1>5, <1>6, <1>7, <1>8 DEF AttemptStep

\* So are the sums of the counters.
LEMMA CountStep ==
  ASSUME IInv, StartRequest \/ AttemptStep \/ Tick \/ UNCHANGED retryVars
  PROVE  EveryFailureCounts' /\ LimitsInv' /\ BoundsInv'
<1> USE LimitsAssumption
    DEF IInv, TypeOK, EveryFailureCounts, FailedAttempts, LimitsInv, Going,
        BoundsInv, TransientsBounded
<1>1. CASE StartRequest
  BY <1>1 DEF StartRequest, Least
<1>2. CASE Acquired \/ Succeeds \/ Fails
  BY <1>2 DEF Acquired, Succeeds, Fails, countVars
<1>3. CASE Unauthorized
  BY <1>3 DEF Unauthorized, TryAgain
<1>4. ASSUME NEW delay \in Delays, RateLimited(delay)
      PROVE  EveryFailureCounts' /\ LimitsInv' /\ BoundsInv'
  BY <1>4 DEF RateLimited, TryAgain, Exhausted
<1>5. ASSUME NEW delay \in Delays, NEW kind \in {"server_error", "transport"},
             ServerSide(kind, delay)
      PROVE  EveryFailureCounts' /\ LimitsInv' /\ BoundsInv'
  BY <1>5 DEF ServerSide, TryAgain, Exhausted
<1>6. ASSUME NEW delay \in Delays, ReadTimeout(delay)
      PROVE  EveryFailureCounts' /\ LimitsInv' /\ BoundsInv'
  BY <1>6 DEF ReadTimeout, TryAgain, Exhausted
<1>7. CASE Tick
  BY <1>7 DEF Tick, countVars
<1>8. CASE UNCHANGED retryVars
  BY <1>8 DEF retryVars, countVars
<1>9. QED
  BY <1>1, <1>2, <1>3, <1>4, <1>5, <1>6, <1>7, <1>8 DEF AttemptStep

LEMMA Invariance == Spec => []IInv
<1>1. IInv /\ [Next]_retryVars => IInv'
  BY TypeStep, CountStep DEF IInv, Next, Ended
<1>2. QED
  BY IInvInit, <1>1, PTL DEF Spec

\* The counters of the retry loop stay within their types.
THEOREM TypeCorrect == Spec => []TypeOK
<1>1. IInv => TypeOK
  BY DEF IInv
<1>2. QED
  BY <1>1, Invariance, PTL

\* No failure is retried without a counter that pays for it.
THEOREM FailuresCount == Spec => []EveryFailureCounts
<1>1. IInv => EveryFailureCounts
  BY DEF IInv
<1>2. QED
  BY <1>1, Invariance, PTL

\* Whatever the order in which read timeouts and other transient failures
\* come, they end the request before their two limits are used up.
THEOREM TransientsAreBounded == Spec => []TransientsBounded
<1>1. IInv => TransientsBounded
  BY DEF IInv, BoundsInv
<1>2. QED
  BY <1>1, Invariance, PTL

\* No sequence of mixed failures evades the limits of the retry loop.
THEOREM RetriesStayLimited == Spec => []RetriesAreLimited
<1>1. EveryFailureCounts /\ TransientsBounded => RetriesAreLimited
  BY DEF RetriesAreLimited
<1>2. QED
  BY <1>1, FailuresCount, TransientsAreBounded, PTL

-----------------------------------------------------------------------------
(* The listing. *)

PageTypes ==
  /\ TypeOK
  /\ limit \in Nat \ {0}
  /\ streaming \in BOOLEAN
  /\ cursor \in 0..Total
  /\ outcome \in {"running", "complete", "failed"}

\* What was yielded are the groups before the cursor, and the listing only
\* starts again before anything was yielded.
RowsInv == /\ rows = Abstract!Prefix(cursor)
           /\ ~streaming => cursor = 0

\* The first page consumed the budget, so no later request is limited by it.
BudgetInv ==
  /\ budget # "none"
  /\ status = "returned" \/ streaming => budget = "consumed"
  /\ streaming /\ status # "idle" /\ status # "returned"
       => timeoutLimit = MaxAttempts

\* Requests that have not exhausted their retries have not used up their read
\* timeouts, and those that did because of them have.
TimeoutInv ==
  /\ status \in {"waiting", "sending", "returned", "raised"}
       => cause = "none" /\ timeouts < timeoutLimit
  /\ status = "exhausted" /\ cause = "read_timeout" => timeouts = timeoutLimit
  /\ status = "idle" /\ streaming => cause = "none"

ListingInv == PageTypes /\ RowsInv /\ BudgetInv /\ TimeoutInv

-----------------------------------------------------------------------------
\* A page continues the rows where the cursor stands.
LEMMA PageContinues ==
  ASSUME NEW n \in Nat, NEW k \in Nat
  PROVE  Abstract!Prefix(n) \o [i \in 1..k |-> n + i] = Abstract!Prefix(n + k)
<1>1. /\ Abstract!Prefix(n) \in Seq(Nat) /\ Len(Abstract!Prefix(n)) = n
      /\ [i \in 1..k |-> n + i] \in Seq(Nat)
      /\ Len([i \in 1..k |-> n + i]) = k
  BY DEF Abstract!Prefix
<1>2. QED
  BY <1>1 DEF Abstract!Prefix

LEMMA ListingInvInit == GroupsInit => ListingInv
<1> SUFFICES ASSUME GroupsInit PROVE ListingInv
  OBVIOUS
<1>1. PageTypes
  <2>1. timeoutLimit \in 1..MaxAttempts
    BY LimitsAssumption DEF GroupsInit, Idle
  <2>2. TypeOK
    BY <2>1 DEF GroupsInit, Idle, TypeOK, Budgets, Causes
  <2>3. PageSize \in Nat \ {0}
    BY PagesAssumption
  <2>4. 0 \in 0..Total
    BY TotalAssumption
  <2>5. QED
    BY <2>2, <2>3, <2>4 DEF GroupsInit, PageTypes
<1>2. RowsInv
  BY DEF GroupsInit, RowsInv, Abstract!Prefix
<1>3. BudgetInv /\ TimeoutInv
  BY DEF GroupsInit, Idle, BudgetInv, TimeoutInv
<1>4. QED
  BY <1>1, <1>2, <1>3 DEF ListingInv
LEMMA PageTypesStep ==
  ASSUME ListingInv, [GroupsNext]_vars
  PROVE  PageTypes'
<1> USE LimitsAssumption, TotalAssumption DEF ListingInv, PageTypes
<1>1. CASE RequestPage \/ Attempt \/ Finished \/ UNCHANGED vars
  <2>1. StartRequest \/ AttemptStep \/ Tick \/ UNCHANGED retryVars
    BY <1>1 DEF RequestPage, Attempt, Finished, vars
  <2>2. UNCHANGED pageVars
    BY <1>1 DEF RequestPage, Attempt, Finished, vars
  <2>3. QED
    BY <2>1, <2>2, TypeStep DEF pageVars
<1>2. CASE PageArrives
  <2>1. cursor' \in 0..Total
    BY <1>2 DEF PageArrives, PageLength, Least
  <2>2. TypeOK'
    BY <1>2 DEF PageArrives, TypeOK, countVars
  <2>3. QED
    BY <1>2, <2>1, <2>2 DEF PageArrives
<1>3. CASE LastPage \/ GiveUp
  BY <1>3 DEF LastPage, GiveUp, TypeOK, retryVars, countVars
<1>4. CASE FallBack
  <2>1. Smaller \subseteq Nat \ {0}
    <3>1. ASSUME NEW i \in DOMAIN Divisors
          PROVE  Greatest(PageSize \div Divisors[i], 1) \in Nat \ {0}
      <4>1. Divisors[i] \in Nat \ {0} /\ PageSize \in Nat
        BY PagesAssumption
      <4>2. PageSize \div Divisors[i] \in Nat
        BY <4>1
      <4>3. QED
        BY <4>2 DEF Greatest
    <3>2. QED
      BY <3>1 DEF Smaller, PageSizes
  <2>2. TypeOK'
    BY <1>4 DEF FallBack, TypeOK, Budgets, countVars
  <2>3. QED
    BY <1>4, <2>1, <2>2 DEF FallBack
<1>5. QED
  BY <1>1, <1>2, <1>3, <1>4 DEF GroupsNext, ListingStep

LEMMA RowsStep ==
  ASSUME ListingInv, [GroupsNext]_vars
  PROVE  RowsInv'
<1> USE DEF ListingInv, RowsInv
<1>1. CASE RequestPage \/ Attempt \/ Finished \/ UNCHANGED vars
  BY <1>1 DEF RequestPage, Attempt, Finished, vars, pageVars, Abstract!Prefix
<1>2. CASE PageArrives
  <2>1. cursor \in Nat /\ PageLength \in Nat
    BY TotalAssumption DEF PageTypes, PageLength, Least
  <2>2. rows' = Abstract!Prefix(cursor + PageLength)
    BY <1>2, <2>1, PageContinues DEF PageArrives
  <2>3. QED
    BY <1>2, <2>2 DEF PageArrives, Abstract!Prefix
<1>3. CASE LastPage \/ GiveUp
  BY <1>3 DEF LastPage, GiveUp, Abstract!Prefix
<1>4. CASE FallBack
  BY <1>4 DEF FallBack, MayFallBack, Abstract!Prefix
<1>5. QED
  BY <1>1, <1>2, <1>3, <1>4 DEF GroupsNext, ListingStep

LEMMA BudgetStep ==
  ASSUME ListingInv, [GroupsNext]_vars
  PROVE  BudgetInv' /\ TimeoutInv'
<1> USE LimitsAssumption
    DEF ListingInv, PageTypes, TypeOK, Budgets, Causes, BudgetInv, TimeoutInv
<1>1. CASE RequestPage
  BY <1>1 DEF RequestPage, StartRequest, Least, pageVars
<1>2. CASE Succeeds /\ UNCHANGED pageVars
  BY <1>2 DEF Succeeds, pageVars, countVars
<1>3. ASSUME NEW delay \in Delays, RateLimited(delay), UNCHANGED pageVars
      PROVE  BudgetInv' /\ TimeoutInv'
  BY <1>3 DEF RateLimited, TryAgain, Exhausted, pageVars
<1>4. ASSUME NEW delay \in Delays, NEW kind \in {"server_error", "transport"},
             ServerSide(kind, delay), UNCHANGED pageVars
      PROVE  BudgetInv' /\ TimeoutInv'
  BY <1>4 DEF ServerSide, TryAgain, Exhausted, pageVars
<1>5. ASSUME NEW delay \in Delays, ReadTimeout(delay), UNCHANGED pageVars
      PROVE  BudgetInv' /\ TimeoutInv'
  BY <1>5 DEF ReadTimeout, TryAgain, Exhausted, pageVars
<1>6. CASE PageArrives
  BY <1>6 DEF PageArrives, countVars
<1>7. CASE LastPage \/ GiveUp \/ Finished \/ UNCHANGED vars
  BY <1>7 DEF LastPage, GiveUp, Finished, vars, pageVars, retryVars, countVars
<1>8. CASE FallBack
  BY <1>8 DEF FallBack, MayFallBack, countVars
<1>9. CASE (Acquired \/ Fails \/ Unauthorized \/ Tick) /\ UNCHANGED pageVars
  <2>1. /\ status' \in {"waiting", "sending", "raised"}
        /\ status \in {"waiting", "sending"}
        /\ UNCHANGED <<budget, timeoutLimit, cause, timeouts, streaming>>
    BY <1>9 DEF Acquired, Fails, Unauthorized, TryAgain, Tick, pageVars,
                countVars
  <2>2. QED
    BY <2>1
<1>10. QED
  BY <1>1, <1>2, <1>3, <1>4, <1>5, <1>6, <1>7, <1>8, <1>9
  DEF GroupsNext, ListingStep, Attempt, AttemptStep

\* The counters are those of the latest request; between two requests they
\* stay as they are.
LEMMA RetriesStep ==
  ASSUME IInv, [GroupsNext]_vars
  PROVE  IInv'
<1>1. CASE RequestPage \/ Attempt \/ LastPage \/ GiveUp \/ Finished \/ UNCHANGED vars
  <2>1. StartRequest \/ AttemptStep \/ Tick \/ UNCHANGED retryVars
    BY <1>1 DEF RequestPage, Attempt, LastPage, GiveUp, Finished, vars
  <2>2. QED
    BY <2>1, TypeStep, CountStep DEF IInv
<1>2. CASE PageArrives \/ FallBack
  <2>1. /\ status' = "idle" /\ budget' \in Budgets
        /\ UNCHANGED <<timeoutLimit, elapsed, wait, attempt, countVars, cause,
                       firstLimited>>
    BY <1>2 DEF PageArrives, FallBack, IInv, TypeOK, Budgets
  <2>2. TypeOK'
    BY <2>1 DEF IInv, TypeOK, countVars
  <2>3. EveryFailureCounts' /\ LimitsInv' /\ BoundsInv'
    BY <2>1 DEF IInv, EveryFailureCounts, LimitsInv, Going, BoundsInv,
                TransientsBounded, countVars
  <2>4. QED
    BY <2>2, <2>3 DEF IInv
<1>3. QED
  BY <1>1, <1>2 DEF GroupsNext, ListingStep

\* After it has failed the listing stays as it is, and if the first page's read
\* timeouts are why, there is no smaller page size.
FailedInv ==
  outcome = "failed" =>
    /\ status \in {"raised", "exhausted"}
    /\ status = "raised" => cause = "none"
    /\ cause = "read_timeout" /\ ~streaming => Smaller = {}

LEMMA FailedStep ==
  ASSUME ListingInv, FailedInv, [GroupsNext]_vars
  PROVE  FailedInv'
<1> USE DEF FailedInv
<1>1. CASE GiveUp
  <2>1. UNCHANGED <<status, cause, streaming, limit>>
    BY <1>1 DEF GiveUp, retryVars
  <2>2. Smaller' = Smaller
    BY <2>1 DEF Smaller, PageSizes
  <2>3. status \in {"raised", "exhausted"} /\ ~MayFallBack
    BY <1>1 DEF GiveUp
  <2>4. status = "raised" => cause = "none"
    BY DEF ListingInv, TimeoutInv
  <2>5. cause = "read_timeout" /\ ~streaming => Smaller = {}
    BY <2>3, <2>4 DEF MayFallBack
  <2>6. QED
    BY <2>1, <2>2, <2>3, <2>4, <2>5
<1>2. CASE Attempt
  <2>1. outcome' = outcome /\ status \in {"waiting", "sending"}
    BY <1>2 DEF Attempt, AttemptStep, Acquired, Succeeds, Fails, Unauthorized,
                RateLimited, ServerSide, ReadTimeout, Tick, pageVars
  <2>2. QED
    BY <2>1
<1>3. CASE RequestPage \/ PageArrives \/ LastPage \/ FallBack
  BY <1>3 DEF RequestPage, PageArrives, LastPage, FallBack, pageVars
<1>4. CASE Finished \/ UNCHANGED vars
  <2>1. UNCHANGED <<outcome, status, cause, streaming, limit>>
    BY <1>4 DEF Finished, vars, pageVars, retryVars
  <2>2. Smaller' = Smaller
    BY <2>1 DEF Smaller, PageSizes
  <2>3. QED
    BY <2>1, <2>2
<1>5. QED
  BY <1>1, <1>2, <1>3, <1>4 DEF GroupsNext, ListingStep

LEMMA ListingInvariance == GroupsSpec => []ListingInv
<1>1. ListingInv /\ [GroupsNext]_vars => ListingInv'
  BY PageTypesStep, RowsStep, BudgetStep DEF ListingInv
<1>2. QED
  BY ListingInvInit, <1>1, PTL DEF GroupsSpec

-----------------------------------------------------------------------------
\* The types of the listing, with the rows a sequence of groups.
THEOREM GroupsTypeCorrect == GroupsSpec => []GroupsTypeOK
<1>1. ListingInv => GroupsTypeOK
  <2>1. ASSUME NEW n \in 0..Total
        PROVE  Abstract!Prefix(n) \in Seq(1..Total)
    BY TotalAssumption DEF Abstract!Prefix
  <2>2. QED
    BY <2>1 DEF ListingInv, PageTypes, RowsInv, GroupsTypeOK
<1>2. QED
  BY <1>1, ListingInvariance, PTL

\* The initial read timeout budget never limits a page after the first one.
THEOREM BudgetIsForTheFirstPage == GroupsSpec => []BudgetSparesLaterPages
<1>1. ListingInv => BudgetSparesLaterPages
  BY DEF ListingInv, PageTypes, TypeOK, BudgetInv, TimeoutInv,
         BudgetSparesLaterPages
<1>2. QED
  BY <1>1, ListingInvariance, PTL

\* The listing restarts only while it has yielded nothing, and never with a page
\* size that it has tried (groups: the fallback is for the first page alone).
THEOREM RestartsAskForLess == GroupsSpec => RestartsShrink
<1>1. ListingInv /\ [GroupsNext]_vars
      => [status = "exhausted" /\ status' = "idle" => rows = <<>> /\ limit' < limit]_vars
  <2> SUFFICES ASSUME ListingInv, [GroupsNext]_vars,
                      status = "exhausted", status' = "idle"
               PROVE  rows = <<>> /\ limit' < limit
    OBVIOUS
  <2>1. FallBack
    BY DEF GroupsNext, ListingStep, RequestPage, StartRequest, Attempt,
           AttemptStep, Acquired, Succeeds, Fails, Unauthorized, RateLimited,
           ServerSide, ReadTimeout, Tick, PageArrives, LastPage, GiveUp,
           Finished, vars, retryVars
  <2>2. ~streaming /\ limit' < limit
    BY <2>1 DEF FallBack, MayFallBack, Smaller
  <2>3. rows = Abstract!Prefix(0)
    BY <2>2 DEF ListingInv, RowsInv
  <2>4. Abstract!Prefix(0) = <<>>
    BY DEF Abstract!Prefix
  <2>5. QED
    BY <2>2, <2>3, <2>4
<1>2. QED
  BY <1>1, ListingInvariance, PTL DEF GroupsSpec, RestartsShrink

\* Retries, the budget and the fallback implement the promise of a listing:
\* every group once and in order, and complete only with all of them.
THEOREM ListingImplemented == GroupsSpec => ListsEveryGroupOnce
<1>1. GroupsInit => Abstract!Init
  BY DEF GroupsInit, Abstract!Init
<1>2. ListingInv /\ [GroupsNext]_vars
      => [Abstract!Next]_(Abstract!listingVars)
  <2> SUFFICES ASSUME ListingInv, [GroupsNext]_vars
               PROVE  [Abstract!Next]_(Abstract!listingVars)
    OBVIOUS
  <2>0. cursor \in 0..Total /\ rows = Abstract!Prefix(cursor)
        /\ Len(rows) = cursor
    BY TotalAssumption DEF ListingInv, PageTypes, RowsInv, Abstract!Prefix
  <2>1. CASE PageArrives
    <3>1. cursor' \in cursor..Total
      BY <2>1, <2>0, TotalAssumption DEF PageArrives, PageLength, Least,
         ListingInv, PageTypes
    <3>2. rows' = Abstract!Prefix(cursor')
      BY RowsStep DEF RowsInv, Abstract!Prefix
    <3>3. QED
      BY <2>0, <2>1, <3>1, <3>2
      DEF PageArrives, Abstract!Next, Abstract!Deliver
  <2>2. CASE LastPage
    BY <2>0, <2>2 DEF LastPage, Abstract!Next, Abstract!Complete
  <2>3. CASE GiveUp
    BY <2>3 DEF GiveUp, Abstract!Next, Abstract!Fail
  <2>4. CASE RequestPage \/ Attempt \/ FallBack \/ Finished \/ UNCHANGED vars
    BY <2>4 DEF RequestPage, Attempt, FallBack, Finished, vars, pageVars,
                Abstract!listingVars
  <2>5. QED
    BY <2>1, <2>2, <2>3, <2>4 DEF GroupsNext, ListingStep
<1>3. QED
  BY <1>1, <1>2, ListingInvariance, PTL
  DEF GroupsSpec, ListsEveryGroupOnce, Abstract!Spec

\* Over all pages and restarts of a listing, no request evades the limits of
\* the retry loop: a failure is never retried for free, and neither the budget
\* of the first page nor a fallback gives read timeouts a second supply.
THEOREM RetriesOfPagesStayLimited == GroupsSpec => []RetriesAreLimited
<1>1. GroupsInit => IInv
  BY IInvInit DEF GroupsInit, Init, Budgets
<1>2. IInv /\ [GroupsNext]_vars => IInv'
  BY RetriesStep
<1>3. IInv => RetriesAreLimited
  BY DEF IInv, BoundsInv, RetriesAreLimited
<1>4. QED
  BY <1>1, <1>2, <1>3, PTL DEF GroupsSpec

\* The listing fails on the read timeouts of its first page only once it has
\* asked with the smallest of its page sizes.
THEOREM SmallestSizeComesFirst == GroupsSpec => []SmallestSizeIsTried
<1>1. GroupsInit => FailedInv
  BY DEF GroupsInit, FailedInv
<1>2. ListingInv /\ FailedInv /\ [GroupsNext]_vars => FailedInv'
  BY FailedStep
<1>3. ListingInv /\ FailedInv => SmallestSizeIsTried
  <2>1. ASSUME PageTypes, Smaller = {}, NEW s \in PageSizes
        PROVE  limit <= s
    <3>1. s \in Nat
      BY PagesAssumption DEF PageSizes, Greatest
    <3>2. QED
      BY <2>1, <3>1 DEF Smaller, PageTypes
  <2>2. QED
    BY <2>1 DEF ListingInv, FailedInv, SmallestSizeIsTried
<1>4. QED
  BY <1>1, <1>2, <1>3, ListingInvariance, PTL DEF GroupsSpec
=============================================================================
