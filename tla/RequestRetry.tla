---------------------------- MODULE RequestRetry ----------------------------
(***************************************************************************)
(* The retry loop of one request (OktaRESTClient._send_request in           *)
(* utils/http.py).  Every attempt waits for the throttle, is sent and ends  *)
(* in one of the ways below; five counters and the time since the request   *)
(* came in decide whether another attempt follows.                          *)
(*                                                                         *)
(* What the throttle does with other requests is seen from here as waiting  *)
(* for any time.  Delays are what is left of _retry_delay after the clamps. *)
(***************************************************************************)
EXTENDS Integers

CONSTANTS
  MaxAttempts,      \* _max_attempts
  InitialTimeouts,  \* max_attempts of an InitialReadTimeoutBudget
  MaxElapsed,       \* _rate_limit_max_elapsed_seconds
  Delays,           \* the pauses that a failure may call for
  MaxTime           \* BOUND: ticks of one request that no pause calls for

\* The constructors reject attempt limits below one and no time for retries.
ASSUME LimitsAssumption == /\ MaxAttempts \in Nat \ {0}
                           /\ InitialTimeouts \in Nat \ {0}
                           /\ MaxElapsed \in Nat \ {0}
                           /\ Delays \subseteq Nat
                           /\ MaxTime \in Nat

VARIABLES
  status,        \* where the request stands
  budget,        \* the initial_read_timeout_budget that the caller passes
  timeoutLimit,  \* read_timeout_max_attempts
  elapsed,       \* the time since started_at
  wait,          \* the time until the throttle lets the next attempt start
  attempt,
  rateLimits,    \* rate_limit_attempt
  transients,    \* transient_attempt
  timeouts,      \* read_timeout_attempt
  authRetried,   \* unauthorized_retry_attempted
  cause,         \* the failure behind an OktaRetryExhaustedError
  firstLimited   \* history: elapsed at the first 429, or -1

countVars == <<rateLimits, transients, timeouts, authRetried>>
retryVars == <<status, budget, timeoutLimit, elapsed, wait, attempt, countVars,
               cause, firstLimited>>

Budgets == {"none", "fresh", "consumed"}
Causes == {"none", "rate_limit", "server_error", "transport", "read_timeout"}

-----------------------------------------------------------------------------
Least(a, b) == IF a < b THEN a ELSE b
Greatest(a, b) == IF a < b THEN b ELSE a

\* No request is under way; the caller's budget is b.
Idle(b) ==
  /\ status = "idle"
  /\ budget = b
  /\ timeoutLimit = MaxAttempts
  /\ elapsed = 0
  /\ wait = 0
  /\ attempt = 0
  /\ rateLimits = 0
  /\ transients = 0
  /\ timeouts = 0
  /\ authRetried = FALSE
  /\ cause = "none"
  /\ firstLimited = -1

\* _send_request begins.  A budget that no response has consumed yet limits
\* the read timeouts of this request.
StartRequest ==
  /\ status = "idle"
  /\ status' = "waiting"
  /\ timeoutLimit' = IF budget = "fresh" THEN Least(InitialTimeouts, MaxAttempts)
                                         ELSE MaxAttempts
  /\ elapsed' = 0
  /\ attempt' = 1
  /\ rateLimits' = 0
  /\ transients' = 0
  /\ timeouts' = 0
  /\ authRetried' = FALSE
  /\ cause' = "none"
  /\ firstLimited' = -1
  /\ UNCHANGED <<budget, wait>>

\* _throttle.acquire returns; starts of one family are spaced.
Acquired ==
  /\ status = "waiting"
  /\ wait = 0
  /\ status' = "sending"
  /\ wait' = 1
  /\ UNCHANGED <<budget, timeoutLimit, elapsed, attempt, countVars, cause,
                 firstLimited>>

\* The loop goes round once more.
TryAgain ==
  /\ status' = "waiting"
  /\ attempt' = attempt + 1
  /\ UNCHANGED cause

\* OktaRetryExhaustedError is raised from the failure c.
Exhausted(c) ==
  /\ status' = "exhausted"
  /\ cause' = c
  /\ UNCHANGED attempt

\* The throttle makes the next attempt wait.
Pause(delay) == wait' = Greatest(wait, delay)

\* Wrong: the budget is not consumed (BudgetSparesLaterPages).
SucceedsKeepsBudget ==
  /\ status = "sending"
  /\ status' = "returned"
  /\ UNCHANGED <<budget, timeoutLimit, elapsed, wait, attempt, countVars, cause,
                 firstLimited>>

Succeeds ==
  /\ status = "sending"
  /\ status' = "returned"
  /\ budget' = IF budget = "fresh" THEN "consumed" ELSE budget
  /\ UNCHANGED <<timeoutLimit, elapsed, wait, attempt, countVars, cause,
                 firstLimited>>

\* A status that is not retried, a 401 that the handler does not retry or a
\* second one, or any other exception.
Fails ==
  /\ status = "sending"
  /\ status' = "raised"
  /\ UNCHANGED <<budget, timeoutLimit, elapsed, wait, attempt, countVars, cause,
                 firstLimited>>

\* The first 401, for which handle_unauthorized decides to retry.
Unauthorized ==
  /\ status = "sending"
  /\ ~authRetried
  /\ authRetried' = TRUE
  /\ TryAgain
  /\ UNCHANGED <<budget, timeoutLimit, elapsed, wait, rateLimits, transients,
                 timeouts, firstLimited>>

\* HTTP 429: limited by time, not by a number of attempts.  The family pauses
\* even if this request is given up.
RateLimited(delay) ==
  /\ status = "sending"
  /\ rateLimits' = rateLimits + 1
  /\ Pause(delay)
  /\ firstLimited' = IF firstLimited = -1 THEN elapsed ELSE firstLimited
  /\ \/ elapsed + delay >= MaxElapsed /\ Exhausted("rate_limit")
     \/ elapsed + delay < MaxElapsed /\ TryAgain
  /\ UNCHANGED <<budget, timeoutLimit, elapsed, transients, timeouts,
                 authRetried>>

\* HTTP 5xx, or a transport failure that is no read timeout: limited by the
\* number of transient failures of any kind.
ServerSide(kind, delay) ==
  /\ status = "sending"
  /\ transients' = transients + 1
  /\ \/ transients' >= MaxAttempts /\ Exhausted(kind) /\ UNCHANGED wait
     \/ transients' < MaxAttempts /\ TryAgain /\ Pause(delay)
  /\ UNCHANGED <<budget, timeoutLimit, elapsed, rateLimits, timeouts,
                 authRetried, firstLimited>>

\* Wrong: one read timeout too many is retried (RetriesAreLimited).
ReadTimeoutOnceMore(delay) ==
  /\ status = "sending"
  /\ transients' = transients + 1
  /\ timeouts' = timeouts + 1
  /\ \/ timeouts' > timeoutLimit /\ Exhausted("read_timeout") /\ UNCHANGED wait
     \/ timeouts' <= timeoutLimit /\ TryAgain /\ Pause(delay)
  /\ UNCHANGED <<budget, timeoutLimit, elapsed, rateLimits, authRetried,
                 firstLimited>>

\* A read timeout: limited by the number of read timeouts alone.
ReadTimeout(delay) ==
  /\ status = "sending"
  /\ transients' = transients + 1
  /\ timeouts' = timeouts + 1
  /\ \/ timeouts' >= timeoutLimit /\ Exhausted("read_timeout") /\ UNCHANGED wait
     \/ timeouts' < timeoutLimit /\ TryAgain /\ Pause(delay)
  /\ UNCHANGED <<budget, timeoutLimit, elapsed, rateLimits, authRetried,
                 firstLimited>>

\* Time passes while the request waits or is under way.
Tick ==
  /\ status \in {"waiting", "sending"}
  /\ wait > 0 \/ elapsed < MaxTime
  /\ elapsed' = elapsed + 1
  /\ wait' = IF wait = 0 THEN 0 ELSE wait - 1
  /\ UNCHANGED <<status, budget, timeoutLimit, attempt, countVars, cause,
                 firstLimited>>

AttemptStep ==
  \/ Acquired
  \/ Succeeds
  \/ Fails
  \/ Unauthorized
  \/ \E delay \in Delays : \/ RateLimited(delay)
                           \/ ServerSide("server_error", delay)
                           \/ ServerSide("transport", delay)
                           \/ ReadTimeout(delay)

\* The request has an outcome.
Over == status \in {"returned", "raised", "exhausted"}

-----------------------------------------------------------------------------
\* One request, with or without a budget.
Init == \E b \in Budgets : Idle(b)

Ended == Over /\ UNCHANGED retryVars

Next == StartRequest \/ AttemptStep \/ Tick \/ Ended

Spec == Init /\ [][Next]_retryVars

-----------------------------------------------------------------------------
TypeOK ==
  /\ status \in {"idle", "waiting", "sending", "returned", "raised", "exhausted"}
  /\ budget \in Budgets
  /\ timeoutLimit \in 1..MaxAttempts
  /\ elapsed \in Nat
  /\ wait \in Nat
  /\ attempt \in Nat
  /\ rateLimits \in Nat
  /\ transients \in Nat
  /\ timeouts \in Nat
  /\ authRetried \in BOOLEAN
  /\ cause \in Causes
  /\ firstLimited \in Nat \cup {-1}

\* The attempts that end in a failure: all before the latest, and the latest
\* one if it exhausted the retries.
FailedAttempts == IF status = "exhausted" THEN attempt ELSE attempt - 1

\* Every failed attempt of a request is paid for by exactly one counter, the
\* retry after a 401 at most once: no failure is retried for free.
EveryFailureCounts ==
  status # "idle" =>
    FailedAttempts = rateLimits + transients + (IF authRetried THEN 1 ELSE 0)

\* Read timeouts and the other transient failures are limited by different
\* counters, of which one counts both.  Together they still end: the two
\* limits add up in the worst order, and no order is worse.  The others alone
\* never get more than _max_attempts, however many read timeouts are mixed in.
TransientsBounded == /\ transients < MaxAttempts + timeoutLimit
                     /\ transients - timeouts <= MaxAttempts

\* No sequence of mixed failures evades the limits of the retry loop.
RetriesAreLimited == EveryFailureCounts /\ TransientsBounded

\* http.py: "Wall-clock budget for retrying a single request that keeps
\* receiving 429."
KeepsReceiving429 ==
  cause = "rate_limit" =>
    \E delay \in Delays : elapsed + delay - firstLimited >= MaxElapsed
=============================================================================
