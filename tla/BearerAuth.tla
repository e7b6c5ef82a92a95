----------------------------- MODULE BearerAuth -----------------------------
(***************************************************************************)
(* The bearer token shared by every request thread of the collector        *)
(* (OktaBearerAuth in utils/auth.py).  A thread that is about to send a    *)
(* request asks for a token; a thread whose request came back with a 401   *)
(* asks whether the token was at fault.  One mutex guards the cache; the   *)
(* first look at the cache is made without it, and the network call that   *)
(* fetches a new token is made while holding it.                           *)
(*                                                                         *)
(* Tokens are numbered in the order in which Okta issues them.  Clock      *)
(* readings are natural numbers.                                           *)
(***************************************************************************)
EXTENDS Integers, FiniteSets

CONSTANTS
  Threads,      \* the request threads
  NoToken,      \* None: nothing cached, nothing carried, nothing in flight
  NoThread,     \* nobody holds the mutex
  Skew,         \* refresh_skew_seconds
  Cooldown,     \* refresh_failure_cooldown_seconds
  ExpiresIn,    \* the values of expires_in that Okta may answer with
  MaxLatency,   \* BOUND: ticks between issuing a token and its arrival
  MaxTime,      \* BOUND: the last clock reading
  MaxIssued,    \* BOUND: tokens that Okta issues
  MaxRequests   \* BOUND: requests of one thread

ASSUME ThreadsAssumption == NoThread \notin Threads

\* The constructor rejects a negative or infinite skew or cooldown.
ASSUME SettingsAssumption == /\ Skew \in Nat
                             /\ Cooldown \in Nat
                             /\ ExpiresIn \subseteq Int

ASSUME BoundsAssumption == /\ MaxLatency \in Nat
                           /\ MaxTime \in Nat
                           /\ MaxIssued \in Nat
                           /\ MaxRequests \in Nat

\* A lifetime above zero leaves room for the latency twice, and so does the
\* skew once: the token request times out after 10 seconds, the skew is 300
\* seconds and Okta's lifetimes are an hour.
ASSUME LatencyAssumption ==
  \A expires_in \in ExpiresIn :
    \/ expires_in <= 0
    \/ MaxLatency <= Skew /\ MaxLatency <= expires_in \div 2

\* A cache entry (_CachedBearerToken) and a token response under way.
Entry == [token: Nat, refresh_at: Nat, expires_at: Nat]
Grant == [token: Nat, lifetime: Nat, at: Nat]

ASSUME NoTokenAssumption == /\ NoToken \notin Nat
                            /\ NoToken \notin Entry
                            /\ NoToken \notin Grant

Classification == {"invalid_token", "non_token", "unknown"}

VARIABLES
  clock,          \* the monotonic clock
  cached,         \* _cached_token
  nextAttempt,    \* _next_refresh_attempt_at
  lock,           \* the thread inside the locked region of _access_token
  captured,       \* its local cached_token, read before the fetch
  grant,          \* the token response on its way to it
  pc,             \* where each thread stands
  sampled,        \* now, as the lock-free look read it
  held,           \* the token of the thread's latest request
  blame,          \* how the 401 that the thread must handle is classified
  retried,        \* unauthorized_retry_attempted of the thread's request
  left,           \* requests the thread has still to make
  issued,         \* Okta: number of tokens issued
  serverExpires,  \* Okta: when it stops accepting each token
  blamed          \* history: tokens that some 401 blamed

mutexVars  == <<lock, captured, grant>>
cacheVars  == <<cached, nextAttempt>>
threadVars == <<pc, sampled, held, blame, retried, left>>
serverVars == <<issued, serverExpires>>
vars == <<clock, cacheVars, mutexVars, threadVars, serverVars, blamed>>

-----------------------------------------------------------------------------
Max0(n) == IF n < 0 THEN 0 ELSE n

\* Wrong: the skew is not limited by the lifetime (TypeOK), there is none
\* (FreshIsAccepted).
RefreshSkewUnlimited(lifetime) == Skew
RefreshSkewNone(lifetime) == 0

\* refresh_skew = min(self._refresh_skew_seconds, lifetime / 2)
RefreshSkew(lifetime) ==
  IF Skew < lifetime \div 2 THEN Skew ELSE lifetime \div 2

IsFresh(entry, now) == entry # NoToken /\ now < entry.refresh_at

IsUnexpired(entry, now) == entry # NoToken /\ now < entry.expires_at

\* The entry made from a token response that is read at time now.
NewEntry(g, now) ==
  [token      |-> g.token,
   refresh_at |-> now + g.lifetime - RefreshSkew(g.lifetime),
   expires_at |-> now + g.lifetime]

Init ==
  /\ clock = 0
  /\ cached = NoToken
  /\ nextAttempt = 0
  /\ lock = NoThread
  /\ captured = NoToken
  /\ grant = NoToken
  /\ pc = [t \in Threads |-> "idle"]
  /\ sampled = [t \in Threads |-> 0]
  /\ held = [t \in Threads |-> NoToken]
  /\ blame = [t \in Threads |-> "unknown"]
  /\ retried = [t \in Threads |-> FALSE]
  /\ left = [t \in Threads |-> MaxRequests]
  /\ issued = 0
  /\ serverExpires = [k \in {} |-> 0]
  /\ blamed = {}

-----------------------------------------------------------------------------
(***************************************************************************)
(* _access_token: the lock-free look, then the locked one.                 *)
(***************************************************************************)

\* The request loop takes up the thread's next request.
NewRequest(t) ==
  /\ pc[t] = "idle"
  /\ left[t] > 0
  /\ pc' = [pc EXCEPT ![t] = "start"]
  /\ left' = [left EXCEPT ![t] = @ - 1]
  /\ retried' = [retried EXCEPT ![t] = FALSE]
  /\ held' = [held EXCEPT ![t] = NoToken]
  /\ UNCHANGED <<clock, cacheVars, mutexVars, serverVars, blamed,
                 sampled, blame>>

\* now = self._clock(), before the cache is read
ReadClock(t) ==
  /\ pc[t] = "start"
  /\ pc' = [pc EXCEPT ![t] = "look"]
  /\ sampled' = [sampled EXCEPT ![t] = clock]
  /\ UNCHANGED <<clock, cacheVars, mutexVars, serverVars, blamed,
                 held, blame, retried, left>>

\* The thread leaves _access_token with a token and sends its request.
Send(t, token) ==
  /\ pc' = [pc EXCEPT ![t] = "sent"]
  /\ held' = [held EXCEPT ![t] = token]

\* The lock-free look: a cached token that is fresh is used at once.
LookUnlocked(t) ==
  /\ pc[t] = "look"
  /\ \/ /\ IsFresh(cached, sampled[t])
        /\ Send(t, cached.token)
     \/ /\ ~IsFresh(cached, sampled[t])
        /\ pc' = [pc EXCEPT ![t] = "lock"]
        /\ UNCHANGED held
  /\ sampled' = [sampled EXCEPT ![t] = 0]
  /\ UNCHANGED <<clock, cacheVars, mutexVars, serverVars, blamed,
                 blame, retried, left>>

\* During the cooldown that follows a failed refresh an unexpired token is
\* used although a refresh is due.
Usable(entry, now) ==
  \/ IsFresh(entry, now)
  \/ IsUnexpired(entry, now) /\ now < nextAttempt

\* The locked look finds a token to use; the mutex is free again at once.
LookLocked(t) ==
  /\ pc[t] = "lock"
  /\ lock = NoThread
  /\ Usable(cached, clock)
  /\ Send(t, cached.token)
  /\ UNCHANGED <<clock, cacheVars, mutexVars, serverVars, blamed,
                 sampled, blame, retried, left>>

\* The locked look finds none: the thread keeps the mutex and starts a fetch.
StartFetch(t) ==
  /\ pc[t] = "lock"
  /\ lock = NoThread
  /\ ~Usable(cached, clock)
  /\ lock' = t
  /\ captured' = cached
  /\ pc' = [pc EXCEPT ![t] = "fetch"]
  /\ UNCHANGED <<clock, cacheVars, serverVars, blamed, grant,
                 sampled, held, blame, retried, left>>

\* Wrong: the mutex is not freed (RequestsFinish).
FetchSucceedsKeepsLock(t) ==
  /\ pc[t] = "fetch"
  /\ grant # NoToken
  /\ cached' = NewEntry(grant, clock)
  /\ nextAttempt' = 0
  /\ captured' = NoToken
  /\ grant' = NoToken
  /\ Send(t, grant.token)
  /\ UNCHANGED <<clock, lock, serverVars, blamed, sampled, blame, retried, left>>

\* The token response arrives.  Its lifetime is counted from now on.
FetchSucceeds(t) ==
  /\ pc[t] = "fetch"
  /\ grant # NoToken
  /\ cached' = NewEntry(grant, clock)
  /\ nextAttempt' = 0
  /\ lock' = NoThread
  /\ captured' = NoToken
  /\ grant' = NoToken
  /\ Send(t, grant.token)
  /\ UNCHANGED <<clock, serverVars, blamed,
                 sampled, blame, retried, left>>

\* The fetch raises.  A transient failure is bridged with the token read
\* before the fetch, if that is still unexpired, and starts a cooldown.  Any
\* other failure is raised to the request loop, which tries the same request
\* again (as one of the thread's MaxRequests) or gives it up.  A token that
\* was issued is lost.
FetchFails(t, transient) ==
  /\ pc[t] = "fetch"
  /\ \/ /\ IsUnexpired(captured, clock) /\ transient
        /\ nextAttempt' = clock + Cooldown
        /\ Send(t, captured.token)
        /\ UNCHANGED left
     \/ /\ ~(IsUnexpired(captured, clock) /\ transient)
        /\ \/ /\ pc' = [pc EXCEPT ![t] = "idle"]
              /\ UNCHANGED left
           \/ /\ left[t] > 0
              /\ pc' = [pc EXCEPT ![t] = "start"]
              /\ left' = [left EXCEPT ![t] = @ - 1]
        /\ UNCHANGED <<nextAttempt, held>>
  /\ lock' = NoThread
  /\ captured' = NoToken
  /\ grant' = NoToken
  /\ UNCHANGED <<clock, cached, serverVars, blamed,
                 sampled, blame, retried>>

-----------------------------------------------------------------------------
(***************************************************************************)
(* A 401 and its handling.                                                 *)
(***************************************************************************)

\* A request answered 401: the first time the handler is asked, the second
\* time the request fails (_send_request).
Unauthorized(t, class) ==
  /\ pc[t] = "sent"
  /\ blamed' = IF class = "non_token" THEN blamed ELSE blamed \cup {held[t]}
  /\ \/ /\ retried[t]
        /\ pc' = [pc EXCEPT ![t] = "idle"]
        /\ UNCHANGED blame
     \/ /\ ~retried[t]
        /\ pc' = [pc EXCEPT ![t] = "unauthorized"]
        /\ blame' = [blame EXCEPT ![t] = class]
  /\ UNCHANGED <<clock, cacheVars, mutexVars, serverVars,
                 sampled, held, retried, left>>

\* The request is sent once more.
Retry(t) ==
  /\ pc' = [pc EXCEPT ![t] = "start"]
  /\ retried' = [retried EXCEPT ![t] = TRUE]

\* Wrong: any cached token counts as the one that was rejected
\* (OnlyBlamedDropped).
CarriesAny(t) == cached # NoToken

\* The rejected request carried the token that is in the cache now.
CarriesCached(t) == cached # NoToken /\ held[t] = cached.token

\* Wrong: the token is kept (RetryUsesAnotherToken).
DropCooldownOnly == nextAttempt' = 0 /\ UNCHANGED cached

\* The cache is emptied, and with it the cooldown.
DropToken == cached' = NoToken /\ nextAttempt' = 0

\* handle_unauthorized, under the mutex.
HandleUnauthorized(t) ==
  /\ pc[t] = "unauthorized"
  /\ lock = NoThread
  /\ \/ \* refresh_in_progress, stale_request_token
        /\ ~CarriesCached(t)
        /\ Retry(t)
        /\ UNCHANGED cacheVars
     \/ \* current_token_non_token_401
        /\ CarriesCached(t)
        /\ blame[t] = "non_token"
        /\ pc' = [pc EXCEPT ![t] = "idle"]
        /\ UNCHANGED <<retried, cacheVars>>
     \/ \* current_token_invalid, current_token_unknown_401
        /\ CarriesCached(t)
        /\ blame[t] # "non_token"
        /\ DropToken
        /\ Retry(t)
  /\ blame' = [blame EXCEPT ![t] = "unknown"]
  /\ UNCHANGED <<clock, mutexVars, serverVars, blamed,
                 sampled, held, left>>

-----------------------------------------------------------------------------
(***************************************************************************)
(* Okta and the clock.                                                     *)
(***************************************************************************)

\* The authorization server issues a token to the thread that asks for one.
Issue(expires_in) ==
  /\ lock # NoThread
  /\ grant = NoToken
  /\ issued < MaxIssued
  /\ issued' = issued + 1
  /\ grant' = [token |-> issued + 1, lifetime |-> Max0(expires_in), at |-> clock]
  /\ serverExpires' = [k \in 1..(issued + 1) |->
                        IF k = issued + 1 THEN clock + Max0(expires_in)
                                          ELSE serverExpires[k]]
  /\ UNCHANGED <<clock, cacheVars, lock, captured, threadVars, blamed>>

\* The response is lost.  The client that _request_token uses repeats the
\* request, and the token that was issued is never seen.
ResponseLost ==
  /\ grant # NoToken
  /\ grant' = NoToken
  /\ UNCHANGED <<clock, cacheVars, lock, captured, threadVars, serverVars,
                 blamed>>

\* Any other outcome of the request; only a token that has not expired gets
\* one.
Answered(t) ==
  /\ pc[t] = "sent"
  /\ clock < serverExpires[held[t]]
  /\ pc' = [pc EXCEPT ![t] = "idle"]
  /\ UNCHANGED <<clock, cacheVars, mutexVars, serverVars, blamed,
                 sampled, held, blame, retried, left>>

\* Okta may revoke a token at any time, and its 401 may be of any kind; one
\* about permissions is only given to a token that has not expired.
Rejected(t) ==
  /\ pc[t] = "sent"
  /\ \E class \in Classification :
       /\ class = "non_token" => clock < serverExpires[held[t]]
       /\ Unauthorized(t, class)

\* A token response is not under way for more than MaxLatency ticks.
Tick ==
  /\ clock < MaxTime
  /\ grant # NoToken => clock - grant.at < MaxLatency
  /\ clock' = clock + 1
  /\ UNCHANGED <<cacheVars, mutexVars, threadVars, serverVars, blamed>>

\* The collection is over.
Finished ==
  /\ \A t \in Threads : pc[t] = "idle" /\ left[t] = 0
  /\ UNCHANGED vars

ThreadStep(t) ==
  \/ ReadClock(t)
  \/ LookUnlocked(t)
  \/ LookLocked(t)
  \/ StartFetch(t)
  \/ FetchSucceeds(t)
  \/ \E transient \in BOOLEAN : FetchFails(t, transient)
  \/ HandleUnauthorized(t)
  \/ Answered(t)
  \/ Rejected(t)

Next ==
  \/ \E t \in Threads : NewRequest(t) \/ ThreadStep(t)
  \/ \E expires_in \in ExpiresIn : Issue(expires_in)
  \/ ResponseLost
  \/ Tick
  \/ Finished

\* Threads run, and every network call returns or raises in the end: each
\* has a timeout.  Nothing makes Okta issue a token.
Fairness == \A t \in Threads : WF_vars(NewRequest(t)) /\ WF_vars(ThreadStep(t))

Spec == Init /\ [][Next]_vars

FairSpec == Spec /\ Fairness

-----------------------------------------------------------------------------
TypeOK ==
  /\ clock \in Nat
  /\ cached \in Entry \cup {NoToken}
  /\ nextAttempt \in Nat
  /\ lock \in Threads \cup {NoThread}
  /\ captured \in Entry \cup {NoToken}
  /\ grant \in Grant \cup {NoToken}
  /\ pc \in [Threads -> {"idle", "start", "look", "lock", "fetch", "sent",
                         "unauthorized"}]
  /\ sampled \in [Threads -> Nat]
  /\ held \in [Threads -> Nat \cup {NoToken}]
  /\ blame \in [Threads -> Classification]
  /\ retried \in [Threads -> BOOLEAN]
  /\ left \in [Threads -> Nat]
  /\ issued \in Nat
  /\ serverExpires \in [1..issued -> Nat]
  /\ blamed \subseteq 1..issued

\* A token that the collector takes for fresh is one that Okta has not
\* expired, although its lifetime is counted from the arrival of the response
\* and not from the issue: the refresh skew absorbs the latency.
FreshIsAccepted ==
  IsFresh(cached, clock) => clock < serverExpires[cached.token]

\* A cooldown only ever protects a token: with an empty cache the next
\* request fetches at once.
CooldownNeedsToken == nextAttempt > 0 => cached # NoToken

\* A token that is still fresh is never replaced: of the threads that find a
\* refresh due at the same time only the first one fetches.  And what replaces
\* a stale one is the newest token issued, so a response or a failure that
\* comes late never brings an older token back.
OnlyStaleReplaced ==
  [][ cached' # cached /\ cached' # NoToken
      => ~IsFresh(cached, clock) /\ cached'.token = issued ]_vars

\* The cache is emptied only of a token that a 401 blamed: neither a 401 for
\* an earlier token nor one about permissions costs the threads their token.
OnlyBlamedDropped ==
  [][ cached # NoToken /\ cached' = NoToken => cached.token \in blamed ]_vars

\* The threads replace and drop the cached token for a cause only.
CacheChangesForCause == OnlyStaleReplaced /\ OnlyBlamedDropped

\* The one retry after a 401 never carries the token that was rejected.
RetryUsesAnotherToken ==
  [][ \A t \in Threads :
        pc[t] # "sent" /\ pc'[t] = "sent" /\ retried[t] => held'[t] # held[t] ]_vars

\* Every request is answered, retried once or fails; no thread waits for the
\* mutex for ever.
RequestsFinish == <>(\A t \in Threads : pc[t] = "idle" /\ left[t] = 0)

\* README.md: "If a refresh fails while the current token is still valid, the
\* collector keeps using that token".
ValidTokenSurvivesFailedRefresh ==
  [][ \A t \in Threads :
        /\ pc[t] = "fetch" /\ pc'[t] # "fetch"
        /\ cached' = cached /\ IsUnexpired(cached, clock)
        => pc'[t] = "sent" ]_vars
=============================================================================
