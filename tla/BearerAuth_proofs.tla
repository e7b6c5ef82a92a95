------------------------- MODULE BearerAuth_proofs -------------------------
(***************************************************************************)
(* Proofs about BearerAuth, for any threads, lifetimes, skew and cooldown. *)
(* The inductive invariant IInv adds to the types what the mutex protects  *)
(* (MutexInv), what is known of a token response under way (GrantInv), of  *)
(* the cache entry (CacheInv), of the tokens that requests carry           *)
(* (CarriedInv), and of the token a retried request must avoid (RetryInv). *)
(***************************************************************************)
EXTENDS BearerAuth, TLAPS

\* Only the thread that fetches holds the mutex; while it does, the cache is
\* as it read it, and not fresh.
MutexInv ==
  /\ \A t \in Threads : pc[t] = "fetch" <=> lock = t
  /\ lock # NoThread => captured = cached /\ ~IsFresh(cached, clock)

\* A token response under way is for the thread that holds the mutex and
\* carries the newest token, which is not the cached one.
GrantInv ==
  grant # NoToken =>
    /\ lock # NoThread
    /\ issued > 0
    /\ grant.token = issued
    /\ grant.at <= clock
    /\ clock - grant.at <= MaxLatency
    /\ serverExpires[issued] = grant.at + grant.lifetime
    /\ \/ grant.lifetime = 0
       \/ MaxLatency <= RefreshSkew(grant.lifetime)
    /\ cached # NoToken => cached.token < issued

\* The cached token was issued by Okta and its refresh is due before Okta
\* expires it, or is due already.
CacheInv ==
  /\ cached # NoToken =>
       /\ cached.token \in 1..issued
       /\ \/ cached.refresh_at <= serverExpires[cached.token]
          \/ cached.refresh_at <= clock
  /\ nextAttempt > 0 => cached # NoToken

\* A request under way, and one waiting for its 401 to be handled, carries a
\* token issued by Okta; the handler only blames a token that a 401 blamed.
CarriedInv ==
  \A t \in Threads :
    /\ pc[t] \in {"sent", "unauthorized"} => held[t] \in 1..issued
    /\ pc[t] = "unauthorized" /\ blame[t] # "non_token" => held[t] \in blamed

\* A retry that has no token yet cannot be given the rejected one again: it
\* is neither in the cache nor on its way.
RetryInv ==
  \A t \in Threads :
    retried[t] /\ pc[t] \in {"start", "look", "lock", "fetch"} =>
      /\ held[t] \in 1..issued
      /\ cached # NoToken => cached.token # held[t]
      /\ grant # NoToken => grant.token # held[t]

IInv == TypeOK /\ MutexInv /\ GrantInv /\ CacheInv /\ CarriedInv /\ RetryInv

-----------------------------------------------------------------------------
\* The refresh skew of a lifetime is a natural number and at most its half,
\* so an entry's refresh is never due after it expires.
LEMMA RefreshSkewBounds ==
  ASSUME NEW lifetime \in Nat
  PROVE  /\ RefreshSkew(lifetime) \in Nat
         /\ RefreshSkew(lifetime) <= lifetime
BY SettingsAssumption DEF RefreshSkew

\* An entry made from a token response is a cache entry for its token.
LEMMA NewEntryType ==
  ASSUME NEW g \in Grant, NEW now \in Nat
  PROVE  /\ NewEntry(g, now) \in Entry
         /\ NewEntry(g, now).token = g.token
         /\ NewEntry(g, now).refresh_at = now + g.lifetime - RefreshSkew(g.lifetime)
<1>1. g.token \in Nat /\ g.lifetime \in Nat
  BY DEF Grant
<1>2. RefreshSkew(g.lifetime) \in Nat /\ RefreshSkew(g.lifetime) <= g.lifetime
  BY <1>1, RefreshSkewBounds
<1>3. now + g.lifetime - RefreshSkew(g.lifetime) \in Nat
  BY <1>1, <1>2
<1>4. QED
  BY <1>1, <1>3 DEF NewEntry, Entry

\* A positive lifetime's refresh skew covers the latency of its response.
LEMMA SkewCoversLatency ==
  ASSUME NEW expires_in \in ExpiresIn
  PROVE  /\ Max0(expires_in) \in Nat
         /\ \/ Max0(expires_in) = 0
            \/ MaxLatency <= RefreshSkew(Max0(expires_in))
BY SettingsAssumption, BoundsAssumption, LatencyAssumption DEF Max0, RefreshSkew

\* Every step keeps the variables within their types.
LEMMA TypeStep ==
  ASSUME TypeOK, MutexInv, CarriedInv, [Next]_vars
  PROVE  TypeOK'
<1> USE ThreadsAssumption, SettingsAssumption, BoundsAssumption, NoTokenAssumption
<1>1. ASSUME NEW t \in Threads, NewRequest(t)
       PROVE  TypeOK'
  BY <1>1, SMTT(30) DEF NewRequest, TypeOK, cacheVars, mutexVars, serverVars
<1>2. ASSUME NEW t \in Threads, ReadClock(t)
       PROVE  TypeOK'
  BY <1>2 DEF ReadClock, TypeOK, vars, cacheVars, mutexVars, threadVars,
       serverVars
<1>3. ASSUME NEW t \in Threads, LookUnlocked(t)
       PROVE  TypeOK'
  <2>1. IsFresh(cached, sampled[t]) => cached.token \in Nat
    BY DEF IsFresh, TypeOK, Entry
  <2>2. QED
    BY <1>3, <2>1
    DEF LookUnlocked, Send, TypeOK, cacheVars, mutexVars, serverVars
<1>4. ASSUME NEW t \in Threads, LookLocked(t)
       PROVE  TypeOK'
  <2>1. Usable(cached, clock) => cached.token \in Nat
    BY DEF Usable, IsFresh, IsUnexpired, TypeOK, Entry
  <2>2. QED
    BY <1>4, <2>1
    DEF LookLocked, Send, TypeOK, cacheVars, mutexVars, serverVars
<1>5. ASSUME NEW t \in Threads, StartFetch(t)
       PROVE  TypeOK'
  BY <1>5 DEF StartFetch, Usable, IsFresh, IsUnexpired, TypeOK, vars,
       cacheVars, mutexVars, threadVars, serverVars
<1>6. ASSUME NEW t \in Threads, FetchSucceeds(t)
       PROVE  TypeOK'
  <2>1. NewEntry(grant, clock) \in Entry
    BY <1>6, NewEntryType DEF FetchSucceeds, TypeOK
  <2>2. grant.token \in Nat
    BY <1>6 DEF FetchSucceeds, TypeOK, Grant
  <2>3. QED
    BY <1>6, <2>1, <2>2
    DEF FetchSucceeds, Send, TypeOK, vars, serverVars
<1>7. ASSUME NEW t \in Threads, NEW transient \in BOOLEAN, FetchFails(t, transient)
       PROVE  TypeOK'
  <2>1. IsUnexpired(captured, clock) => captured.token \in Nat
    BY DEF IsUnexpired, TypeOK, Entry
  <2>2. nextAttempt' \in Nat
    BY <1>7 DEF FetchFails, TypeOK
  <2>3. held' \in [Threads -> Nat \cup {NoToken}]
    BY <1>7, <2>1 DEF FetchFails, Send, TypeOK
  <2>4. left' \in [Threads -> Nat]
    BY <1>7 DEF FetchFails, TypeOK
  <2>5. pc' \in [Threads -> {"idle", "start", "look", "lock", "fetch", "sent",
                            "unauthorized"}]
    BY <1>7, ZenonT(30) DEF FetchFails, Send, TypeOK
  <2>6. QED
    BY <1>7, <2>2, <2>3, <2>4, <2>5 DEF FetchFails, TypeOK, serverVars
<1>8. ASSUME NEW t \in Threads, HandleUnauthorized(t)
       PROVE  TypeOK'
  <2>1. /\ pc' \in [Threads -> {"idle", "start", "look", "lock", "fetch", "sent",
                               "unauthorized"}]
        /\ retried' \in [Threads -> BOOLEAN]
    BY <1>8 DEF HandleUnauthorized, DropToken, Retry, TypeOK
  <2>2. cached' \in Entry \cup {NoToken} /\ nextAttempt' \in Nat
    BY <1>8 DEF HandleUnauthorized, DropToken, TypeOK, cacheVars
  <2>3. blame' \in [Threads -> Classification]
    BY <1>8 DEF HandleUnauthorized, DropToken, TypeOK, Classification
  <2>4. QED
    BY <1>8, <2>1, <2>2, <2>3
    DEF HandleUnauthorized, DropToken, TypeOK, mutexVars, serverVars
<1>9. ASSUME NEW t \in Threads, Answered(t)
       PROVE  TypeOK'
  BY <1>9 DEF Answered, TypeOK, vars, cacheVars, mutexVars, threadVars,
       serverVars
<1>10. ASSUME NEW t \in Threads, Rejected(t)
       PROVE  TypeOK'
  <2>1. PICK class \in Classification : Unauthorized(t, class)
    BY <1>10 DEF Rejected
  <2>2. pc' \in [Threads -> {"idle", "start", "look", "lock", "fetch", "sent",
                            "unauthorized"}]
    BY <2>1 DEF Unauthorized, TypeOK
  <2>3. blame' \in [Threads -> Classification]
    BY <2>1 DEF Unauthorized, TypeOK
  <2>4. blamed' \subseteq 1..issued
    BY <2>1 DEF Unauthorized, TypeOK, CarriedInv
  <2>5. QED
    BY <2>1, <2>2, <2>3, <2>4
    DEF Unauthorized, TypeOK, cacheVars, mutexVars, serverVars
<1>11. ASSUME NEW expires_in \in ExpiresIn, Issue(expires_in)
       PROVE  TypeOK'
  <2>1. Max0(expires_in) \in Nat
    BY SkewCoversLatency
  <2>2. grant' \in Grant /\ issued' \in Nat
    BY <1>11, <2>1 DEF Issue, TypeOK, Grant
  <2>3. serverExpires' \in [1..issued' -> Nat]
    BY <1>11, <2>1 DEF Issue, TypeOK
  <2>4. blamed' \subseteq 1..issued'
    BY <1>11 DEF Issue, TypeOK
  <2>5. QED
    BY <1>11, <2>2, <2>3, <2>4 DEF Issue, TypeOK, cacheVars, threadVars
<1>12. CASE ResponseLost
  BY <1>12 DEF ResponseLost, TypeOK, vars, cacheVars, mutexVars, threadVars,
       serverVars
<1>13. CASE Tick
  BY <1>13 DEF Tick, TypeOK, vars, cacheVars, mutexVars, threadVars,
       serverVars
<1>14. CASE UNCHANGED vars
  BY <1>14 DEF TypeOK, vars, cacheVars, mutexVars, threadVars, serverVars
<1>15. QED
  BY <1>1, <1>2, <1>3, <1>4, <1>5, <1>6, <1>7, <1>8, <1>9, <1>10, <1>11, <1>12, <1>13, <1>14 DEF Next, ThreadStep, Finished

\* The mutex is held from the start of a fetch to its end, and the cache does
\* not change under the fetch.
LEMMA MutexStep ==
  ASSUME TypeOK, MutexInv, GrantInv, [Next]_vars
  PROVE  MutexInv'
<1> USE ThreadsAssumption, SettingsAssumption, BoundsAssumption, NoTokenAssumption
<1>1. ASSUME NEW t \in Threads, NewRequest(t)
       PROVE  MutexInv'
  BY <1>1 DEF NewRequest, TypeOK, MutexInv, vars, cacheVars, mutexVars,
       threadVars, serverVars
<1>2. ASSUME NEW t \in Threads, ReadClock(t)
       PROVE  MutexInv'
  BY <1>2 DEF ReadClock, TypeOK, MutexInv, vars, cacheVars, mutexVars,
       threadVars, serverVars
<1>3. ASSUME NEW t \in Threads, LookUnlocked(t)
       PROVE  MutexInv'
  BY <1>3 DEF LookUnlocked, Send, IsFresh, TypeOK, MutexInv, vars,
       cacheVars, mutexVars, threadVars, serverVars
<1>4. ASSUME NEW t \in Threads, LookLocked(t)
       PROVE  MutexInv'
  BY <1>4 DEF LookLocked, Send, Usable, IsFresh, IsUnexpired, TypeOK,
       MutexInv, vars, cacheVars, mutexVars, threadVars, serverVars
<1>5. ASSUME NEW t \in Threads, StartFetch(t)
       PROVE  MutexInv'
  BY <1>5 DEF StartFetch, Usable, IsFresh, IsUnexpired, TypeOK, MutexInv,
       vars, cacheVars, mutexVars, threadVars, serverVars
<1>6. ASSUME NEW t \in Threads, FetchSucceeds(t)
       PROVE  MutexInv'
  BY <1>6 DEF FetchSucceeds, Send, TypeOK, MutexInv, vars, cacheVars,
       mutexVars, threadVars, serverVars
<1>7. ASSUME NEW t \in Threads, NEW transient \in BOOLEAN, FetchFails(t, transient)
       PROVE  MutexInv'
  BY <1>7 DEF FetchFails, Send, IsUnexpired, TypeOK, MutexInv, vars,
       cacheVars, mutexVars, threadVars, serverVars
<1>8. ASSUME NEW t \in Threads, HandleUnauthorized(t)
       PROVE  MutexInv'
  BY <1>8 DEF HandleUnauthorized, DropToken, CarriesCached, Retry, TypeOK, MutexInv,
       vars, cacheVars, mutexVars, threadVars, serverVars
<1>9. ASSUME NEW t \in Threads, Answered(t)
       PROVE  MutexInv'
  BY <1>9 DEF Answered, TypeOK, MutexInv, vars, cacheVars, mutexVars,
       threadVars, serverVars
<1>10. ASSUME NEW t \in Threads, Rejected(t)
       PROVE  MutexInv'
  BY <1>10 DEF Rejected, Unauthorized, TypeOK, MutexInv, vars, cacheVars,
       mutexVars, threadVars, serverVars
<1>11. ASSUME NEW expires_in \in ExpiresIn, Issue(expires_in)
       PROVE  MutexInv'
  BY <1>11 DEF Issue, Max0, TypeOK, MutexInv, vars, cacheVars, mutexVars,
       threadVars, serverVars
<1>12. CASE ResponseLost
  BY <1>12 DEF ResponseLost, TypeOK, MutexInv, vars, cacheVars, mutexVars,
       threadVars, serverVars
<1>13. CASE Tick
  <2>1. ~IsFresh(cached, clock) => ~IsFresh(cached', clock')
    BY <1>13 DEF Tick, IsFresh, TypeOK, Entry, cacheVars
  <2>2. QED
    BY <1>13, <2>1 DEF Tick, MutexInv, cacheVars, mutexVars, threadVars
<1>14. CASE UNCHANGED vars
  BY <1>14 DEF TypeOK, MutexInv, vars, cacheVars, mutexVars, threadVars,
       serverVars
<1>15. QED
  BY <1>1, <1>2, <1>3, <1>4, <1>5, <1>6, <1>7, <1>8, <1>9, <1>10, <1>11, <1>12, <1>13, <1>14 DEF Next, ThreadStep, Finished

\* A token response under way stays what it is until it arrives or is lost.
LEMMA GrantStep ==
  ASSUME TypeOK, MutexInv, GrantInv, CacheInv, [Next]_vars
  PROVE  GrantInv'
<1> USE ThreadsAssumption, SettingsAssumption, BoundsAssumption, NoTokenAssumption
<1>1. ASSUME NEW t \in Threads, NewRequest(t)
       PROVE  GrantInv'
  BY <1>1 DEF NewRequest, TypeOK, MutexInv, GrantInv, vars, cacheVars,
       mutexVars, threadVars, serverVars
<1>2. ASSUME NEW t \in Threads, ReadClock(t)
       PROVE  GrantInv'
  BY <1>2 DEF ReadClock, TypeOK, MutexInv, GrantInv, vars, cacheVars,
       mutexVars, threadVars, serverVars
<1>3. ASSUME NEW t \in Threads, LookUnlocked(t)
       PROVE  GrantInv'
  BY <1>3 DEF LookUnlocked, Send, IsFresh, TypeOK, MutexInv, GrantInv, vars,
       cacheVars, mutexVars, threadVars, serverVars
<1>4. ASSUME NEW t \in Threads, LookLocked(t)
       PROVE  GrantInv'
  BY <1>4 DEF LookLocked, Send, Usable, IsFresh, IsUnexpired, TypeOK,
       MutexInv, GrantInv, vars, cacheVars, mutexVars, threadVars,
       serverVars
<1>5. ASSUME NEW t \in Threads, StartFetch(t)
       PROVE  GrantInv'
  BY <1>5 DEF StartFetch, Usable, IsFresh, IsUnexpired, TypeOK, MutexInv,
       GrantInv, vars, cacheVars, mutexVars, threadVars, serverVars
<1>6. ASSUME NEW t \in Threads, FetchSucceeds(t)
       PROVE  GrantInv'
  BY <1>6 DEF FetchSucceeds, Send, TypeOK, MutexInv, GrantInv, vars,
       cacheVars, mutexVars, threadVars, serverVars
<1>7. ASSUME NEW t \in Threads, NEW transient \in BOOLEAN, FetchFails(t, transient)
       PROVE  GrantInv'
  BY <1>7 DEF FetchFails, Send, IsUnexpired, TypeOK, MutexInv, GrantInv,
       vars, cacheVars, mutexVars, threadVars, serverVars
<1>8. ASSUME NEW t \in Threads, HandleUnauthorized(t)
       PROVE  GrantInv'
  BY <1>8 DEF HandleUnauthorized, DropToken, CarriesCached, Retry, TypeOK, MutexInv,
       GrantInv, vars, cacheVars, mutexVars, threadVars, serverVars
<1>9. ASSUME NEW t \in Threads, Answered(t)
       PROVE  GrantInv'
  BY <1>9 DEF Answered, TypeOK, MutexInv, GrantInv, vars, cacheVars,
       mutexVars, threadVars, serverVars
<1>10. ASSUME NEW t \in Threads, Rejected(t)
       PROVE  GrantInv'
  BY <1>10 DEF Rejected, Unauthorized, TypeOK, MutexInv, GrantInv, vars,
       cacheVars, mutexVars, threadVars, serverVars
<1>11. ASSUME NEW expires_in \in ExpiresIn, Issue(expires_in)
       PROVE  GrantInv'
  <2>1. /\ Max0(expires_in) \in Nat
        /\ Max0(expires_in) = 0 \/ MaxLatency <= RefreshSkew(Max0(expires_in))
    BY SkewCoversLatency
  <2>2. /\ grant'.token = issued' /\ grant'.at = clock /\ clock' = clock
        /\ grant'.lifetime = Max0(expires_in)
    BY <1>11 DEF Issue
  <2>3. issued' > 0 /\ lock' # NoThread
    BY <1>11 DEF Issue, TypeOK
  <2>4. serverExpires'[issued'] = clock + Max0(expires_in)
    BY <1>11 DEF Issue, TypeOK
  <2>5. cached' # NoToken => cached'.token < issued'
    BY <1>11 DEF Issue, TypeOK, CacheInv, cacheVars
  <2>6. clock \in Nat
    BY DEF TypeOK
  <2>7. QED
    BY <2>1, <2>2, <2>3, <2>4, <2>5, <2>6 DEF GrantInv
<1>12. CASE ResponseLost
  BY <1>12 DEF ResponseLost, TypeOK, MutexInv, GrantInv, vars, cacheVars,
       mutexVars, threadVars, serverVars
<1>13. CASE Tick
  <2>1. grant # NoToken => grant.at \in Nat
    BY DEF TypeOK, Grant
  <2>2. QED
    BY <1>13, <2>1
    DEF Tick, TypeOK, GrantInv, cacheVars, mutexVars, serverVars
<1>14. CASE UNCHANGED vars
  BY <1>14 DEF TypeOK, MutexInv, GrantInv, vars, cacheVars, mutexVars,
       threadVars, serverVars
<1>15. QED
  BY <1>1, <1>2, <1>3, <1>4, <1>5, <1>6, <1>7, <1>8, <1>9, <1>10, <1>11, <1>12, <1>13, <1>14 DEF Next, ThreadStep, Finished

\* A request is only ever sent with a token that Okta issued.
LEMMA CarriedStep ==
  ASSUME TypeOK, MutexInv, GrantInv, CacheInv, CarriedInv, [Next]_vars
  PROVE  CarriedInv'
<1> USE ThreadsAssumption, SettingsAssumption, BoundsAssumption, NoTokenAssumption
<1>1. ASSUME NEW t \in Threads, NewRequest(t)
       PROVE  CarriedInv'
  BY <1>1 DEF NewRequest, TypeOK, CarriedInv, CacheInv, vars, cacheVars,
       mutexVars, threadVars, serverVars
<1>2. ASSUME NEW t \in Threads, ReadClock(t)
       PROVE  CarriedInv'
  BY <1>2 DEF ReadClock, TypeOK, CarriedInv, CacheInv, vars, cacheVars,
       mutexVars, threadVars, serverVars
<1>3. ASSUME NEW t \in Threads, LookUnlocked(t)
       PROVE  CarriedInv'
  BY <1>3 DEF LookUnlocked, Send, IsFresh, TypeOK, CarriedInv, CacheInv,
       vars, cacheVars, mutexVars, threadVars, serverVars
<1>4. ASSUME NEW t \in Threads, LookLocked(t)
       PROVE  CarriedInv'
  BY <1>4 DEF LookLocked, Send, Usable, IsFresh, IsUnexpired, TypeOK,
       CarriedInv, CacheInv, vars, cacheVars, mutexVars, threadVars,
       serverVars
<1>5. ASSUME NEW t \in Threads, StartFetch(t)
       PROVE  CarriedInv'
  BY <1>5 DEF StartFetch, Usable, IsFresh, IsUnexpired, TypeOK, CarriedInv,
       CacheInv, vars, cacheVars, mutexVars, threadVars, serverVars
<1>6. ASSUME NEW t \in Threads, FetchSucceeds(t)
       PROVE  CarriedInv'
  <2>1. grant.token \in 1..issued
    BY <1>6 DEF FetchSucceeds, GrantInv, TypeOK
  <2>2. QED
    BY <1>6, <2>1 DEF FetchSucceeds, Send, TypeOK, CarriedInv, serverVars
<1>7. ASSUME NEW t \in Threads, NEW transient \in BOOLEAN, FetchFails(t, transient)
       PROVE  CarriedInv'
  <2>1. IsUnexpired(captured, clock) => captured.token \in 1..issued
    BY <1>7 DEF FetchFails, IsUnexpired, MutexInv, CacheInv
  <2>2. QED
    BY <1>7, <2>1 DEF FetchFails, Send, TypeOK, CarriedInv, serverVars
<1>8. ASSUME NEW t \in Threads, HandleUnauthorized(t)
       PROVE  CarriedInv'
  BY <1>8 DEF HandleUnauthorized, DropToken, CarriesCached, Retry, TypeOK, CarriedInv,
       CacheInv, vars, cacheVars, mutexVars, threadVars, serverVars
<1>9. ASSUME NEW t \in Threads, Answered(t)
       PROVE  CarriedInv'
  BY <1>9 DEF Answered, TypeOK, CarriedInv, CacheInv, vars, cacheVars,
       mutexVars, threadVars, serverVars
<1>10. ASSUME NEW t \in Threads, Rejected(t)
       PROVE  CarriedInv'
  BY <1>10 DEF Rejected, Unauthorized, TypeOK, CarriedInv, CacheInv, vars,
       cacheVars, mutexVars, threadVars, serverVars
<1>11. ASSUME NEW expires_in \in ExpiresIn, Issue(expires_in)
       PROVE  CarriedInv'
  BY <1>11 DEF Issue, Max0, TypeOK, CarriedInv, CacheInv, vars, cacheVars,
       mutexVars, threadVars, serverVars
<1>12. CASE ResponseLost
  BY <1>12 DEF ResponseLost, TypeOK, CarriedInv, CacheInv, vars, cacheVars,
       mutexVars, threadVars, serverVars
<1>13. CASE Tick
  BY <1>13 DEF Tick, TypeOK, CarriedInv, CacheInv, vars, cacheVars,
       mutexVars, threadVars, serverVars
<1>14. CASE UNCHANGED vars
  BY <1>14 DEF TypeOK, CarriedInv, CacheInv, vars, cacheVars, mutexVars,
       threadVars, serverVars
<1>15. QED
  BY <1>1, <1>2, <1>3, <1>4, <1>5, <1>6, <1>7, <1>8, <1>9, <1>10, <1>11, <1>12, <1>13, <1>14 DEF Next, ThreadStep, Finished

\* A rejected token does not come back to a thread that must retry.
LEMMA RetryStep ==
  ASSUME TypeOK, MutexInv, GrantInv, CacheInv, CarriedInv, RetryInv, [Next]_vars
  PROVE  RetryInv'
<1> USE ThreadsAssumption, SettingsAssumption, BoundsAssumption, NoTokenAssumption
<1>1. ASSUME NEW t \in Threads, NewRequest(t)
       PROVE  RetryInv'
  BY <1>1 DEF NewRequest, TypeOK, RetryInv, vars, cacheVars, mutexVars,
       threadVars, serverVars
<1>2. ASSUME NEW t \in Threads, ReadClock(t)
       PROVE  RetryInv'
  BY <1>2 DEF ReadClock, TypeOK, RetryInv, vars, cacheVars, mutexVars,
       threadVars, serverVars
<1>3. ASSUME NEW t \in Threads, LookUnlocked(t)
       PROVE  RetryInv'
  BY <1>3 DEF LookUnlocked, Send, IsFresh, TypeOK, RetryInv, vars,
       cacheVars, mutexVars, threadVars, serverVars
<1>4. ASSUME NEW t \in Threads, LookLocked(t)
       PROVE  RetryInv'
  BY <1>4 DEF LookLocked, Send, Usable, IsFresh, IsUnexpired, TypeOK,
       RetryInv, vars, cacheVars, mutexVars, threadVars, serverVars
<1>5. ASSUME NEW t \in Threads, StartFetch(t)
       PROVE  RetryInv'
  BY <1>5 DEF StartFetch, Usable, IsFresh, IsUnexpired, TypeOK, RetryInv,
       vars, cacheVars, mutexVars, threadVars, serverVars
<1>6. ASSUME NEW t \in Threads, FetchSucceeds(t)
       PROVE  RetryInv'
  <2>1. cached'.token = grant.token
    BY <1>6, NewEntryType DEF FetchSucceeds, TypeOK
  <2>2. QED
    BY <1>6, <2>1 DEF FetchSucceeds, Send, TypeOK, RetryInv, serverVars
<1>7. ASSUME NEW t \in Threads, NEW transient \in BOOLEAN, FetchFails(t, transient)
       PROVE  RetryInv'
  BY <1>7, ZenonT(30) DEF FetchFails, Send, IsUnexpired, TypeOK, RetryInv, vars,
       cacheVars, mutexVars, threadVars, serverVars
<1>8. ASSUME NEW t \in Threads, HandleUnauthorized(t)
       PROVE  RetryInv'
  <2>1. grant = NoToken
    BY <1>8 DEF HandleUnauthorized, DropToken, GrantInv
  <2>2. held[t] \in 1..issued
    BY <1>8 DEF HandleUnauthorized, DropToken, CarriedInv
  <2>3. CASE ~CarriesCached(t)
    BY <1>8, <2>1, <2>2, <2>3
    DEF HandleUnauthorized, DropToken, Retry, CarriesCached, TypeOK, RetryInv,
        cacheVars, mutexVars, serverVars
  <2>4. CASE CarriesCached(t) /\ blame[t] = "non_token"
    BY <1>8, <2>1, <2>2, <2>4
    DEF HandleUnauthorized, DropToken, TypeOK, RetryInv, cacheVars, mutexVars, serverVars
  <2>5. CASE CarriesCached(t) /\ blame[t] # "non_token"
    BY <1>8, <2>1, <2>2, <2>5
    DEF HandleUnauthorized, DropToken, Retry, TypeOK, RetryInv, mutexVars, serverVars
  <2>6. QED
    BY <2>3, <2>4, <2>5
<1>9. ASSUME NEW t \in Threads, Answered(t)
       PROVE  RetryInv'
  BY <1>9 DEF Answered, TypeOK, RetryInv, vars, cacheVars, mutexVars,
       threadVars, serverVars
<1>10. ASSUME NEW t \in Threads, Rejected(t)
       PROVE  RetryInv'
  BY <1>10 DEF Rejected, Unauthorized, TypeOK, RetryInv, vars, cacheVars,
       mutexVars, threadVars, serverVars
<1>11. ASSUME NEW expires_in \in ExpiresIn, Issue(expires_in)
       PROVE  RetryInv'
  BY <1>11 DEF Issue, Max0, TypeOK, RetryInv, vars, cacheVars, mutexVars,
       threadVars, serverVars
<1>12. CASE ResponseLost
  BY <1>12 DEF ResponseLost, TypeOK, RetryInv, vars, cacheVars, mutexVars,
       threadVars, serverVars
<1>13. CASE Tick
  BY <1>13 DEF Tick, TypeOK, RetryInv, vars, cacheVars, mutexVars,
       threadVars, serverVars
<1>14. CASE UNCHANGED vars
  BY <1>14 DEF TypeOK, RetryInv, vars, cacheVars, mutexVars, threadVars,
       serverVars
<1>15. QED
  BY <1>1, <1>2, <1>3, <1>4, <1>5, <1>6, <1>7, <1>8, <1>9, <1>10, <1>11, <1>12, <1>13, <1>14 DEF Next, ThreadStep, Finished

\* A cached token is never refreshed too late.
LEMMA CacheStep ==
  ASSUME TypeOK, MutexInv, GrantInv, CacheInv, [Next]_vars
  PROVE  CacheInv'
<1> USE ThreadsAssumption, SettingsAssumption, BoundsAssumption, NoTokenAssumption
<1>1. ASSUME NEW t \in Threads, NewRequest(t)
       PROVE  CacheInv'
  BY <1>1 DEF NewRequest, TypeOK, CacheInv, vars, cacheVars, mutexVars,
       threadVars, serverVars
<1>2. ASSUME NEW t \in Threads, ReadClock(t)
       PROVE  CacheInv'
  BY <1>2 DEF ReadClock, TypeOK, CacheInv, vars, cacheVars, mutexVars,
       threadVars, serverVars
<1>3. ASSUME NEW t \in Threads, LookUnlocked(t)
       PROVE  CacheInv'
  BY <1>3 DEF LookUnlocked, Send, IsFresh, TypeOK, CacheInv, vars,
       cacheVars, mutexVars, threadVars, serverVars
<1>4. ASSUME NEW t \in Threads, LookLocked(t)
       PROVE  CacheInv'
  BY <1>4 DEF LookLocked, Send, Usable, IsFresh, IsUnexpired, TypeOK,
       CacheInv, vars, cacheVars, mutexVars, threadVars, serverVars
<1>5. ASSUME NEW t \in Threads, StartFetch(t)
       PROVE  CacheInv'
  BY <1>5 DEF StartFetch, Usable, IsFresh, IsUnexpired, TypeOK, CacheInv,
       vars, cacheVars, mutexVars, threadVars, serverVars
<1>6. ASSUME NEW t \in Threads, FetchSucceeds(t)
       PROVE  CacheInv'
  <2>1. /\ grant \in Grant /\ clock \in Nat /\ grant.token \in 1..issued
        /\ grant.token = issued
    BY <1>6 DEF FetchSucceeds, GrantInv, TypeOK
  <2>2. grant.lifetime \in Nat /\ grant.at \in Nat
    BY <2>1 DEF Grant
  <2>3. RefreshSkew(grant.lifetime) \in Nat
    BY <2>2, RefreshSkewBounds
  <2>4. /\ cached'.token = grant.token
        /\ cached'.refresh_at
             = clock + grant.lifetime - RefreshSkew(grant.lifetime)
    BY <1>6, <2>1, NewEntryType DEF FetchSucceeds
  <2>5. \/ cached'.refresh_at <= serverExpires[grant.token]
        \/ cached'.refresh_at <= clock
    <3>1. CASE grant.lifetime = 0
      BY <2>1, <2>2, <2>3, <2>4, <3>1
    <3>2. CASE MaxLatency <= RefreshSkew(grant.lifetime)
      <4>1. clock - grant.at <= RefreshSkew(grant.lifetime)
        BY <1>6, <2>1, <2>2, <2>3, <3>2 DEF FetchSucceeds, GrantInv
      <4>2. serverExpires[grant.token] = grant.at + grant.lifetime
        BY <1>6, <2>1 DEF FetchSucceeds, GrantInv
      <4>3. QED
        BY <2>1, <2>2, <2>3, <2>4, <4>1, <4>2
    <3>3. QED
      BY <1>6, <3>1, <3>2 DEF FetchSucceeds, GrantInv
  <2>6. nextAttempt' = 0 /\ UNCHANGED <<clock, serverVars>>
    BY <1>6 DEF FetchSucceeds
  <2>7. QED
    BY <2>1, <2>4, <2>5, <2>6 DEF CacheInv, serverVars
<1>7. ASSUME NEW t \in Threads, NEW transient \in BOOLEAN, FetchFails(t, transient)
       PROVE  CacheInv'
  <2>1. captured = cached
    BY <1>7 DEF FetchFails, MutexInv
  <2>2. QED
    BY <1>7, <2>1 DEF FetchFails, IsUnexpired, CacheInv, serverVars
<1>8. ASSUME NEW t \in Threads, HandleUnauthorized(t)
       PROVE  CacheInv'
  BY <1>8 DEF HandleUnauthorized, DropToken, CarriesCached, Retry, TypeOK, CacheInv,
       vars, cacheVars, mutexVars, threadVars, serverVars
<1>9. ASSUME NEW t \in Threads, Answered(t)
       PROVE  CacheInv'
  BY <1>9 DEF Answered, TypeOK, CacheInv, vars, cacheVars, mutexVars,
       threadVars, serverVars
<1>10. ASSUME NEW t \in Threads, Rejected(t)
       PROVE  CacheInv'
  BY <1>10 DEF Rejected, Unauthorized, TypeOK, CacheInv, vars, cacheVars,
       mutexVars, threadVars, serverVars
<1>11. ASSUME NEW expires_in \in ExpiresIn, Issue(expires_in)
       PROVE  CacheInv'
  BY <1>11 DEF Issue, Max0, TypeOK, CacheInv, vars, cacheVars, mutexVars,
       threadVars, serverVars
<1>12. CASE ResponseLost
  BY <1>12 DEF ResponseLost, TypeOK, CacheInv, vars, cacheVars, mutexVars,
       threadVars, serverVars
<1>13. CASE Tick
  <2>1. cached # NoToken => cached.refresh_at \in Nat
    BY DEF TypeOK, Entry
  <2>2. QED
    BY <1>13, <2>1 DEF Tick, TypeOK, CacheInv, cacheVars, serverVars
<1>14. CASE UNCHANGED vars
  BY <1>14 DEF TypeOK, CacheInv, vars, cacheVars, mutexVars, threadVars,
       serverVars
<1>15. QED
  BY <1>1, <1>2, <1>3, <1>4, <1>5, <1>6, <1>7, <1>8, <1>9, <1>10, <1>11, <1>12, <1>13, <1>14 DEF Next, ThreadStep, Finished

-----------------------------------------------------------------------------
\* The inductive invariant holds initially and every step preserves it.
LEMMA IInvInit == Init => IInv
<1> SUFFICES ASSUME Init PROVE IInv
  OBVIOUS
<1> USE ThreadsAssumption, BoundsAssumption
<1>1. TypeOK
  BY DEF Init, TypeOK, Classification
<1>2. MutexInv /\ GrantInv /\ CacheInv /\ CarriedInv /\ RetryInv
  BY DEF Init, MutexInv, GrantInv, CacheInv, CarriedInv, RetryInv
<1>3. QED
  BY <1>1, <1>2 DEF IInv

LEMMA IInvStep == IInv /\ [Next]_vars => IInv'
BY TypeStep, MutexStep, GrantStep, CacheStep, CarriedStep, RetryStep DEF IInv

LEMMA Invariance == Spec => []IInv
BY IInvInit, IInvStep, PTL DEF Spec

\* The types of the variables are invariant.
THEOREM TypeCorrect == Spec => []TypeOK
<1>1. IInv => TypeOK
  BY DEF IInv
<1>2. QED
  BY <1>1, Invariance, PTL

\* A token that _is_fresh accepts is one that Okta still accepts, whatever the
\* lifetimes, as long as the skew covers the latency of a token response.
THEOREM FreshTokensAreAccepted == Spec => []FreshIsAccepted
<1>1. IInv => FreshIsAccepted
  <2> SUFFICES ASSUME IInv, IsFresh(cached, clock)
               PROVE  clock < serverExpires[cached.token]
    BY DEF FreshIsAccepted
  <2>1. cached # NoToken /\ clock < cached.refresh_at
    BY DEF IsFresh
  <2>2. /\ clock \in Nat
        /\ cached.refresh_at \in Nat
        /\ cached.token \in 1..issued
        /\ serverExpires[cached.token] \in Nat
    BY <2>1 DEF IInv, TypeOK, CacheInv, Entry
  <2>3. cached.refresh_at <= serverExpires[cached.token]
    BY <2>1, <2>2 DEF IInv, CacheInv
  <2>4. QED
    BY <2>1, <2>2, <2>3
<1>2. QED
  BY <1>1, Invariance, PTL

\* A refresh cooldown never outlives the token it protects.
THEOREM CooldownsProtectTokens == Spec => []CooldownNeedsToken
<1>1. IInv => CooldownNeedsToken
  BY DEF IInv, CacheInv, CooldownNeedsToken
<1>2. QED
  BY <1>1, Invariance, PTL

\* Only FetchSucceeds writes an entry to the cache, and then what the mutex
\* and the response guarantee holds.
LEMMA CacheWrite ==
  ASSUME IInv, [Next]_vars, cached' # cached, cached' # NoToken
  PROVE  ~IsFresh(cached, clock) /\ cached'.token = issued
<1>1. PICK t \in Threads : FetchSucceeds(t)
  BY DEF Next, ThreadStep, vars, cacheVars, NewRequest, ReadClock, LookUnlocked,
         LookLocked, StartFetch, FetchFails, HandleUnauthorized, DropToken, Answered,
         Rejected, Unauthorized, Issue, ResponseLost, Tick,
         Finished
<1>2. ~IsFresh(cached, clock)
  BY <1>1, ThreadsAssumption DEF FetchSucceeds, IInv, MutexInv
<1>3. cached'.token = issued
  BY <1>1, NewEntryType DEF FetchSucceeds, IInv, GrantInv, TypeOK
<1>4. QED
  BY <1>2, <1>3

\* Of any number of threads that find a refresh due, one fetches: a token that
\* is still fresh is never replaced, and a stale one only by the newest token
\* that Okta issued.
THEOREM OnlyStaleTokensAreReplaced == Spec => OnlyStaleReplaced
<1>1. IInv /\ [Next]_vars
      => [cached' # cached /\ cached' # NoToken
          => ~IsFresh(cached, clock) /\ cached'.token = issued]_vars
  BY CacheWrite
<1>2. QED
  BY <1>1, Invariance, PTL DEF Spec, OnlyStaleReplaced

\* The threads lose a cached token only to a 401 that blamed that very token.
THEOREM OnlyBlamedTokensAreDropped == Spec => OnlyBlamedDropped
<1>1. IInv /\ [Next]_vars
      => [cached # NoToken /\ cached' = NoToken => cached.token \in blamed]_vars
  <2> SUFFICES ASSUME IInv, [Next]_vars, cached # NoToken, cached' = NoToken
               PROVE  cached.token \in blamed
    OBVIOUS
  <2>1. ASSUME NEW t \in Threads, FetchSucceeds(t)
        PROVE  FALSE
    <3>1. NewEntry(grant, clock) \in Entry
      BY <2>1, NewEntryType DEF FetchSucceeds, IInv, TypeOK
    <3>2. cached' = NewEntry(grant, clock)
      BY <2>1 DEF FetchSucceeds
    <3>3. QED
      BY <3>1, <3>2, NoTokenAssumption
  <2>2. PICK t \in Threads : HandleUnauthorized(t)
    BY <2>1
    DEF Next, ThreadStep, vars, cacheVars, NewRequest, ReadClock, LookUnlocked,
        LookLocked, StartFetch, FetchFails, Answered, Rejected, Unauthorized,
        Issue, ResponseLost, Tick, Finished
  <2>3. CarriesCached(t) /\ blame[t] # "non_token" /\ pc[t] = "unauthorized"
    BY <2>2 DEF HandleUnauthorized, DropToken, cacheVars
  <2>4. QED
    BY <2>3 DEF CarriesCached, IInv, CarriedInv
<1>2. QED
  BY <1>1, Invariance, PTL DEF Spec, OnlyBlamedDropped

\* The retry that follows a 401 is never sent with the rejected token.
THEOREM RetriesUseAnotherToken == Spec => RetryUsesAnotherToken
<1>1. ASSUME IInv, [Next]_vars, NEW t \in Threads,
             pc[t] # "sent", pc'[t] = "sent", retried[t]
      PROVE  held'[t] # held[t]
  <2>1. \/ LookUnlocked(t) \/ LookLocked(t) \/ FetchSucceeds(t)
        \/ \E transient \in BOOLEAN : FetchFails(t, transient)
    BY <1>1
    DEF IInv, TypeOK, Next, ThreadStep, vars, threadVars, NewRequest, ReadClock,
        LookUnlocked, LookLocked, StartFetch, FetchSucceeds, FetchFails, Send,
        HandleUnauthorized, DropToken, Retry, Answered, Rejected, Unauthorized, Issue,
        ResponseLost,
        Tick, Finished
  <2>2. /\ cached # NoToken => cached.token # held[t]
        /\ grant # NoToken => grant.token # held[t]
        /\ held \in [Threads -> Nat \cup {NoToken}]
    <3>1. pc[t] \in {"look", "lock", "fetch"}
      BY <2>1 DEF LookUnlocked, LookLocked, FetchSucceeds, FetchFails
    <3>2. QED
      BY <1>1, <3>1 DEF IInv, RetryInv, TypeOK
  <2>3. CASE LookUnlocked(t)
    BY <1>1, <2>2, <2>3 DEF LookUnlocked, Send, IsFresh, IInv, TypeOK
  <2>4. CASE LookLocked(t)
    BY <2>2, <2>4 DEF LookLocked, Send, Usable, IsFresh, IsUnexpired
  <2>5. CASE FetchSucceeds(t)
    BY <2>2, <2>5 DEF FetchSucceeds, Send
  <2>6. CASE \E transient \in BOOLEAN : FetchFails(t, transient)
    <3>1. PICK transient \in BOOLEAN : FetchFails(t, transient)
      BY <2>6
    <3>2. captured = cached
      BY <3>1, ThreadsAssumption, <1>1 DEF FetchFails, IInv, MutexInv
    <3>3. QED
      BY <1>1, <2>2, <3>1, <3>2 DEF FetchFails, Send, IsUnexpired, IInv, TypeOK
  <2>7. QED
    BY <2>1, <2>3, <2>4, <2>5, <2>6
<1>2. IInv /\ [Next]_vars
      => [\A t \in Threads :
            pc[t] # "sent" /\ pc'[t] = "sent" /\ retried[t]
            => held'[t] # held[t]]_vars
  BY <1>1
<1>3. QED
  BY <1>2, Invariance, PTL DEF Spec, RetryUsesAnotherToken

\* The cached token is replaced and dropped for a cause only.
THEOREM CacheChangesAreJustified == Spec => CacheChangesForCause
  BY OnlyStaleTokensAreReplaced, OnlyBlamedTokensAreDropped
  DEF CacheChangesForCause
=============================================================================
