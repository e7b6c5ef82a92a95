---------------------------- MODULE GrantsBreaker ----------------------------
(***************************************************************************)
(* The OAuth grants of the applications (application_grants in source.py)   *)
(* and the breaker that stops their collection after a run of 403s          *)
(* (ConsecutiveAccessDeniedBreaker).  There is one generator per            *)
(* application.  The transformer is not parallelized: the pipeline resumes  *)
(* the generators on one thread, in any order, and each runs on until it    *)
(* yields a grant.  So a generator's look at the breaker and its first      *)
(* request are one step, and another generator's requests may come between  *)
(* two pages.                                                               *)
(***************************************************************************)
EXTENDS OktaOrg, Integers, Sequences

CONSTANTS
  OAuthApps,  \* those that are OpenID Connect or service applications
  Limit,      \* APPLICATION_GRANTS_ACCESS_DENIED_LIMIT
  MaxTrail    \* BOUND: responses after which every list of grants ends

\* The constructor rejects a limit below one.
ASSUME BreakerAssumption == /\ OAuthApps \subseteq Apps
                            /\ Limit \in Nat \ {0}
                            /\ MaxTrail \in Nat

VARIABLES
  denials,  \* _consecutive_denials
  tripped,  \* _tripped
  grants,   \* where the generator of each application stands
  asked,    \* history: applications whose grants were requested
  trail     \* history: the responses that said something about permissions

breakerVars == <<denials, tripped, grants, asked, trail>>

BreakerInit ==
  /\ denials = 0
  /\ tripped = FALSE
  /\ grants = [a \in Apps |-> "new"]
  /\ asked = {}
  /\ trail = <<>>

-----------------------------------------------------------------------------
\* Wrong: denials are counted, whatever comes between them (TripNeedsARun).
RecordSuccessKeepsCount ==
  /\ trail' = Append(trail, "granted")
  /\ UNCHANGED <<denials, tripped>>

\* record_success
RecordSuccess ==
  /\ denials' = 0
  /\ trail' = Append(trail, "granted")
  /\ UNCHANGED tripped

\* record_access_denied: a breaker that has tripped counts no more.
RecordAccessDenied ==
  /\ trail' = Append(trail, "denied")
  /\ \/ tripped /\ UNCHANGED <<denials, tripped>>
     \/ /\ ~tripped
        /\ denials' = denials + 1
        /\ tripped' = (denials' >= Limit)

\* Wrong: the breaker is not looked at (TrippedStopsRequests), any application
\* is asked for its grants (TypeOK).
MayAskTripped(a) == a \in OAuthApps
MayAskAnyone(a) == ~tripped

\* The generator is started and finds that it may ask.
MayAsk(a) == a \in OAuthApps /\ ~tripped

\* The generator is started and ends without a request.
SkipGrants(a) ==
  /\ grants[a] = "new"
  /\ ~MayAsk(a)
  /\ grants' = [grants EXCEPT ![a] = "done"]
  /\ UNCHANGED <<denials, tripped, asked, trail>>

\* It requests the first page, or the next one.
RequestsGrants(a) ==
  /\ \/ grants[a] = "new" /\ MayAsk(a)
     \/ grants[a] = "open"
  /\ asked' = asked \cup {a}

\* A page comes, and the generator is suspended at a grant or was at its end.
GrantsPage(a) ==
  /\ RequestsGrants(a)
  /\ RecordSuccess
  /\ \/ /\ Len(trail') < MaxTrail
        /\ grants' = [grants EXCEPT ![a] = "open"]
     \/ grants' = [grants EXCEPT ![a] = "done"]

\* HTTP 403.
GrantsDenied(a) ==
  /\ RequestsGrants(a)
  /\ RecordAccessDenied
  /\ grants' = [grants EXCEPT ![a] = "done"]

\* Any other failure, such as a 404 for an application deleted meanwhile, says
\* nothing about permissions.
GrantsFail(a) ==
  /\ RequestsGrants(a)
  /\ grants' = [grants EXCEPT ![a] = "done"]
  /\ UNCHANGED <<denials, tripped, trail>>

GrantsStep(a) == SkipGrants(a) \/ GrantsPage(a) \/ GrantsDenied(a) \/ GrantsFail(a)

-----------------------------------------------------------------------------
BreakerTypeOK ==
  /\ denials \in Nat
  /\ tripped \in BOOLEAN
  /\ grants \in [Apps -> {"new", "open", "done"}]
  /\ asked \subseteq OAuthApps
  /\ trail \in Seq({"granted", "denied"})

\* ConsecutiveAccessDeniedBreaker trips only after an uninterrupted run of
\* denials: no readable application lies between them, whichever generators
\* the responses belong to, and responses without a permission signal neither
\* count nor interrupt the run.
TripNeedsARun ==
  tripped => \E i \in Limit..Len(trail) :
               \A j \in (i - Limit + 1)..i : trail[j] = "denied"

\* What the breaker is for: a collector without the permission wastes no more
\* than Limit requests on it, however the generators take turns.
NoDenialsInVain ==
  (\A i \in DOMAIN trail : trail[i] = "denied") => Len(trail) <= Limit

\* The breaker trips neither too early nor too late.
TripsOnTime == TripNeedsARun /\ NoDenialsInVain

\* After the breaker has tripped no further application is asked for its
\* grants, not even if a listing that was under way succeeds once more.
TrippedStopsRequests == [][ tripped => tripped' /\ asked' = asked ]_breakerVars
=============================================================================
