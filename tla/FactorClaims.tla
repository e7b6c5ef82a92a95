---------------------------- MODULE FactorClaims ----------------------------
(***************************************************************************)
(* The authentication factors of the users (UserFactorClaims, user_factors, *)
(* user_factor_rows and admin_group_members in source.py) and the number    *)
(* that the graph shows for them (user_authentication_factors_count in      *)
(* lookup.py).  Either every user is covered or, with                       *)
(* limit_user_mfa_collection, the privileged ones, who come from two        *)
(* listings at once: the users with roles of their own, and the members of  *)
(* the groups that have admin privileges.  The same user may come several   *)
(* times, and one generator runs for each record, all of them in parallel.  *)
(***************************************************************************)
EXTENDS Integers, FiniteSets

CONSTANTS
  Users,        \* the users
  Privileged,   \* those with roles of their own
  Groups,       \* the groups
  AdminGroups,  \* those whose statistics say hasAdminPrivilege
  Members,      \* the members of each group
  Limited,      \* limit_user_mfa_collection
  Factors,      \* the authentication factors
  Enrolled,     \* Okta: the factors of each user
  Active,       \* Okta: the factors with status ACTIVE
  Listing,      \* stands for a listing of users
  NoFactor,     \* the factor id of a marker row
  NotCollected  \* the count of a user without rows

ASSUME OrgAssumption == /\ Privileged \subseteq Users
                        /\ AdminGroups \subseteq Groups
                        /\ Members \in [Groups -> SUBSET Users]
                        /\ Limited \in BOOLEAN
                        /\ Enrolled \in [Users -> SUBSET Factors]
                        /\ IsFiniteSet(Factors)
                        /\ Active \subseteq Factors

ASSUME ModelValuesAssumption == /\ Listing \notin Groups
                                /\ NoFactor \notin Factors
                                /\ NotCollected \notin Nat

\* The records that reach user_factors: a user, from a listing of users or
\* from the memberships of a group.
Records ==
  IF Limited
  THEN {[from |-> Listing, user |-> u] : u \in Privileged}
         \cup UNION {{[from |-> g, user |-> u] : u \in Members[g]} : g \in Groups}
  ELSE {[from |-> Listing, user |-> u] : u \in Users}

Row == [user: Users, factor: Factors \cup {NoFactor}, by: Records]

VARIABLES
  pc,        \* where the generator of each record stands
  claimed,   \* _claimed
  gathered,  \* the factors on the pages that it has got
  yielded,   \* those of its rows that it has yielded
  rows,      \* the table user_factors
  fetchers,  \* history: records whose generator requested factors
  failed,    \* history: users whose factors could not be fetched
  outcome    \* of the run

vars == <<pc, claimed, gathered, yielded, rows, fetchers, failed, outcome>>

Init ==
  /\ pc = [r \in Records |-> "new"]
  /\ claimed = {}
  /\ gathered = [r \in Records |-> {}]
  /\ yielded = [r \in Records |-> {}]
  /\ rows = {}
  /\ fetchers = {}
  /\ failed = {}
  /\ outcome = "running"

-----------------------------------------------------------------------------
\* A record gets past admin_group_members unless it is a membership of a
\* group without admin privileges.
IsCovered(r) == r.from \in AdminGroups \cup {Listing}

\* The membership is dropped.
Drop(r) ==
  /\ pc[r] = "new"
  /\ ~IsCovered(r)
  /\ pc' = [pc EXCEPT ![r] = "done"]
  /\ UNCHANGED <<claimed, gathered, yielded, rows, fetchers, failed, outcome>>

\* Wrong: the record is remembered instead of the user (TypeOK, FetchedOnce).
ClaimRecord(r) ==
  /\ pc[r] = "new"
  /\ IsCovered(r)
  /\ r \notin claimed
  /\ claimed' = claimed \cup {r}
  /\ fetchers' = fetchers \cup {r}
  /\ pc' = [pc EXCEPT ![r] = "fetching"]
  /\ UNCHANGED <<gathered, yielded, rows, failed, outcome>>

\* claim: the first generator that asks for the user gets him.
Claim(r) ==
  /\ pc[r] = "new"
  /\ IsCovered(r)
  /\ r.user \notin claimed
  /\ claimed' = claimed \cup {r.user}
  /\ fetchers' = fetchers \cup {r}
  /\ pc' = [pc EXCEPT ![r] = "fetching"]
  /\ UNCHANGED <<gathered, yielded, rows, failed, outcome>>

\* Any later one ends without rows.
AlreadyClaimed(r) ==
  /\ pc[r] = "new"
  /\ IsCovered(r)
  /\ r.user \in claimed
  /\ pc' = [pc EXCEPT ![r] = "done"]
  /\ UNCHANGED <<claimed, gathered, yielded, rows, fetchers, failed, outcome>>

\* A page of factors comes.
Page(r) ==
  /\ pc[r] = "fetching"
  /\ \E page \in (SUBSET (Enrolled[r.user] \ gathered[r])) \ {{}} :
       gathered' = [gathered EXCEPT ![r] = @ \cup page]
  /\ UNCHANGED <<pc, claimed, yielded, rows, fetchers, failed, outcome>>

\* The last page has come; only now are rows yielded.
Fetched(r) ==
  /\ pc[r] = "fetching"
  /\ gathered[r] = Enrolled[r.user]
  /\ pc' = [pc EXCEPT ![r] = "yielding"]
  /\ UNCHANGED <<claimed, gathered, yielded, rows, fetchers, failed, outcome>>

\* A request fails, whichever way: the generator ends without rows, and the
\* user stays claimed.
FetchFails(r) ==
  /\ pc[r] = "fetching"
  /\ pc' = [pc EXCEPT ![r] = "done"]
  /\ failed' = failed \cup {r.user}
  /\ UNCHANGED <<claimed, gathered, yielded, rows, fetchers, outcome>>

\* Wrong: no marker for a user without factors (CountsAreOktas).
RowsOfNoMarker(r) == gathered[r]

\* rows or [{"user_id": user_id}]: one row for each factor, or the marker.
RowsOf(r) == IF gathered[r] = {} THEN {NoFactor} ELSE gathered[r]

\* The generator yields its next row.
Yield(r) ==
  /\ pc[r] = "yielding"
  /\ \E f \in RowsOf(r) \ yielded[r] :
       /\ yielded' = [yielded EXCEPT ![r] = @ \cup {f}]
       /\ rows' = rows \cup {[user |-> r.user, factor |-> f, by |-> r]}
  /\ UNCHANGED <<pc, claimed, gathered, fetchers, failed, outcome>>

GeneratorEnds(r) ==
  /\ pc[r] = "yielding"
  /\ yielded[r] = RowsOf(r)
  /\ pc' = [pc EXCEPT ![r] = "done"]
  /\ UNCHANGED <<claimed, gathered, yielded, rows, fetchers, failed, outcome>>

\* The run ends well when all the records have been worked off.  It fails if
\* a request exhausted its retries or something else failed.
RunEnds ==
  /\ \/ (\A r \in Records : pc[r] = "done") /\ outcome' = "complete"
     \/ outcome' = "failed"
  /\ UNCHANGED <<pc, claimed, gathered, yielded, rows, fetchers, failed>>

GeneratorStep(r) ==
  \/ Drop(r) \/ Claim(r) \/ AlreadyClaimed(r)
  \/ Page(r) \/ Fetched(r) \/ FetchFails(r)
  \/ Yield(r) \/ GeneratorEnds(r)

Ended == outcome # "running" /\ UNCHANGED vars

Next ==
  \/ outcome = "running" /\ ((\E r \in Records : GeneratorStep(r)) \/ RunEnds)
  \/ Ended

Spec == Init /\ [][Next]_vars

-----------------------------------------------------------------------------
\* SELECT COUNT(*), COUNT(id) FILTER (WHERE status = 'ACTIVE')
RowsFor(u) == {row \in rows : row.user = u}

ActiveRowsFor(u) == {row \in RowsFor(u) : row.factor \in Active}

\* user_authentication_factors_count
Count(u) == IF RowsFor(u) = {} THEN NotCollected ELSE Cardinality(ActiveRowsFor(u))

-----------------------------------------------------------------------------
TypeOK ==
  /\ pc \in [Records -> {"new", "fetching", "yielding", "done"}]
  /\ claimed \subseteq Users
  /\ gathered \in [Records -> SUBSET Factors]
  /\ yielded \in [Records -> SUBSET (Factors \cup {NoFactor})]
  /\ rows \subseteq Row
  /\ fetchers \subseteq Records
  /\ failed \subseteq Users
  /\ outcome \in {"running", "complete", "failed"}

\* A user who comes from several listings at once is fetched by one generator
\* only, and so has no row twice.
FetchedOnce ==
  \A r, s \in fetchers : r.user = s.user => r = s

\* A user whose factors could not be read has no row at all: no count is
\* understated because the fetch stopped half way.
FailedLeavesNothing == \A u \in failed : RowsFor(u) = {}

\* No user's rows are doubled, and none are cut off.
FactorRowsAreWhole == FetchedOnce /\ FailedLeavesNothing

\* The users whose factors the run promises.
Covered == {r.user : r \in {s \in Records : IsCovered(s)}}

\* When the run has ended well the count of a user is the number of active
\* factors in Okta, 0 included, unless the user is not covered or the fetch
\* failed; then there is none.
CountsAreOktas ==
  outcome = "complete" =>
    \A u \in Users :
      Count(u) = IF u \in Covered \ failed
                 THEN Cardinality(Enrolled[u] \cap Active)
                 ELSE NotCollected

\* With limit_user_mfa_collection only users with admin privileges, of their
\* own or from a group, cost a request.
OnlyPrivilegedCovered ==
  Limited => claimed \subseteq Privileged \cup UNION {Members[g] : g \in AdminGroups}
=============================================================================
