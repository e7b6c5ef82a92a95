---------------------------- MODULE Applications ----------------------------
(***************************************************************************)
(* The applications of a collection (source in source.py): the listing,     *)
(* with the Entra tenant ids that EntraTenantIdResolver adds to it, feeds   *)
(* the generators of GrantsBreaker and of GroupAssignments.  The listing    *)
(* and the assignments are authoritative: if one of them fails the run      *)
(* fails and nothing is published.                                          *)
(***************************************************************************)
EXTENDS GrantsBreaker, GroupAssignments

CONSTANTS
  Office,   \* the Office 365 applications that name a Microsoft tenant
  TenantOf, \* the tenant of each, as _domain_name spells it
  Unknown   \* there is no answer for this tenant yet

Tenants == {TenantOf[a] : a \in Office}

\* What Microsoft may answer: a tenant id, or none.
Answers == {"id", "none"}

ASSUME OfficeAssumption == /\ Office \subseteq Apps
                           /\ DOMAIN TenantOf = Office
                           /\ Unknown \notin Answers

VARIABLES
  arrived,   \* applications that the listing has yielded
  tenantIds, \* _tenant_ids
  enriched,  \* the answer that each Office application was given
  lookups,   \* history: requests to Microsoft for each tenant
  outcome    \* of the run

tenantVars == <<tenantIds, enriched, lookups>>
vars == <<breakerVars, assignmentVars, arrived, tenantVars, outcome>>

Init ==
  /\ BreakerInit
  /\ AssignmentsInit
  /\ arrived = {}
  /\ tenantIds = [n \in Tenants |-> Unknown]
  /\ enriched = [a \in Office |-> Unknown]
  /\ lookups = [n \in Tenants |-> 0]
  /\ outcome = "running"

-----------------------------------------------------------------------------
\* Wrong: a failure is not remembered (OneLookupPerTenant).
RememberSuccess(n, answer) ==
  tenantIds' = IF answer = "none" THEN tenantIds
                                  ELSE [tenantIds EXCEPT ![n] = answer]

\* Failures are cached like tenant ids.
Remember(n, answer) == tenantIds' = [tenantIds EXCEPT ![n] = answer]

\* resolve: the tenant is asked for once.
Resolve(a, n) ==
  \/ /\ tenantIds[n] # Unknown
     /\ enriched' = [enriched EXCEPT ![a] = tenantIds[n]]
     /\ UNCHANGED <<tenantIds, lookups>>
  \/ /\ tenantIds[n] = Unknown
     /\ lookups' = [lookups EXCEPT ![n] = @ + 1]
     /\ \E answer \in Answers :
          /\ Remember(n, answer)
          /\ enriched' = [enriched EXCEPT ![a] = answer]

\* The listing yields an application; enrich is a map step of it.
Arrive(a) ==
  /\ a \notin arrived
  /\ arrived' = arrived \cup {a}
  /\ IF a \in Office THEN Resolve(a, TenantOf[a]) ELSE UNCHANGED tenantVars
  /\ UNCHANGED <<breakerVars, assignmentVars, outcome>>

GrantsTurn(a) ==
  /\ a \in arrived
  /\ GrantsStep(a)
  /\ UNCHANGED <<assignmentVars, arrived, tenantVars, outcome>>

AssignmentsTurn(a) ==
  /\ a \in arrived
  /\ AssignmentsStep(a)
  /\ UNCHANGED <<breakerVars, arrived, tenantVars, outcome>>

Change(a) ==
  /\ \E g \in Groups : Update(a, g)
  /\ UNCHANGED <<breakerVars, arrived, tenantVars, outcome>>

\* The run fails: a generator of the assignments has raised, the listing
\* raises, a request for grants exhausts its retries, or something else fails.
Abort ==
  /\ outcome' = "failed"
  /\ UNCHANGED <<breakerVars, assignmentVars, arrived, tenantVars>>

Through(a) == grants[a] = "done" /\ lists[a] = "done"

\* Everything has been extracted: the rows are published.
Publish ==
  /\ arrived = Apps
  /\ \A a \in Apps : Through(a)
  /\ outcome' = "complete"
  /\ UNCHANGED <<breakerVars, assignmentVars, arrived, tenantVars>>

Ended == outcome # "running" /\ UNCHANGED vars

Next ==
  \/ /\ outcome = "running"
     /\ \/ \E a \in Apps : \/ Arrive(a) \/ GrantsTurn(a) \/ AssignmentsTurn(a)
                           \/ Change(a)
        \/ Abort
        \/ Publish
  \/ Ended

Spec == Init /\ [][Next]_vars

-----------------------------------------------------------------------------
TypeOK ==
  /\ BreakerTypeOK
  /\ AssignmentsTypeOK
  /\ arrived \subseteq Apps
  /\ tenantIds \in [Tenants -> Answers \cup {Unknown}]
  /\ enriched \in [Office -> Answers \cup {Unknown}]
  /\ lookups \in [Tenants -> Nat]
  /\ outcome \in {"running", "complete", "failed"}

\* "an exhausted required request fails the collection so DLT does not publish
\* an incomplete replacement" (README.md): what is published has every
\* assignment of every application, one row for each, and contradicts nothing
\* that Okta listed meanwhile.
PublishedIsExact ==
  outcome = "complete" =>
    /\ \A a \in Apps : {r.group : r \in {s \in rows : s.app = a}} = Assigned[a]
    /\ OneRowPerAssignment
    /\ listed \subseteq rows

\* Each tenant is asked for once, also if there is no answer, and all the
\* applications that name it are told the same.
OneLookupPerTenant ==
  /\ \A n \in Tenants : lookups[n] <= 1
  /\ \A a, b \in Office \cap arrived :
       TenantOf[a] = TenantOf[b] => enriched[a] = enriched[b]
=============================================================================
