-------------------------- MODULE GroupAssignments --------------------------
(***************************************************************************)
(* The groups assigned to the applications (group_assigned_apps and         *)
(* application_group_assignment_rows in source.py).  The rows of a          *)
(* collection replace those of the one before, so it is all or nothing: an  *)
(* assignment that is listed twice is dropped if it says the same both      *)
(* times, anything else that is wrong fails the collection.                 *)
(*                                                                         *)
(* What an assignment says (priority, profile, time of the last update) is  *)
(* its evidence; the fingerprint stands for it.  Okta may list a group      *)
(* twice, when the list changes between two pages.                          *)
(***************************************************************************)
EXTENDS OktaOrg, Integers

CONSTANTS
  Groups,      \* the groups
  Assigned,    \* Okta: the groups that are assigned to each application
  NoEvidence,  \* no fingerprint is kept for the group
  MaxUpdates,  \* BOUND: changes of assignments during the collection
  MaxRepeats   \* BOUND: repeated items in the list of one application

ASSUME AssignmentsAssumption ==
  /\ Assigned \in [Apps -> SUBSET Groups]
  /\ MaxUpdates \in Nat
  /\ MaxRepeats \in Nat
  /\ NoEvidence \notin Nat

VARIABLES
  lists,         \* where the generator of each application stands
  fingerprints,  \* assignment_fingerprints of each application
  toCome,        \* assigned groups that are not listed yet
  repeats,       \* items that were listed again
  rows,          \* the rows yielded
  evidence,      \* Okta: what each assignment says now, numbered
  updates,       \* number of changes
  listed         \* history: the rows for all the items that Okta listed

assignmentVars ==
  <<lists, fingerprints, toCome, repeats, rows, evidence, updates, listed>>

AssignmentsInit ==
  /\ lists = [a \in Apps |-> "new"]
  /\ fingerprints = [a \in Apps |-> [g \in Groups |-> NoEvidence]]
  /\ toCome = Assigned
  /\ repeats = [a \in Apps |-> 0]
  /\ rows = {}
  /\ evidence = [a \in Apps |-> [g \in Groups |-> 0]]
  /\ updates = 0
  /\ listed = {}

-----------------------------------------------------------------------------
\* The row for an item: the application, the group and what the item says.
RowFor(a, g) == [app |-> a, group |-> g, evidence |-> evidence[a][g]]

\* Okta lists an assigned group, or one that it has listed before.
List(a, g) ==
  /\ lists[a] = "new"
  /\ \/ /\ g \in toCome[a]
        /\ toCome' = [toCome EXCEPT ![a] = @ \ {g}]
        /\ UNCHANGED repeats
     \/ /\ g \in Assigned[a] \ toCome[a]
        /\ repeats[a] < MaxRepeats
        /\ repeats' = [repeats EXCEPT ![a] = @ + 1]
        /\ UNCHANGED toCome
  /\ listed' = listed \cup {RowFor(a, g)}
  /\ UNCHANGED <<evidence, updates>>

\* Wrong: no fingerprint is kept (PublishedIsExact).
NewAssignmentUnmarked(a, g) ==
  /\ fingerprints[a][g] = NoEvidence
  /\ rows' = rows \cup {RowFor(a, g)}
  /\ UNCHANGED <<lists, fingerprints>>

\* The first item of a group is yielded.
NewAssignment(a, g) ==
  /\ fingerprints[a][g] = NoEvidence
  /\ fingerprints' = [fingerprints EXCEPT ![a][g] = evidence[a][g]]
  /\ rows' = rows \cup {RowFor(a, g)}
  /\ UNCHANGED lists

\* The item repeats what was said before.
Agrees(a, g) == fingerprints[a][g] = evidence[a][g]

\* An identical duplicate is counted and dropped.
DuplicateAssignment(a, g) ==
  /\ fingerprints[a][g] # NoEvidence
  /\ Agrees(a, g)
  /\ UNCHANGED <<lists, fingerprints, rows>>

\* A duplicate that says something else raises.
ConflictingAssignment(a, g) ==
  /\ fingerprints[a][g] # NoEvidence
  /\ ~Agrees(a, g)
  /\ lists' = [lists EXCEPT ![a] = "failed"]
  /\ UNCHANGED <<fingerprints, rows>>

Item(a, g) ==
  /\ List(a, g)
  /\ NewAssignment(a, g) \/ DuplicateAssignment(a, g) \/ ConflictingAssignment(a, g)

\* A request fails, or an item has no usable group ID: the failure is logged
\* and raised.
ListFails(a) ==
  /\ lists[a] = "new"
  /\ lists' = [lists EXCEPT ![a] = "failed"]
  /\ UNCHANGED <<fingerprints, toCome, repeats, rows, evidence, updates, listed>>

\* The last page has been read.
ListEnds(a) ==
  /\ lists[a] = "new"
  /\ toCome[a] = {}
  /\ lists' = [lists EXCEPT ![a] = "done"]
  /\ UNCHANGED <<fingerprints, toCome, repeats, rows, evidence, updates, listed>>

\* An administrator changes an assignment.
Update(a, g) ==
  /\ g \in Assigned[a]
  /\ updates < MaxUpdates
  /\ updates' = updates + 1
  /\ evidence' = [evidence EXCEPT ![a][g] = @ + 1]
  /\ UNCHANGED <<lists, fingerprints, toCome, repeats, rows, listed>>

AssignmentsStep(a) ==
  \/ \E g \in Groups : Item(a, g)
  \/ ListFails(a)
  \/ ListEnds(a)

-----------------------------------------------------------------------------
Row == [app: Apps, group: Groups, evidence: Nat]

AssignmentsTypeOK ==
  /\ lists \in [Apps -> {"new", "done", "failed"}]
  /\ fingerprints \in [Apps -> [Groups -> Nat \cup {NoEvidence}]]
  /\ toCome \in [Apps -> SUBSET Groups]
  /\ repeats \in [Apps -> Nat]
  /\ rows \subseteq Row
  /\ evidence \in [Apps -> [Groups -> Nat]]
  /\ updates \in Nat
  /\ listed \subseteq Row

\* However often Okta lists a group, and whatever changes meanwhile, the
\* generator yields one row for each assignment.
OneRowPerAssignment ==
  \A r, s \in rows : r.app = s.app /\ r.group = s.group => r = s
=============================================================================
