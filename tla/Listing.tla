------------------------------ MODULE Listing ------------------------------
(***************************************************************************)
(* What a paginated collection promises to the pipeline that loads its rows *)
(* (resources of source.py): the rows come in order, each one once, and the *)
(* collection ends well only if all have come.  A collection that cannot go *)
(* on fails, which keeps the pipeline from publishing the rows it has got.  *)
(***************************************************************************)
EXTENDS Integers, Sequences

CONSTANT Total  \* the number of rows that Okta has, a natural number

VARIABLES
  rows,    \* the rows yielded to the pipeline
  outcome  \* of the collection

listingVars == <<rows, outcome>>

\* Rows are numbered in the order in which Okta lists them.
Prefix(n) == [i \in 1..n |-> i]

Init == rows = <<>> /\ outcome = "running"

\* A page is yielded.
Deliver ==
  /\ outcome = "running"
  /\ \E n \in Len(rows)..Total : rows' = Prefix(n)
  /\ UNCHANGED outcome

Complete ==
  /\ outcome = "running"
  /\ Len(rows) = Total
  /\ outcome' = "complete"
  /\ UNCHANGED rows

Fail ==
  /\ outcome = "running"
  /\ outcome' = "failed"
  /\ UNCHANGED rows

Next == Deliver \/ Complete \/ Fail

Spec == Init /\ [][Next]_listingVars
=============================================================================
