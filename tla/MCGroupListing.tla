--------------------------- MODULE MCGroupListing ---------------------------
(***************************************************************************)
(* Instances of GroupListing for TLC.                                      *)
(***************************************************************************)
EXTENDS GroupListing

MCDelays == {0, 2}

\* The divisors (1, 2, 4) and one more, so that the small page size of the
\* instance has two fallbacks and then a quotient of zero, which is clamped to
\* a size that was there before.
MCDivisors == <<1, 2, 4, 8>>
=============================================================================
