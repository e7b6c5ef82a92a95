--------------------------- MODULE MCRequestRetry ---------------------------
(***************************************************************************)
(* Instances of RequestRetry for TLC.                                      *)
(***************************************************************************)
EXTENDS RequestRetry

MCDelays == {0, 1, 3}
=============================================================================
