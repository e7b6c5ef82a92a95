---------------------------- MODULE MCBearerAuth ----------------------------
(***************************************************************************)
(* Instances of BearerAuth for TLC.  Lifetimes are 0 (a server that answers *)
(* expires_in = -2), short (the skew is half the lifetime) and long (the   *)
(* skew is the configured one).                                            *)
(***************************************************************************)
EXTENDS BearerAuth, TLC

CONSTANTS t1, t2

MCThreads == {t1, t2}
MCLifetimes == {-2, 4}

Symmetry == Permutations(Threads)
=============================================================================
