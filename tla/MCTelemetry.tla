---------------------------- MODULE MCTelemetry ----------------------------
(***************************************************************************)
(* Instances of Telemetry for TLC.  A full summary may fit into the reserve *)
(* or not.                                                                 *)
(***************************************************************************)
EXTENDS Telemetry, TLC

CONSTANTS w1, w2

MCWorkers == {w1, w2}
MCOneWorker == {w1}
MCSummaryBytes == {1, 4}

Symmetry == Permutations(Workers)
=============================================================================
