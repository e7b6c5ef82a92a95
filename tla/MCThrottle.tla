----------------------------- MODULE MCThrottle -----------------------------
(***************************************************************************)
(* An instance of Throttle for TLC.  Either all threads ask one family, so   *)
(* that one of them queues for a slot, or the third asks the other one, so   *)
(* that it waits for a permit while it holds a slot.  Other choices of       *)
(* families are these two with other names of threads and families.         *)
(***************************************************************************)
EXTENDS Throttle

CONSTANTS t1, t2, t3, f1, f2

MCThreads == {t1, t2, t3}
MCFamilies == {f1, f2}
MCAsks == [t \in MCThreads |-> IF t = t3 THEN MCFamilies ELSE {f1}]
MCDelays == {0, 1}

\* A reply with malformed headers publishes nothing, like a final one.
MCReplies == ReplyKinds \ {"malformed"}
=============================================================================
