----------------------------- MODULE MCLoopThread -----------------------------
(* LoopThread for TLC: one loop object, as its threads share nothing with    *)
(* those of another object; three thread identities, so that a thread that   *)
(* is still winding down, one not yet scheduled and a new one overlap.       *)
EXTENDS LoopThread

CONSTANTS l1, t1, t2, t3, c1, io

MCLoops   == {l1}
MCThreads == {t1, t2, t3}
MCCallers == {c1}
MCErrors  == {io}
=============================================================================
