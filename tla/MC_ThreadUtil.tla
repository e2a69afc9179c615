----------------------------- MODULE MC_ThreadUtil -----------------------------
(* Constants for checking ThreadUtil.  The thread: as in MC_Thread.  The    *)
(* pool: two threads, three tasks scheduled at once and one with a delay,   *)
(* so that schedule() and the timer find the pool full.                    *)
EXTENDS ThreadUtil

CONSTANTS c1, k1, k2, k3, k4

MC_OneCaller == {c1}
MC_AllOps == {"run", "stop", "setTask"}
MC_Tasks == {k1, k2, k3, k4}
MC_Delayed == {k4}
==============================================================================
