-------------------------- MODULE MCTaskDispatcher --------------------------
(***************************************************************************)
(* An instance of TaskDispatcher for TLC: three tasks contend for a        *)
(* channel of one slot and two workers.                                    *)
(***************************************************************************)
EXTENDS TaskDispatcher

CONSTANTS t1, t2, t3, w1, w2

MCTasks == {t1, t2, t3}
MCWorkers == {w1, w2}
MCRetries == {0, 1}
=============================================================================
