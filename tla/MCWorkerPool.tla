---------------------------- MODULE MCWorkerPool ----------------------------
(* WorkerPool for TLC: five entries in three items, the last one cut. *)
EXTENDS WorkerPool
=============================================================================
