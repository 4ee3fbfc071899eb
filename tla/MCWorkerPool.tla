---------------------------- MODULE MCWorkerPool ----------------------------
(* Instances of WorkerPool for TLC: more tasks than slots.                 *)
EXTENDS WorkerPool

CONSTANTS t1, t2, t3
=============================================================================
