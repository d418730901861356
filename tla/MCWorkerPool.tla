---------------------------- MODULE MCWorkerPool ----------------------------
(* WorkerPool on small sets of goroutines and tasks.                       *)
EXTENDS WorkerPool
=============================================================================
