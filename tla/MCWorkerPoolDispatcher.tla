----------------------- MODULE MCWorkerPoolDispatcher -----------------------
(***************************************************************************)
(* Instances of WorkerPoolDispatcher for TLC.                              *)
(***************************************************************************)
EXTENDS WorkerPoolDispatcher

CONSTANTS d1, d2, w1
=============================================================================
