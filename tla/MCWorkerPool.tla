---------------------------- MODULE MCWorkerPool ----------------------------
(***************************************************************************)
(* An instance of WorkerPool for TLC: two workers, and a third to replace  *)
(* one that dies.                                                          *)
(***************************************************************************)
EXTENDS WorkerPool

CONSTANTS w1, w2, w3

=============================================================================
