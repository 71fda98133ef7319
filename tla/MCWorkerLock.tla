---------------------------- MODULE MCWorkerLock ----------------------------
(***************************************************************************)
(* Small instances of WorkerLock.                                          *)
(***************************************************************************)
EXTENDS WorkerLock, TLC

CONSTANTS w1, w2, w3

\* Workers are alike.
Symmetry == Permutations(Worker)
=============================================================================
