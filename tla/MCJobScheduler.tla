--------------------------- MODULE MCJobScheduler ---------------------------
(***************************************************************************)
(* A small instance of JobScheduler: two replicas, callers reach one.      *)
(***************************************************************************)
EXTENDS JobScheduler

CONSTANTS r1, r2, s1, j1, j2, j3
=============================================================================
