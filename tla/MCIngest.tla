------------------------------ MODULE MCIngest ------------------------------
(***************************************************************************)
(* A small instance of Ingest: fetchers a1 and a2 of the API process, w1   *)
(* of the worker process, one source and one indicator, which is all that  *)
(* any property speaks of at a time.                                       *)
(***************************************************************************)
EXTENDS IngestProps

CONSTANTS h1, abuse, api, worker, a1, a2, w1

ApiAndWorker == [f \in {a1, a2, w1} |-> IF f = w1 THEN worker ELSE api]

OneList == [s \in {abuse} |-> {<<h1>>}]
=============================================================================
