-------------------------- MODULE IndicatorCatalog --------------------------
(***************************************************************************)
(* What the ingestion pipeline promises about the indicators it has met,   *)
(* with no mention of processes, caches or batches.                        *)
(*                                                                         *)
(*   stored     the indicators that have a row in the database             *)
(*   passed     the indicators handled where there was no database         *)
(*   skipped    the indicators a later fetch may pass over unread          *)
(*   announced  the indicators subscribers were told about                 *)
(*                                                                         *)
(* A row is never lost.  Nothing is passed over before it has a row, and   *)
(* subscribers only hear of indicators they can then look up, but for      *)
(* those that were handled without a database.                             *)
(***************************************************************************)
CONSTANT Hash

VARIABLES stored, passed, skipped, announced

vars == <<stored, passed, skipped, announced>>

Init ==
  /\ stored = {}
  /\ passed = {}
  /\ skipped = {}
  /\ announced = {}

Store(h) ==
  /\ stored' = stored \cup {h}
  /\ UNCHANGED <<passed, skipped, announced>>

\* Handled, and not stored.
Pass(h) ==
  /\ passed' = passed \cup {h}
  /\ UNCHANGED <<stored, skipped, announced>>

Known == stored \cup passed

\* Remembering and forgetting are both allowed, of known indicators only.
Remember(S) ==
  /\ S \subseteq Known
  /\ skipped' = S
  /\ UNCHANGED <<stored, passed, announced>>

Announce(h) ==
  /\ h \in Known
  /\ announced' = announced \cup {h}
  /\ UNCHANGED <<stored, passed, skipped>>

Next ==
  \/ \E h \in Hash : Store(h) \/ Pass(h) \/ Announce(h)
  \/ \E S \in SUBSET Known : Remember(S)

Spec == Init /\ [][Next]_vars
=============================================================================
