-------------------------- MODULE MCSourceSchedule --------------------------
(***************************************************************************)
(* A small instance of SourceSchedule: a source that answers, fails,       *)
(* throttles and refuses; two API replicas that run a loop each, and one   *)
(* of them a second fetcher beside it; an administrator.                   *)
(***************************************************************************)
EXTENDS SourceSchedule

CONSTANTS greynoise, loop1, loop2, other, api1, api2, patch

EveryPeriod == [s \in {greynoise} |-> {1}]
TwoReplicas == [c \in {loop1, loop2, other} |-> IF c = loop2 THEN api2 ELSE api1]
=============================================================================
