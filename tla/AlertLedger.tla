---------------------------- MODULE AlertLedger ----------------------------
(***************************************************************************)
(* What the SIEM event path promises: an event is on record for a target   *)
(* before that target receives it, no target receives it twice, and its    *)
(* record says "forwarded" only when the target has it.                    *)
(***************************************************************************)
EXTENDS Naturals

CONSTANTS
  Alert  \* an event and what it is addressed to

VARIABLES
  row,      \* row[a]: what the feed says of alert a
  received  \* received[a]: how often the target has received it

Outcome == {"forwarded", "failed"}

Init ==
  /\ row = [a \in Alert |-> "none"]
  /\ received = [a \in Alert |-> 0]

Insert(a) ==
  /\ row[a] = "none"
  /\ row' = [row EXCEPT ![a] = "open"]
  /\ UNCHANGED received

\* A target receives a batch, or the part of one it got.
Receive(B) ==
  /\ \A a \in B : row[a] = "open" /\ received[a] = 0
  /\ received' = [a \in Alert |-> IF a \in B THEN 1 ELSE received[a]]
  /\ UNCHANGED row

SetOutcome(B, outcome) ==
  /\ \A a \in B : row[a] = "open" /\ (outcome = "forwarded" => received[a] = 1)
  /\ row' = [a \in Alert |-> IF a \in B THEN outcome ELSE row[a]]
  /\ UNCHANGED received

Next ==
  \/ \E a \in Alert : Insert(a)
  \/ \E B \in SUBSET Alert :
       Receive(B) \/ \E outcome \in Outcome : SetOutcome(B, outcome)

Spec == Init /\ [][Next]_<<row, received>>
=============================================================================
