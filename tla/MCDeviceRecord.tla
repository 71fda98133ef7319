--------------------------- MODULE MCDeviceRecord ---------------------------
(***************************************************************************)
(* Small instances of DeviceRecord.  Operations that share state meet in   *)
(* one scene.                                                              *)
(***************************************************************************)
EXTENDS DeviceRecord, TLC

CONSTANTS h1, h2, alice, bob, sim1, sim2

Symmetry ==
  Permutations(Handler) \cup Permutations(Account) \cup Permutations(SIM)

Scenes == {
  {"register", "update", "mark", "claim"},
  {"update", "mark", "command", "get"},
  {"register", "claim", "get"},
  {"mark", "report", "trust"},
  {"register", "command", "trust", "choose"},
  {"locate", "update"}}
=============================================================================
