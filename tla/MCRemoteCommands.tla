-------------------------- MODULE MCRemoteCommands --------------------------
(***************************************************************************)
(* Small instances of RemoteCommands.                                      *)
(***************************************************************************)
EXTENDS RemoteCommands

CONSTANTS app, worker
=============================================================================
