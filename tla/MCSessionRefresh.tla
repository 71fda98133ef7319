-------------------------- MODULE MCSessionRefresh --------------------------
(***************************************************************************)
(* Small instances of SessionRefresh: the app with two requests, and its   *)
(* headless agent with one.                                                *)
(***************************************************************************)
EXTENDS SessionRefresh

CONSTANTS app, agent, a1, a2, g1

AppAndAgent == [r \in {a1, a2, g1} |-> IF r = g1 THEN agent ELSE app]
=============================================================================
