---------------------------- MODULE MCOrbNetRules ----------------------------
(***************************************************************************)
(* Small instances of OrbNetRules: an exact rule for each of two domains,  *)
(* the first that of an indicator, the second there from the start, a      *)
(* wildcard rule for both, and one whose name is not spelt as queries are. *)
(***************************************************************************)
EXTENDS OrbNetRules

CONSTANTS d1, d2, first, base, wild, shout, q1, q2, vpn

Names == [r \in {first, base, wild, shout} |->
           CASE r = first -> d1 [] r = base -> d2 [] OTHER -> None]

Matches == [r \in {first, base, wild, shout} |->
             CASE r = wild -> {d1, d2} [] r = shout -> {} [] OTHER -> {Names[r]}]
=============================================================================
