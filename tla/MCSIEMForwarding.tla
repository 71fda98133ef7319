-------------------------- MODULE MCSIEMForwarding --------------------------
(***************************************************************************)
(* Two integrations: splunk wants both events, elastic one of them.        *)
(***************************************************************************)
EXTENDS SIEMForwarding

CONSTANTS splunk, elastic, e1, e2

Filters == [i \in {splunk, elastic} |->
              IF i = splunk THEN {e1, e2} ELSE {e1}]
=============================================================================
