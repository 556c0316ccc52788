----------------------------- MODULE MCHandoff -----------------------------
(***************************************************************************)
(* Three handoffs: two from node a to node b, and one that b hands to      *)
(* itself, which exercises a coordinator with a record of what it receives.*)
(***************************************************************************)
EXTENDS Handoff

CONSTANTS a, b

MCPeers == {a, b}
MCHandoffs == 1 .. 3
MCSender == <<a, a, b>>
MCReceiver == <<b, b, b>>
============================================================================
