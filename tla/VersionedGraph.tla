--------------------------- MODULE VersionedGraph ---------------------------
(***************************************************************************)
(* What the transaction manager promises the rest of the system: the       *)
(* structural graph changes only by whole versions, one at a time, each    *)
(* valid, and an identity that was retired never comes back.               *)
(***************************************************************************)
EXTENDS Naturals

CONSTANTS
  InitialGraphs,
  Valid(_)       \* the validator's verdict

VARIABLES graph, version

Init == graph \in InitialGraphs /\ version = 0

Install ==
  /\ Valid(graph')
  /\ graph.retired \subseteq graph'.retired
  /\ graph'.units \cap graph.retired = {}
  /\ version' = version + 1

Spec == Init /\ [][Install]_<<graph, version>>
============================================================================
