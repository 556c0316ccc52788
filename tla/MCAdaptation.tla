--------------------------- MODULE MCAdaptation ---------------------------
(***************************************************************************)
(* Small instances of Adaptation: graphs that start empty or with two      *)
(* unconnected units, under limits that are soon reached, and one with     *)
(* room for several mutations.                                             *)
(***************************************************************************)
EXTENDS Adaptation

Unwired(n) == [units |-> n, edges |-> {}, version |-> 0]
Limits(n) == [max_units |-> n, max_edges |-> n, cost_budget |-> 1000,
              require_specialization |-> FALSE, allow_composition |-> TRUE]

MCStructures == {Unwired(0), Unwired(2)}
MCObjective == Limits(4)
\* In ten-thousandths: at 5500 wiring would gain 0.05, at 5540 just what it needs.
MCUtilities == {u * TenThousandth : u \in {4500, 5500, 5540, 9000}}
MCLowUtilities == {4500 * TenThousandth}
MCSignals == { {}, {"environment_shift", "objective_violation", "composition_requirement"} }

MCRoomyStructures == {Unwired(2)}
MCRoomyObjective == Limits(8)
===========================================================================
