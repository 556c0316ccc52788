----------------------------- MODULE Projection -----------------------------
(***************************************************************************)
(* StructuralProjector: a structural graph is lowered to the order in      *)
(* which an execution core runs its units.  The graph is authored edge by  *)
(* edge, then projected once; the graph is refused or its units are taken  *)
(* in topological order, one at a time.                                    *)
(*                                                                         *)
(* Units are numbered in the order of their ids, which is the order of     *)
(* every sort.  What the validator checks of contracts and ports is in     *)
(* StructuralGraph; here only a dangling edge makes a graph invalid.       *)
(***************************************************************************)
EXTENDS Integers, Sequences, FiniteSets, SequencesExt, FiniteSetsExt

CONSTANTS
  UnitCount,        \* units 1 .. UnitCount, and an id that no unit has
  EdgeTypes,
  DemandChoices,    \* what each unit's contract demands of the deployment
  ContextChoices,   \* ExecutionContexts, as the demands they meet
  Undeployed,
  MaxEdges          \* bound: edges of a graph

GraphUnits == 1 .. UnitCount
Missing == UnitCount + 1

ASSUME ProjectionConstants ==
  /\ UnitCount \in Nat /\ MaxEdges \in Nat
  /\ DemandChoices \subseteq [GraphUnits -> SUBSET STRING]
  /\ Undeployed \in ContextChoices

VARIABLES
  wires,         \* graph.edges
  demanded,      \* the contracts of graph.units
  deployed,      \* the context given to project()
  projecting,    \* "authoring", "refused", "sorting" or "projected"
  inDegree,
  waiting,       \* queue
  topoOrder,     \* topo_order
  warned         \* warnings is not empty

projectionVars ==
  <<wires, demanded, deployed, projecting, inDegree, waiting, topoOrder, warned>>

ProjectionInit ==
  /\ wires = {}
  /\ demanded = [u \in GraphUnits |-> {}]
  /\ deployed = Undeployed
  /\ projecting = "authoring"
  /\ inDegree = [u \in GraphUnits |-> 0]
  /\ waiting = <<>> /\ topoOrder = <<>> /\ warned = FALSE

\* StructuralGraph.add_edge: any edge, dangling ones too.
AddEdge(source, target, type) ==
  /\ projecting = "authoring" /\ Cardinality(wires) < MaxEdges
  /\ wires' = wires \cup {[source |-> source, target |-> target, type |-> type]}
  /\ UNCHANGED <<demanded, deployed, projecting, inDegree, waiting, topoOrder, warned>>

----------------------------------------------------------------------------
(* project() *)

\* requires_execution_context
RequiresContext(demands) == \E u \in GraphUnits : demands[u] # {}

\* validate_execution_context: what a contract demands of the inputs' place
\* asks for a context, and no context is compared with it.
Satisfies(context, demands) ==
  \A u \in GraphUnits : demands[u] \ {"local inputs"} \subseteq context

Admissible(demands, context) ==
  /\ \A e \in wires : {e.source, e.target} \subseteq GraphUnits
  /\ RequiresContext(demands) => context # Undeployed
  /\ context # Undeployed => Satisfies(context, demands)

RefuseProjection(demands, context) ==
  /\ projecting = "authoring"
  /\ ~Admissible(demands, context)
  /\ projecting' = "refused"
  /\ UNCHANGED <<wires, demanded, deployed, inDegree, waiting, topoOrder, warned>>

\* The edges that order execution.
ExecutionEdges == {e \in wires : e.type \in {"DATA", "CONTROL", "DEPENDENCY"}}
Parallel(u, v) == Cardinality({e \in ExecutionEdges : e.source = u /\ e.target = v})

\* The units in the order of their ids.
Sorted(units) ==
  [i \in 1 .. Cardinality(units) |->
     CHOOSE u \in units : Cardinality({v \in units : v < u}) = i - 1]

StartProjection(demands, context) ==
  /\ projecting = "authoring"
  /\ Admissible(demands, context)
  /\ projecting' = "sorting"
  /\ demanded' = demands /\ deployed' = context
  /\ inDegree' = [v \in GraphUnits |-> Cardinality({e \in ExecutionEdges : e.target = v})]
  /\ waiting' = Sorted({v \in GraphUnits : inDegree'[v] = 0})
  /\ UNCHANGED <<wires, topoOrder, warned>>

\* Mutant: a successor is counted down once for all the edges that lead to it.
TakeUnitOnce ==
  /\ projecting = "sorting" /\ waiting # <<>>
  /\ LET u == Head(waiting)
         left == [v \in GraphUnits |-> inDegree[v] - (IF Parallel(u, v) > 0 THEN 1 ELSE 0)]
     IN  /\ topoOrder' = Append(topoOrder, u)
         /\ inDegree' = left
         /\ waiting' = Tail(waiting)
                       \o Sorted({v \in GraphUnits : inDegree[v] > 0 /\ left[v] = 0})
  /\ UNCHANGED <<wires, demanded, deployed, projecting, warned>>

\* One turn of the loop: parallel edges count their target down once each.
TakeUnit ==
  /\ projecting = "sorting" /\ waiting # <<>>
  /\ LET u == Head(waiting)
         left == [v \in GraphUnits |-> inDegree[v] - Parallel(u, v)]
     IN  /\ topoOrder' = Append(topoOrder, u)
         /\ inDegree' = left
         /\ waiting' = Tail(waiting)
                       \o Sorted({v \in GraphUnits : inDegree[v] > 0 /\ left[v] = 0})
  /\ UNCHANGED <<wires, demanded, deployed, projecting, warned>>

\* What a cycle kept from the queue follows in the order of the ids.
FinishProjection ==
  /\ projecting = "sorting" /\ waiting = <<>>
  /\ projecting' = "projected"
  /\ warned' = (Len(topoOrder) # UnitCount)
  /\ topoOrder' = topoOrder \o Sorted(GraphUnits \ Range(topoOrder))
  /\ UNCHANGED <<wires, demanded, deployed, inDegree, waiting>>

ProjectionNext ==
  \/ \E source \in GraphUnits, target \in GraphUnits \cup {Missing}, type \in EdgeTypes :
       AddEdge(source, target, type)
  \/ \E demands \in DemandChoices, context \in ContextChoices :
       RefuseProjection(demands, context) \/ StartProjection(demands, context)
  \/ TakeUnit
  \/ FinishProjection

ProjectionSpec == ProjectionInit /\ [][ProjectionNext]_projectionVars

----------------------------------------------------------------------------
(* Properties *)

\* Units that a path of one or more execution edges leads to from u: the least
\* set that the edges lead into from u and do not lead out of.
Downstream(u) ==
  { v \in GraphUnits : \A C \in SUBSET GraphUnits :
      (\A e \in ExecutionEdges : e.source \in C \cup {u} => e.target \in C) => v \in C }

\* Units on a cycle, and those a cycle holds back.
Cyclic == {u \in GraphUnits : u \in Downstream(u)}
HeldBack == Cyclic \cup UNION {Downstream(u) : u \in Cyclic}
Place(u) == CHOOSE i \in DOMAIN topoOrder : topoOrder[i] = u

\* The context gives all that the units demand of it.
ContextSuffices ==
  \A u \in GraphUnits : demanded[u] # {} =>
    deployed # Undeployed /\ demanded[u] \subseteq deployed \cup {"local inputs"}

\* A projection orders every unit exactly once, warns just when the execution
\* edges have a cycle, and puts a unit after all that feed it, through
\* parallel edges too, unless the unit is on a cycle or behind one.  What is
\* projected demands nothing that its context was not found to give
\* (StructuralProjector.project).
OrderRespectsEdges ==
  projecting = "projected" =>
    /\ Len(topoOrder) = UnitCount /\ Range(topoOrder) = GraphUnits
    /\ warned <=> Cyclic # {}
    /\ \A e \in ExecutionEdges : e.target \notin HeldBack => Place(e.source) < Place(e.target)
    /\ ContextSuffices

----------------------------------------------------------------------------
(* The inductive invariant behind it. *)

\* The edges into v from units outside Z.
EdgesInto(v, Z) == {e \in ExecutionEdges : e.target = v /\ e.source \notin Z}

\* Ordered and waiting units are distinct, and are those that no edge from a
\* unit not yet ordered leads to; inDegree counts such edges.
QueueFollowsDegrees ==
  /\ IsInjective(topoOrder) /\ IsInjective(waiting)
  /\ Range(topoOrder) \cap Range(waiting) = {}
  /\ Range(topoOrder) \cup Range(waiting) = {v \in GraphUnits : inDegree[v] = 0}
  /\ \A v \in GraphUnits : inDegree[v] = Cardinality(EdgesInto(v, Range(topoOrder)))

\* What feeds an ordered unit is ordered before it.
SourcesFirst ==
  \A j \in DOMAIN topoOrder, e \in ExecutionEdges :
    e.target = topoOrder[j] => \E i \in 1 .. j - 1 : topoOrder[i] = e.source

SortingInv ==
  /\ topoOrder \in Seq(GraphUnits) /\ waiting \in Seq(GraphUnits)
  /\ inDegree \in [GraphUnits -> Nat]
  /\ \A e \in wires : {e.source, e.target} \subseteq GraphUnits
  /\ ContextSuffices /\ QueueFollowsDegrees /\ SourcesFirst

ProjectionInv ==
  /\ IsFiniteSet(wires)
  /\ projecting = "authoring" => topoOrder = <<>>
  /\ projecting = "sorting" => SortingInv
  /\ OrderRespectsEdges
=============================================================================
