-------------------------- MODULE StructuralGraph --------------------------
(***************************************************************************)
(* The DNC-IR structural graph (dnc.ir.graph), the mutations of            *)
(* dnc.mutation.engine with their inverses, and the validator              *)
(* (dnc.ir.validator).  Everything here is a function of its arguments.    *)
(*                                                                         *)
(* A unit is its identity: what the validator reads in a unit's contract   *)
(* is given by the constants SoundUnits, PortsOf and Permitted, and its    *)
(* comparison of the two contracts of an edge by Admissible.               *)
(***************************************************************************)
EXTENDS Integers, Sequences, FiniteSets, SequencesExt

CONSTANTS
  Units,          \* unit_id values
  EdgeTypes,      \* EdgeType
  Ports,          \* port_id values
  AnyType,        \* no edge_type given to a DISCONNECT: matches every type
  NoPort,         \* None: an edge end without a port, a pattern without a port
  SoundUnits,     \* units whose own contract passes the per-unit checks
  PortsOf,        \* PortsOf[u]: the ports u declares
  Permitted,      \* Permitted[u][p]: connection counts within p's cardinality
  Admissible      \* edges whose ports agree in direction, kind and schema and
                  \* whose units pass the governance checks

Edge ==
  [source : Units, target : Units, type : EdgeTypes,
   source_port : Ports \cup {NoPort}, target_port : Ports \cup {NoPort}]

Graph == [units : SUBSET Units, edges : Seq(Edge), retired : SUBSET Units]

----------------------------------------------------------------------------
(* StructuralGraph *)

Incident(e, u) == e.source = u \/ e.target = u

\* [x for x in s if x in chosen]
Among(s, chosen) ==
  FoldLeft(LAMBDA found, x : IF x \in chosen THEN Append(found, x) ELSE found, <<>>, s)

AddUnit(g, u) == [g EXCEPT !.units = @ \cup {u}]

EdgesWithout(edges, u) == Among(edges, {e \in ToSet(edges) : ~Incident(e, u)})

\* remove_unit drops the incident edges with the unit.
RemoveUnit(g, u) ==
  [g EXCEPT !.units = @ \ {u}, !.edges = EdgesWithout(@, u)]

AddEdges(g, es) == [g EXCEPT !.edges = @ \o es]

\* The pattern of remove_edge and DISCONNECT_UNITS: a type or a port that is
\* not given matches any.
Matches(e, p) ==
  /\ e.source = p.source
  /\ e.target = p.target
  /\ p.type = AnyType \/ e.type = p.type
  /\ p.source_port = NoPort \/ e.source_port = p.source_port
  /\ p.target_port = NoPort \/ e.target_port = p.target_port

EdgesUnlike(edges, p) == Among(edges, {e \in ToSet(edges) : ~Matches(e, p)})

RemoveEdges(g, p) == [g EXCEPT !.edges = EdgesUnlike(@, p)]

\* The position of the first edge between two units, 0 if there is none.
FirstEdge(g, source, target) ==
  SelectInSeq(g.edges, LAMBDA e : e.source = source /\ e.target = target)

Redirected(edges, i, source, target) ==
  [edges EXCEPT ![i].source = source, ![i].target = target]

Rewire(g, i, source, target) ==
  [g EXCEPT !.edges = Redirected(@, i, source, target)]

----------------------------------------------------------------------------
(* MutationEngine.apply_operation *)

ApplicableToRetired(o, g) ==
  \/ o.op = "ADD_UNIT" /\ o.unit \notin g.units
  \/ o.op = "REMOVE_UNIT" /\ o.unit \in g.units
  \/ o.op \in {"CONNECT_UNITS", "DISCONNECT_UNITS"}
  \/ o.op = "REWIRE_EDGE" /\ FirstEdge(g, o.old[1], o.old[2]) # 0

\* The operation is accepted.  Malformed and unsupported operations are not.
Applicable(o, g) ==
  \/ o.op = "ADD_UNIT" /\ o.unit \notin g.units \cup g.retired
  \/ o.op = "REMOVE_UNIT" /\ o.unit \in g.units
  \/ o.op \in {"CONNECT_UNITS", "DISCONNECT_UNITS"}
  \/ o.op = "REWIRE_EDGE" /\ FirstEdge(g, o.old[1], o.old[2]) # 0

\* The graph after an accepted operation.
Effect(o, g) ==
  CASE o.op = "ADD_UNIT"         -> AddUnit(g, o.unit)
    [] o.op = "REMOVE_UNIT"      -> [RemoveUnit(g, o.unit) EXCEPT
                                       !.retired = @ \cup {o.unit}]
    [] o.op = "CONNECT_UNITS"    -> AddEdges(g, <<o.edge>>)
    [] o.op = "DISCONNECT_UNITS" -> RemoveEdges(g, o.pattern)
    [] o.op = "REWIRE_EDGE"      ->
         Rewire(g, FirstEdge(g, o.old[1], o.old[2]), o.new[1], o.new[2])

\* The entry pushed on the undo log, computed on the graph before.
InverseOf(o, g) ==
  CASE o.op = "ADD_UNIT"         -> [inv |-> "REMOVE_UNIT", unit |-> o.unit]
    [] o.op = "REMOVE_UNIT"      ->
         [inv |-> "RESTORE_UNIT", unit |-> o.unit,
          edges |-> Among(g.edges, {e \in ToSet(g.edges) : Incident(e, o.unit)})]
    [] o.op = "CONNECT_UNITS"    -> [inv |-> "DISCONNECT_UNITS", pattern |-> o.edge]
    [] o.op = "DISCONNECT_UNITS" ->
         [inv |-> "RESTORE_EDGES",
          edges |-> Among(g.edges, {e \in ToSet(g.edges) : Matches(e, o.pattern)})]
    [] o.op = "REWIRE_EDGE"      -> [inv |-> "REWIRE_EDGE", old |-> o.new, new |-> o.old]

(* MutationEngine.rollback *)

\* add_unit and remove_unit raise; the other inverses never do.
UndoRaises(i, g) ==
  \/ i.inv = "REMOVE_UNIT" /\ i.unit \notin g.units
  \/ i.inv = "RESTORE_UNIT" /\ i.unit \in g.units

Undo(i, g) ==
  CASE i.inv = "REMOVE_UNIT"      -> RemoveUnit(g, i.unit)
    [] i.inv = "RESTORE_UNIT"     -> AddEdges(AddUnit(g, i.unit), i.edges)
    [] i.inv = "DISCONNECT_UNITS" -> RemoveEdges(g, i.pattern)
    [] i.inv = "RESTORE_EDGES"    -> AddEdges(g, i.edges)
    [] i.inv = "REWIRE_EDGE"      ->
         LET k == FirstEdge(g, i.old[1], i.old[2])
         IN  IF k = 0 THEN g ELSE Rewire(g, k, i.new[1], i.new[2])

\* The undo log holds its newest entry first; the first entry that raises
\* ends the rollback.
Rollback(undo, g) ==
  FoldLeft(LAMBDA r, i : IF r.raised \/ UndoRaises(i, r.graph)
                         THEN [r EXCEPT !.raised = TRUE]
                         ELSE [r EXCEPT !.graph = Undo(i, r.graph)],
           [graph |-> g, raised |-> FALSE], undo)

----------------------------------------------------------------------------
(* DNCIRValidator.validate_graph *)

EdgesDistinct(g) ==
  \A i, j \in DOMAIN g.edges : g.edges[i] = g.edges[j] => i = j

EdgesAttached(g) ==
  \A i \in DOMAIN g.edges :
    g.edges[i].source \in g.units /\ g.edges[i].target \in g.units

\* An edge binds both ports or neither; it may leave them unbound only between
\* units without ports, and binds declared ports that agree.
EdgesSound(g) ==
  \A i \in DOMAIN g.edges :
    LET e == g.edges[i]
    IN  /\ e.source_port = NoPort <=> e.target_port = NoPort
        /\ \/ e.source_port = NoPort /\ PortsOf[e.source] = {} /\ PortsOf[e.target] = {}
           \/ e.source_port \in PortsOf[e.source] /\ e.target_port \in PortsOf[e.target]
        /\ e \in Admissible

Connections(g, u, p) ==
  Cardinality({i \in DOMAIN g.edges : g.edges[i].source = u /\ g.edges[i].source_port = p})
  + Cardinality({i \in DOMAIN g.edges : g.edges[i].target = u /\ g.edges[i].target_port = p})

PortsWithinCardinality(g) ==
  \A u \in g.units : \A p \in PortsOf[u] : Connections(g, u, p) \in Permitted[u][p]

Valid(g) ==
  /\ g.units \subseteq SoundUnits
  /\ EdgesDistinct(g)
  /\ EdgesAttached(g)
  /\ EdgesSound(g)
  /\ PortsWithinCardinality(g)
============================================================================
