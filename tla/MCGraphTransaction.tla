------------------------ MODULE MCGraphTransaction ------------------------
(***************************************************************************)
(* A small instance of GraphTransaction: units a and b of the first graph  *)
(* have no ports; p declares two, each of which takes one connection.      *)
(***************************************************************************)
EXTENDS GraphTransaction

CONSTANTS a, b, p, in, out, data, control

Plain(s, t, ty) ==
  [source |-> s, target |-> t, type |-> ty, source_port |-> NoPort, target_port |-> NoPort]

MCUnits == {a, b, p}
MCEdgeTypes == {data, control}
MCPorts == {in, out}
MCPortsOf == [u \in MCUnits |-> IF u = p THEN MCPorts ELSE {}]
MCPermitted == [u \in MCUnits |-> [x \in MCPortsOf[u] |-> {1}]]

\* control edges are refused by the governance checks.
MCAdmissible == {e \in Edge : e.type = data}

\* A valid graph, and an authored one with a dangling edge.
MCGraphs ==
  { [units |-> {a, b}, edges |-> <<Plain(a, b, data)>>, retired |-> {}],
    [units |-> {a}, edges |-> <<Plain(a, b, data)>>, retired |-> {}] }

Add(u) == [op |-> "ADD_UNIT", unit |-> u]
Drop(u) == [op |-> "REMOVE_UNIT", unit |-> u]
Connect(e) == [op |-> "CONNECT_UNITS", edge |-> e]
Disconnect(s, t, ty) == [op |-> "DISCONNECT_UNITS", pattern |-> Plain(s, t, ty)]
Rewired(s, t, s2, t2) ==
  [op |-> "REWIRE_EDGE", old |-> <<s, t>>, new |-> <<s2, t2>>]
Bound(s, t) == [Plain(s, t, data) EXCEPT !.source_port = out, !.target_port = in]
Malformed == [op |-> "MALFORMED"]

MCBatches ==
  { << Add(b), Connect(Plain(b, a, data)) >>,
    << Drop(b) >>,
    << Drop(a), Add(a) >>,
    << Add(p), Drop(p), Malformed >>,
    << Connect(Plain(a, b, data)), Connect(Plain(a, b, control)) >>,
    << Disconnect(a, b, AnyType), Connect(Plain(b, a, data)) >>,
    << Rewired(a, b, b, a), Connect(Plain(b, b, data)) >>,
    << Add(p), Connect(Bound(p, p)) >>,
    << Add(p), Connect(Bound(p, p)), Connect(Bound(a, p)) >> }
============================================================================
