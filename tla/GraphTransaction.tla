-------------------------- MODULE GraphTransaction --------------------------
(***************************************************************************)
(* TransactionManager.execute_transaction (dnc.transaction.manager) run by *)
(* several threads on one structural graph.  A client plans a batch of     *)
(* operations on the graph it sees, waits for the graph's lock, and then,  *)
(* holding it, checks the version it planned on, applies the batch to a    *)
(* private copy, validates the copy and installs it by four assignments.   *)
(* Other threads read the graph and its version without the lock.          *)
(*                                                                         *)
(* The locals of the thread that holds the lock are the variables from     *)
(* staging to cause; the context it returns is in outcome.  A transaction  *)
(* is named by the position of its call.                                   *)
(***************************************************************************)
EXTENDS StructuralGraph

CONSTANTS
  InitialGraphs,  \* graphs a manager may be handed
  Clients,        \* threads that call execute_transaction
  Batches,        \* the lists of operations they submit
  NoBase,         \* base_version not given
  NoClient,       \* the lock is free
  NoCause,        \* causal_ref = None
  NoOp,           \* an event whose payload names no operation
  MaxTransactions \* bound: calls of execute_transaction over one behaviour

VARIABLES
  graph,    \* units, edges and retired ids of the active graph
  version,  \* graph.version.sequence
  lock,     \* the holder of _graph_lock(graph)
  plan,     \* plan[c]: what client c is about to submit, with what it saw
  phase,    \* where the holder is in _execute_transaction
  staging,  \* staging_graph
  undo,     \* ctx.undo_log, newest first
  applied,  \* operations applied so far
  cause,    \* last_ref: the event the next one refers to
  log,      \* the provenance log
  calls,    \* transactions begun
  outcome,  \* outcome[c]: ctx.state of c's last transaction
  origin,   \* history: the graph the behaviour began with
  committed \* history: the batches committed so far, in order

holderVars == <<staging, undo, applied, cause>>
history == <<origin, committed>>
vars == <<graph, version, lock, plan, phase, staging, undo, applied, cause,
          log, calls, outcome, origin, committed>>

EmptyGraph == [units |-> {}, edges |-> <<>>, retired |-> {}]

\* "waiting" marks a call that has been made and has not returned.
NoPlan == [waiting |-> FALSE, batch |-> <<>>, base |-> NoBase, seen |-> EmptyGraph]

Phases == {"idle", "applying", "units", "edges", "metadata", "version"}

States == {"NONE", "BEGIN", "COMMITTED", "ROLLED_BACK", "FAILED"}

ASSUME InitialAssumption ==
  \A g \in InitialGraphs : g \in Graph /\ g.units \cap g.retired = {}
ASSUME NoClientAssumption == NoClient \notin Clients
ASSUME NoBaseAssumption == NoBase \notin Nat
ASSUME BoundAssumption == MaxTransactions \in Nat

Operations == UNION {ToSet(batch) : batch \in Batches}

\* What an operation names is of the type its contract declares.
ASSUME BatchAssumption ==
  /\ Batches \subseteq Seq(Operations)
  /\ \A o \in Operations :
       /\ o.op = "ADD_UNIT" => o.unit \in Units
       /\ o.op = "CONNECT_UNITS" => o.edge \in Edge
       /\ o.op = "REWIRE_EDGE" => o.old \in Units \X Units /\ o.new \in Units \X Units

Init ==
  /\ graph \in InitialGraphs
  /\ version = 0
  /\ lock = NoClient
  /\ plan = [c \in Clients |-> NoPlan]
  /\ phase = "idle"
  /\ staging = graph
  /\ undo = <<>>
  /\ applied = 0
  /\ cause = NoCause
  /\ log = <<>>
  /\ calls = 0
  /\ outcome = [c \in Clients |-> "NONE"]
  /\ origin = graph
  /\ committed = <<>>

----------------------------------------------------------------------------
\* An event names its transaction and the event that caused it (its index).
Event(type, tx, ref, op) == [type |-> type, tx |-> tx, cause |-> ref, op |-> op]

\* A client decides on a batch.  Without a base version the manager takes the
\* version it finds, and the optimistic check never fails.
Plan(c, batch, base) ==
  /\ ~plan[c].waiting
  /\ calls < MaxTransactions
  /\ base \in {version, NoBase}
  /\ plan' = [plan EXCEPT ![c] = 
       [waiting |-> TRUE, batch |-> batch, base |-> base, seen |-> graph]]
  /\ outcome' = [outcome EXCEPT ![c] = "BEGIN"]
  /\ UNCHANGED <<graph, version, lock, phase, holderVars, log, calls, history>>

ReturnHoldingLock(c, state) ==
  /\ phase' = "idle"
  /\ plan' = [plan EXCEPT ![c] = NoPlan]
  /\ outcome' = [outcome EXCEPT ![c] = state]
  /\ UNCHANGED lock

\* The call returns: the lock is released and ctx carries the final state.
Return(c, state) ==
  /\ lock' = NoClient
  /\ phase' = "idle"
  /\ plan' = [plan EXCEPT ![c] = NoPlan]
  /\ outcome' = [outcome EXCEPT ![c] = state]

BaseIgnored(c) == TRUE

BaseCurrent(c) == plan[c].base \in {version, NoBase}

\* The lock is taken, BEGIN is logged, and the copy is made.
BeginStaged(c) ==
  /\ lock = NoClient
  /\ plan[c].waiting
  /\ calls < MaxTransactions
  /\ BaseCurrent(c)
  /\ lock' = c
  /\ phase' = "applying"
  /\ calls' = calls + 1
  /\ log' = Append(log, Event("BEGIN", calls + 1, NoCause, NoOp))
  /\ cause' = Len(log) + 1
  /\ staging' = graph
  /\ undo' = <<>>
  /\ applied' = 0
  /\ UNCHANGED <<graph, version, plan, outcome, history>>

\* BEGIN and ROLLED_BACK are logged, nothing is staged.
FailAtBegin(c) ==
  /\ lock = NoClient
  /\ plan[c].waiting
  /\ calls < MaxTransactions
  /\ calls' = calls + 1
  /\ log' = log \o << Event("BEGIN", calls + 1, NoCause, NoOp),
                      Event("ROLLED_BACK", calls + 1, Len(log) + 1, NoOp) >>
  /\ Return(c, "FAILED")
  /\ UNCHANGED <<graph, version, holderVars, history>>

VersionConflict(c) == ~BaseCurrent(c) /\ FailAtBegin(c)

\* copy.deepcopy(graph) raises.
StagingFails(c) == BaseCurrent(c) /\ FailAtBegin(c)

\* _rollback_staging, the ROLLED_BACK event and the return of a failed call.
Abort(c) ==
  LET r == Rollback(undo, staging)
  IN  /\ staging' = r.graph
      /\ undo' = <<>>
      /\ log' = Append(log, Event("ROLLED_BACK", calls, cause, NoOp))
      /\ Return(c, IF r.raised THEN "FAILED" ELSE "ROLLED_BACK")
      /\ UNCHANGED <<graph, version, applied, cause, calls, history>>

NextOp(c) == plan[c].batch[applied + 1]

ApplyNext(c) ==
  /\ lock = c
  /\ phase = "applying"
  /\ applied < Len(plan[c].batch)
  /\ Applicable(NextOp(c), staging)
  /\ staging' = Effect(NextOp(c), staging)
  /\ undo' = <<InverseOf(NextOp(c), staging)>> \o undo
  /\ applied' = applied + 1
  /\ log' = Append(log, Event("MUTATION_APPLIED", calls, cause, NextOp(c)))
  /\ cause' = Len(log) + 1
  /\ UNCHANGED <<graph, version, lock, plan, phase, calls, outcome, history>>

\* An operation is malformed, cannot be copied, or is refused by the engine.
ApplyFails(c) ==
  /\ lock = c
  /\ phase = "applying"
  /\ applied < Len(plan[c].batch)
  /\ ~Applicable(NextOp(c), staging)
  /\ Abort(c)

ValidationSkipped(c) ==
  /\ lock = c
  /\ phase = "applying"
  /\ applied = Len(plan[c].batch)
  /\ phase' = "units"
  /\ UNCHANGED <<graph, version, lock, plan, holderVars, log, calls, outcome, history>>

ValidationPasses(c) ==
  /\ lock = c
  /\ phase = "applying"
  /\ applied = Len(plan[c].batch)
  /\ Valid(staging)
  /\ phase' = "units"
  /\ UNCHANGED <<graph, version, lock, plan, holderVars, log, calls, outcome, history>>

ValidationFails(c) ==
  /\ lock = c
  /\ phase = "applying"
  /\ applied = Len(plan[c].batch)
  /\ ~Valid(staging)
  /\ Abort(c)

\* COMMIT: four assignments, the version last.
CommitUnits(c) ==
  /\ lock = c
  /\ phase = "units"
  /\ graph' = [graph EXCEPT !.units = staging.units]
  /\ phase' = "edges"
  /\ UNCHANGED <<version, lock, plan, holderVars, log, calls, outcome, history>>

CommitEdges(c) ==
  /\ lock = c
  /\ phase = "edges"
  /\ graph' = [graph EXCEPT !.edges = staging.edges]
  /\ phase' = "metadata"
  /\ UNCHANGED <<version, lock, plan, holderVars, log, calls, outcome, history>>

CommitMetadataForgotten(c) ==
  /\ lock = c
  /\ phase = "metadata"
  /\ phase' = "version"
  /\ UNCHANGED <<graph, version, lock, plan, holderVars, log, calls, outcome, history>>

CommitMetadata(c) ==
  /\ lock = c
  /\ phase = "metadata"
  /\ graph' = [graph EXCEPT !.retired = staging.retired]
  /\ phase' = "version"
  /\ UNCHANGED <<version, lock, plan, holderVars, log, calls, outcome, history>>

CommitVersion(c) ==
  /\ lock = c
  /\ phase = "version"
  /\ version' = version + 1
  /\ log' = log \o << Event("COMMITTED", calls, cause, NoOp),
                      Event("VERSION_CREATED", calls, Len(log) + 1, NoOp) >>
  /\ committed' = Append(committed, plan[c].batch)
  /\ Return(c, "COMMITTED")
  /\ UNCHANGED <<graph, holderVars, calls, origin>>

HolderStep(c) ==
  \/ ApplyNext(c) \/ ApplyFails(c)
  \/ ValidationPasses(c) \/ ValidationFails(c)
  \/ CommitUnits(c) \/ CommitEdges(c) \/ CommitMetadata(c) \/ CommitVersion(c)

Next ==
  \E c \in Clients :
    \/ \E batch \in Batches, base \in {version, NoBase} : Plan(c, batch, base)
    \/ BeginStaged(c)
    \/ VersionConflict(c)
    \/ StagingFails(c)
    \/ HolderStep(c)

Spec == Init /\ [][Next]_vars

\* A thread inside the manager keeps running; nobody is forced to call it.
FairSpec == Spec /\ \A c \in Clients : WF_vars(HolderStep(c))

----------------------------------------------------------------------------
(* StructuralReplayEngine: each batch is one transaction on the result of  *)
(* the batches before it, and the first that fails ends the replay.        *)

Applied(g, operations) ==
  FoldLeft(LAMBDA r, o : IF r.success /\ Applicable(o, r.graph)
                         THEN [r EXCEPT !.graph = Effect(o, r.graph)]
                         ELSE [r EXCEPT !.success = FALSE],
           [success |-> TRUE, graph |-> g], operations)

RunBatch(g, batch) ==
  LET run == Applied(g, batch)
  IN  IF run.success /\ Valid(run.graph)
      THEN run ELSE [success |-> FALSE, graph |-> g]

Replay(g, batches) ==
  FoldLeft(LAMBDA r, batch : IF r.success THEN RunBatch(r.graph, batch) ELSE r,
           [success |-> TRUE, graph |-> g], batches)

----------------------------------------------------------------------------
(* What holds of every behaviour. *)

\* Every variable has its type; whoever holds the lock is inside a call.
TypeOK ==
  /\ graph \in Graph
  /\ version \in Nat
  /\ lock \in Clients \cup {NoClient}
  /\ plan \in [Clients -> [waiting : BOOLEAN, batch : Batches \cup {<<>>},
                           base : Nat \cup {NoBase}, seen : Graph]]
  /\ phase \in Phases
  /\ lock = NoClient <=> phase = "idle"
  /\ lock # NoClient => plan[lock].waiting
  /\ staging \in Graph
  /\ applied \in Nat
  /\ calls \in Nat
  /\ outcome \in [Clients -> States]

\* The manager is between the first and the last assignment of a commit.
MidCommit == phase \in {"edges", "metadata", "version"}

\* Once a transaction has committed the active graph is valid whenever no
\* commit is under way, whatever was planned on an outdated graph, failed or
\* was rolled back (validate_graph before COMMIT).
CommittedGraphValid == version > 0 /\ ~MidCommit => Valid(graph)

\* A transaction that names its base version is applied to the very graph its
\* client planned it on: the optimistic check leaves no room for a commit, or
\* for half of one, between the client's unlocked read and the copy.
PlannedOnCurrent ==
  phase \in {"applying", "units"} /\ plan[lock].base # NoBase
    => plan[lock].seen = graph

\* Replaying the committed batches on the first graph reproduces the active
\* graph and its version number (StructuralReplayEngine.verify_replay).
ReplayReproduces ==
  phase = "idle" =>
    /\ Replay(origin, committed) = [success |-> TRUE, graph |-> graph]
    /\ version = Len(committed)

Done == {log[i].tx : i \in {j \in DOMAIN log : log[j].type = "COMMITTED"}}

OperationsOf(txs) ==
  LET ops == Among(log, {e \in ToSet(log) : e.type = "MUTATION_APPLIED" /\ e.tx \in txs})
  IN  [i \in DOMAIN ops |-> ops[i].op]

\* The events of transactions that committed hold every operation that made
\* the graph what it is, in order, and one version event per version.
ProvenanceComplete ==
  /\ OperationsOf(Done) = FlattenSeq(committed)
  /\ Len(Among(log, {e \in ToSet(log) : e.type = "VERSION_CREATED"})) = version

\* Following causal_ref back from any event passes through every earlier event
\* of the same transaction and ends at its BEGIN.
CausalChainsUnbroken ==
  \A i \in DOMAIN log :
    LET earlier == {j \in 1 .. i - 1 : log[j].tx = log[i].tx}
    IN  IF log[i].type = "BEGIN"
        THEN earlier = {} /\ log[i].cause = NoCause
        ELSE earlier # {} /\ log[i].cause = Max(earlier)

\* Whenever a transaction may have to be undone, its inverse operations run
\* through without raising and bring back the units it started with.
UndoRestoresUnits ==
  phase = "applying" =>
    LET r == Rollback(undo, staging)
    IN  ~r.raised /\ r.graph.units = graph.units

\* The log and the undo log account for the graph at every moment: replaying
\* the committed batches gives it, every version has its record, the events of
\* a transaction form one chain, and what is being applied can be undone
\* (GraphTransactionManager, StructuralReplay).
LogSound ==
  TypeOK /\ ReplayReproduces /\ ProvenanceComplete /\ CausalChainsUnbroken /\ UndoRestoresUnits

\* Whoever has taken the lock of a graph gives it back.
LockReleased == \A c \in Clients : lock = c ~> lock # c

\* Seen from outside, a commit happens at its first assignment.
InstalledGraph == IF MidCommit THEN staging ELSE graph
InstalledVersion == IF MidCommit THEN version + 1 ELSE version

Versions == INSTANCE VersionedGraph
              WITH graph <- InstalledGraph, version <- InstalledVersion

\* The manager with all its threads implements the versioned graph.
ImplementsVersions == Versions!Spec
----------------------------------------------------------------------------
(* The inductive invariant behind the safety properties. *)

IsGraph(g) == g = [units |-> g.units, edges |-> g.edges, retired |-> g.retired]

\* One thread at a time is between BEGIN and the end of its call.
LockDiscipline ==
  /\ version \in Nat
  /\ phase \in Phases
  /\ phase # "idle" => lock \in Clients
  /\ phase = "idle" => lock = NoClient
  /\ plan = [c \in Clients |-> plan[c]]

\* A named base is a version that existed; if it is still the current one and
\* no commit is under way, the graph is still the one the client saw.
BasesHonest ==
  \A c \in Clients : plan[c].base # NoBase =>
    /\ plan[c].base \in 0 .. version
    /\ plan[c].base = version /\ ~MidCommit => plan[c].seen = graph
    /\ lock = c => plan[c].base = version

\* Neither graph holds a retired identity, and the copy forgets none.
RetiredStayRetired ==
  /\ IsGraph(graph)
  /\ graph.units \cap graph.retired = {}
  /\ phase # "idle" =>
       /\ IsGraph(staging)
       /\ staging.units \cap staging.retired = {}
       /\ graph.retired \subseteq staging.retired

\* What is installed passed validation, and the commit has copied as much of
\* it as its phase says.
CommitProgress ==
  /\ phase \in Phases \ {"idle", "applying"} => Valid(staging)
  /\ MidCommit => graph.units = staging.units
  /\ phase \in {"metadata", "version"} => graph.edges = staging.edges
  /\ phase = "version" => graph.retired = staging.retired

\* The operations the holder has applied so far.
Pending == SubSeq(plan[lock].batch, 1, applied)

\* The holder goes through its own batch, all of it before it commits.
HolderProgress ==
  phase # "idle" =>
    /\ plan[lock].waiting
    /\ applied \in 0 .. Len(plan[lock].batch)
    /\ phase # "applying" => applied = Len(plan[lock].batch)

\* The committed batches give the graph of the last commit, and what has been
\* applied since gives the copy.
ReplayExplains ==
  LET r == Replay(origin, committed)
  IN  /\ r = [success |-> TRUE, graph |-> r.graph]
      /\ ~MidCommit => r.graph = graph
      /\ phase # "idle" => Applied(r.graph, Pending) = [success |-> TRUE, graph |-> staging]

\* The holder's events are the newest of the log, and were its transaction to
\* commit now, its operations would be the ones applied.
LogExplains ==
  /\ \A i \in DOMAIN log : log[i].tx \in 1 .. calls
  /\ phase # "idle" =>
       /\ calls \notin Done
       /\ log # <<>> /\ cause = Len(log) /\ log[cause].tx = calls
       /\ OperationsOf(Done \cup {calls}) = FlattenSeq(committed) \o Pending

AccountInv ==
  /\ HolderProgress /\ ReplayExplains /\ version = Len(committed)
  /\ LogExplains /\ ProvenanceComplete /\ CausalChainsUnbroken

TransactionInv ==
  LockDiscipline /\ BasesHonest /\ RetiredStayRetired /\ CommitProgress
  /\ CommittedGraphValid

============================================================================
