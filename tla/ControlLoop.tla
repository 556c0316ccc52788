---------------------------- MODULE ControlLoop ----------------------------
(***************************************************************************)
(* The control loop of dnc.runtime.runtime: initiate() plans a graph of    *)
(* module instances, each step() observes, decides, acts and assesses, a   *)
(* REPLAN checkpoints the execution state and installs a new graph, and a  *)
(* ROLLBACK restores the latest checkpoint.  The decision policy is any    *)
(* DecisionPolicy: it may answer anything at any step.  Modules are        *)
(* registered at any time and never removed.                               *)
(*                                                                         *)
(* Costs are in tenths: an edge of the graph costs 1 (0.1 in the code).    *)
(* Nothing in the package feeds the cost forecaster, the pending signals,  *)
(* the asynchronous backlog or the critical section, so the branches of    *)
(* decide() and act() they guard are never taken.                          *)
(***************************************************************************)
EXTENDS Integers, Sequences, FiniteSets, SequencesExt

CONSTANTS
  Types,          \* module types
  Caps,           \* Caps[t]: the capabilities of t's contract
  Weight,         \* Weight[t]: its cost_weight
  Tasks,          \* task descriptions, as sequences of tokens
  ReplanTask,     \* the description of a replan: <<"replan">>
  Budget,         \* total_budget
  NoType,
  MaxReplans,     \* MAX_REPLANS_PER_EXECUTION
  MaxStep,        \* bound: the step_index from which no module stays pending
  MaxExecutions   \* bound: calls of initiate()

NoGraph == [nodes |-> {}, edges |-> {}]   \* None: a plan has nodes

DefaultBudget == 10     \* 1.0, the default of ExecutionState

AnyCapability == "any"  \* the goal that any module satisfies

ASSUME WeightAssumption == Weight \in [Types -> Nat] /\ NoType \notin Types
ASSUME TaskAssumption ==
  /\ \A task \in Tasks : task \in Seq(Range(task))
  /\ ReplanTask = <<ReplanTask[1]>> /\ ReplanTask[1] # AnyCapability
ASSUME BoundsAssumption ==
  Budget \in Nat /\ MaxReplans \in Nat \ {0} /\ MaxStep \in Nat /\ MaxExecutions \in Nat

VARIABLES
  registry,    \* the registered types, in order of registration
  state,       \* _state
  replans,     \* _replan_count
  current,     \* _current_graph
  memory,      \* es.W: memory[n] is the state of n's buffer
  graph,       \* es.G
  step,        \* es.step_index
  budget,      \* es.budget_remaining
  checkpoints, \* es.C
  raised,      \* a step ended in an exception of the runtime's own
  executions   \* calls of initiate()

esVars == <<memory, graph, step, budget, checkpoints>>
loopVars == <<registry, state, replans, current, memory, graph, step, budget,
          checkpoints, raised, executions>>

\* ModuleInstanceID: a type and the position of its goal.
Positions == {0} \cup {i - 1 : i \in UNION {DOMAIN task : task \in Tasks \cup {ReplanTask}}}
Nodes == Types \X Positions
BufferState == {"absent", "unbound", "pending", "done"}

EmptyMemory == [n \in Nodes |-> "absent"]

LoopInit ==
  /\ registry = <<>>
  /\ state = "INIT"
  /\ replans = 0
  /\ current = NoGraph
  /\ memory = EmptyMemory
  /\ graph = NoGraph
  /\ step = 0
  /\ budget = DefaultBudget
  /\ checkpoints = <<>>
  /\ raised = FALSE
  /\ executions = 0

----------------------------------------------------------------------------
(* The planner. *)

\* Phase 1: one goal per token that names a capability, or a single goal that
\* any module satisfies.
CapabilityMap == UNION {Caps[registry[i]] : i \in DOMAIN registry}

Goals(task) ==
  LET known == FoldLeft(LAMBDA goals, c : IF c \in CapabilityMap THEN Append(goals, c) ELSE goals,
                        <<>>, task)
  IN  IF known = <<>> THEN <<AnyCapability>> ELSE known

\* Phase 2: the dearest affordable module that offers the capability, the
\* first registered among equals.
Fit(goal, remaining) ==
  {i \in DOMAIN registry : /\ goal = AnyCapability \/ goal \in Caps[registry[i]]
                           /\ Weight[registry[i]] <= remaining}
Better(i, j) ==
  \/ Weight[registry[i]] > Weight[registry[j]]
  \/ Weight[registry[i]] = Weight[registry[j]] /\ i <= j

Best(goal, remaining) ==
  LET fit == Fit(goal, remaining)
  IN  IF fit = {} THEN NoType
      ELSE registry[CHOOSE i \in fit : \A j \in fit : Better(i, j)]

Select(goals) ==
  FoldLeft(LAMBDA r, goal :
             LET t == Best(goal, r.remaining)
             IN  [chosen |-> Append(r.chosen, t),
                  remaining |-> r.remaining - IF t = NoType THEN 0 ELSE Weight[t]],
           [chosen |-> <<>>, remaining |-> Budget], goals)

\* Phase 3: a chain, broken where a goal found no module.
Build(chosen) ==
  LET node(i) == <<chosen[i], i - 1>>
      held == {i \in DOMAIN chosen : chosen[i] # NoType}
  IN  [nodes |-> {node(i) : i \in held},
       edges |-> {<<node(i - 1), node(i)>> : i \in {j \in held : j - 1 \in held}}]

TotalCost(g) ==
  FoldSet(LAMBDA n, sum : sum + Weight[n[1]], 0, g.nodes) + Cardinality(g.edges)

\* Phase 4 and the result: NoGraph when planning fails.
Plan(task) ==
  LET g == Build(Select(Goals(task)).chosen)
  IN  IF g.nodes = {} \/ TotalCost(g) > Budget THEN NoGraph ELSE g

----------------------------------------------------------------------------
(* The runtime. *)

RegisterModule(t) ==
  /\ t \notin Range(registry)
  /\ registry' = Append(registry, t)
  /\ UNCHANGED <<state, replans, current, esVars, raised, executions>>

\* The replan count is the runtime's, and is not reset.
Initiate(task) ==
  /\ executions < MaxExecutions
  /\ executions' = executions + 1
  /\ step' = 0
  /\ budget' = Budget
  /\ checkpoints' = <<>>
  /\ LET g == Plan(task)
     IN  /\ graph' = g
         /\ IF g = NoGraph
            THEN /\ state' = "FAILED"
                 /\ memory' = EmptyMemory
                 /\ UNCHANGED current
            ELSE /\ state' = "RUNNING"
                 /\ memory' = [n \in Nodes |-> IF n \in g.nodes THEN "unbound" ELSE "absent"]
                 /\ current' = g
  /\ UNCHANGED <<registry, replans, raised>>

Resume ==
  /\ state = "IDLE"
  /\ state' = "RUNNING"
  /\ UNCHANGED <<registry, replans, current, esVars, raised, executions>>

\* Scheduler.get_runnable: not complete, and everything upstream complete.
Runnable ==
  {n \in graph.nodes :
     /\ memory[n] # "done"
     /\ \A e \in graph.edges : e[2] = n => memory[e[1]] = "done"}

\* decide(): what becomes of the policy's answer.
Decide(answer) ==
  CASE state # "RUNNING" -> "TERMINATE"
    [] state = "RUNNING" /\ replans >= MaxReplans -> "TERMINATE"
    [] state = "RUNNING" /\ replans < MaxReplans /\ answer # "CONTINUE" -> answer
    [] state = "RUNNING" /\ replans < MaxReplans /\ answer = "CONTINUE" ->
         IF Runnable = {} THEN "TERMINATE" ELSE "CONTINUE"

Answers == {"CONTINUE", "REPLAN", "PAUSE", "TERMINATE", "ROLLBACK"}

\* step() takes the state an initiate() returned.
Terminate(answer) ==
  /\ executions > 0
  /\ Decide(answer) = "TERMINATE"
  /\ state' = "TERMINATED"
  /\ UNCHANGED <<registry, replans, current, esVars, raised, executions>>

Pause ==
  /\ Decide("PAUSE") = "PAUSE"
  /\ state' = "IDLE"
  /\ UNCHANGED <<registry, replans, current, esVars, raised, executions>>

\* Scheduler.get_dispatch_order on chains: breadth first from their heads.
Depth(n) ==
  Cardinality({m \in graph.nodes : /\ m[2] < n[2]
                                   /\ \A k \in m[2] .. n[2] : \E o \in graph.nodes : o[2] = k})
Before(m, n) ==
  \/ Depth(m) < Depth(n)
  \/ Depth(m) = Depth(n) /\ m[2] < n[2]

\* act(CONTINUE) dispatches, in order, what was runnable when the loop began:
\* the nodes in finished return a value, those in pending are still at work.
\* The step ends early when the dispatch function or a provider raises, and
\* dispatches nothing when there is no dispatch function.
Dispatch(finished, pending) ==
  /\ Decide("CONTINUE") = "CONTINUE"
  /\ finished \cup pending \subseteq Runnable
  /\ finished \cap pending = {}
  /\ \A m \in Runnable, n \in finished \cup pending : Before(m, n) => m \in finished \cup pending
  /\ pending # {} => step < MaxStep
  /\ memory' = [n \in Nodes |->
                  IF n \in finished THEN "done"
                  ELSE IF n \in pending THEN "pending" ELSE memory[n]]
  /\ step' = step + Cardinality(finished \cup pending)
  /\ UNCHANGED <<registry, state, replans, current, graph, budget, checkpoints,
                 raised, executions>>

\* compute_graph_diff: nodes the old graph did not have, and nodes it had that
\* are not in working memory.
NewOnly(old, new) ==
  (new.nodes \ old.nodes) \cup {n \in new.nodes \cap old.nodes : memory[n] = "absent"}

\* Checkpoint.take and es.C.add: the record holds fewer checkpoints than it may
\* keep, since each replan adds one, so none is evicted.
WithCheckpoint ==
  Append(checkpoints, [memory |-> memory, graph |-> graph, step |-> step])

\* Mutant: the new graph starts from an empty working memory.
ReplanAfresh ==
  /\ Decide("REPLAN") = "REPLAN"
  /\ Plan(ReplanTask) # NoGraph
  /\ replans' = replans + 1
  /\ checkpoints' = WithCheckpoint
  /\ graph' = Plan(ReplanTask)
  /\ current' = graph'
  /\ memory' = [n \in Nodes |-> IF n \in graph'.nodes THEN "unbound" ELSE "absent"]
  /\ step' = step + 1
  /\ UNCHANGED <<registry, state, budget, raised, executions>>

\* The checkpoint is taken before planning and stays when planning fails.
\* Registering a node twice raises, after the graph has been replaced.
Replan ==
  /\ Decide("REPLAN") = "REPLAN"
  /\ replans' = replans + 1
  /\ checkpoints' = WithCheckpoint
  /\ LET g == Plan(ReplanTask)
         new == NewOnly(current, g)
     IN  IF g = NoGraph
         THEN UNCHANGED <<current, memory, graph, step, raised>>
         ELSE /\ graph' = g
              /\ current' = g
              /\ IF \E n \in new : memory[n] # "absent"
                 THEN /\ raised' = TRUE
                      /\ \E done \in SUBSET {n \in new : memory[n] = "absent"} :
                           memory' = [n \in Nodes |-> IF n \in done THEN "unbound" ELSE memory[n]]
                      /\ UNCHANGED step
                 ELSE /\ memory' = [n \in Nodes |-> IF n \in new THEN "unbound" ELSE memory[n]]
                      /\ step' = step + 1
                      /\ UNCHANGED raised
  /\ UNCHANGED <<registry, state, budget, executions>>

\* Mutant: the checkpoint rolled back to is kept.
RollbackKeepingCheckpoint ==
  /\ Decide("ROLLBACK") = "ROLLBACK"
  /\ checkpoints # <<>>
  /\ LET ck == Last(checkpoints)
     IN  memory' = ck.memory /\ graph' = ck.graph /\ step' = ck.step
  /\ budget' = DefaultBudget
  /\ UNCHANGED <<registry, state, replans, current, checkpoints, raised, executions>>

\* The snapshot holds no budget, so the restored state has the default; its
\* checkpoint record is the one from before the checkpoint was added.  The
\* runtime's own record of the graph stays.
Rollback ==
  /\ Decide("ROLLBACK") = "ROLLBACK"
  /\ checkpoints # <<>>
  /\ LET ck == Last(checkpoints)
     IN  memory' = ck.memory /\ graph' = ck.graph /\ step' = ck.step
  /\ budget' = DefaultBudget
  /\ checkpoints' = Front(checkpoints)
  /\ UNCHANGED <<registry, state, replans, current, raised, executions>>

LoopNext ==
  \/ \E t \in Types : RegisterModule(t)
  \/ \E task \in Tasks : Initiate(task)
  \/ Resume
  \/ \E answer \in Answers : Terminate(answer)
  \/ Pause
  \/ \E finished, pending \in SUBSET Runnable : Dispatch(finished, pending)
  \/ Replan
  \/ Rollback

LoopSpec == LoopInit /\ [][LoopNext]_loopVars

\* The caller goes on calling step() and resumes what is paused, and a policy
\* that could ask again and again for the graph to be run does so again and
\* again, with modules that finish.
LoopFairness ==
  /\ WF_loopVars(Resume)
  /\ WF_loopVars(Terminate("CONTINUE"))
  /\ SF_loopVars(Dispatch(Runnable, {}))

LoopFairSpec == LoopSpec /\ LoopFairness

----------------------------------------------------------------------------
(* Properties. *)

\* What the variables hold.  The runtime never plans anew more often than
\* MAX_REPLANS_PER_EXECUTION, and a state has at most one checkpoint per replan.
LoopTypeOK ==
  LET IsGraph(g) == g.nodes \subseteq Nodes /\ g.edges \subseteq g.nodes \X g.nodes
  IN  /\ registry \in Seq(Types)
      /\ state \in {"INIT", "RUNNING", "IDLE", "TERMINATED", "FAILED"}
      /\ replans \in 0 .. MaxReplans
      /\ IsGraph(current) /\ IsGraph(graph)
      /\ memory \in [Nodes -> BufferState]
      /\ step \in Nat /\ budget \in Nat /\ raised \in BOOLEAN /\ executions \in Nat
      /\ Len(checkpoints) <= replans
      /\ \A i \in DOMAIN checkpoints :
           /\ checkpoints[i].memory \in [Nodes -> BufferState]
           /\ IsGraph(checkpoints[i].graph)
           /\ checkpoints[i].step \in 0 .. step

\* Every node the scheduler may hand to act() has a buffer, so es.W[mid] never
\* raises KeyError: also when a rollback has taken working memory back to
\* before a replan while _current_graph still names the graph of the replan.
NodesRegistered ==
  \A n \in graph.nodes : memory[n] # "absent"

\* A replan never registers a node twice (WorkingMemory.register raises), for
\* all that working memory keeps the buffers of graphs long replaced.
NeverRaises == ~raised

\* A module has run only if everything upstream of it has finished: across
\* rollbacks too, which restore memory and graph from one snapshot (INV-3).
DependencyOrder ==
  \A e \in graph.edges : memory[e[2]] \in {"pending", "done"} => memory[e[1]] = "done"

\* A running execution ends, whatever mixture of replans, rollbacks and pauses
\* the policy asks for in between.
Terminates == state = "RUNNING" ~> state \in {"TERMINATED", "FAILED"}

\* An output that was produced stays, whatever is replanned: only a rollback,
\* which uses up a checkpoint, or a new execution takes it away.
OutputsKept ==
  [][ \/ executions' # executions
      \/ Len(checkpoints') < Len(checkpoints)
      \/ \A n \in Nodes : memory[n] = "done" => memory'[n] = "done" ]_loopVars

\* In every state of an execution, whatever replans and rollbacks came before:
\* every node of the graph that runs has a buffer, no step has raised for a
\* buffer registered twice or missing, no module is done before those it takes
\* its inputs from, and no step but a rollback or a new execution takes back an
\* output (Runtime.step, replan, rollback).
LoopSafety ==
  []LoopTypeOK /\ []NodesRegistered /\ []NeverRaises /\ []DependencyOrder /\ OutputsKept

----------------------------------------------------------------------------
(* The inductive invariant behind it. *)

PlanGraph == [nodes : SUBSET Nodes, edges : SUBSET (Nodes \X Nodes)]
IsPlan(g) == g \in PlanGraph /\ g.edges \subseteq g.nodes \X g.nodes /\ IsFiniteSet(g.nodes)

\* What execution, a checkpoint and a rollback leave of memory and graph.
Consistent(m, g) ==
  /\ m \in [Nodes -> BufferState] /\ IsPlan(g)
  /\ \A n \in g.nodes : m[n] # "absent"
  /\ \A e \in g.edges : m[e[2]] \in {"pending", "done"} => m[e[1]] = "done"

\* The goal of a replan when the first k modules were registered, and the one
\* of them it chose.
ReplanGoal(k) ==
  IF \E i \in 1 .. k : ReplanTask[1] \in Caps[registry[i]] THEN ReplanTask[1] ELSE AnyCapability
ReplanChose(i, k) ==
  LET fit == Fit(ReplanGoal(k), Budget) \cap 1 .. k
  IN  i \in fit /\ \A j \in fit : Better(i, j)

\* Memory m has buffers for nodes of the graph last planned only; or that graph
\* is of a replan, made when all modules with a buffer were registered.
PlannedLast(m) ==
  LET held == {n \in Nodes : m[n] # "absent"}
  IN  \/ held \subseteq current.nodes
      \/ \E k \in DOMAIN registry :
           /\ \A n \in held : \E j \in 1 .. k : registry[j] = n[1]
           /\ \E i \in 1 .. k : ReplanChose(i, k) /\ current.nodes = {<<registry[i], 0>>}

HeldRegistered(m) ==
  \A n \in Nodes : m[n] # "absent" => \E j \in DOMAIN registry : registry[j] = n[1]

\* What holds of memory and graph now, and of those of every checkpoint.
Restorable(m, g) == Consistent(m, g) /\ PlannedLast(m) /\ HeldRegistered(m)

LoopInv ==
  /\ LoopTypeOK /\ NeverRaises
  /\ IsInjective(registry) /\ IsPlan(current)
  /\ Restorable(memory, graph)
  /\ checkpoints \in Seq([memory : [Nodes -> BufferState], graph : PlanGraph, step : Nat])
  /\ \A i \in DOMAIN checkpoints :
       /\ Restorable(checkpoints[i].memory, checkpoints[i].graph)
       /\ \A j \in DOMAIN checkpoints : i <= j => checkpoints[i].step <= checkpoints[j].step
============================================================================
