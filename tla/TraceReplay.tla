---------------------------- MODULE TraceReplay ----------------------------
(***************************************************************************)
(* An execution of dnc.runtime with its ExecutionTrace, and the replay of  *)
(* that trace by ReplayEngine on a fresh runtime.                          *)
(*                                                                         *)
(* The graph is planned once.  The decision policy is RulePolicy, of which *)
(* the runtime reaches two rules: it is told of no failure and sets no     *)
(* critical section, and a budget below the threshold plans no graph.      *)
(* Module outputs are model values; a trace is stored between execution    *)
(* and replay, where a recorded decision may change.                       *)
(***************************************************************************)
EXTENDS Integers, Sequences, SequencesExt, FiniteSets

CONSTANTS
  PlanNodes,     \* the nodes of the graph, in the scheduler's order
  PlanEdges,     \* its edges
  ModuleType,    \* the module type of each node
  ModuleOutputs, \* what a module may return
  NoOutput,      \* UNBOUND, which no module returns
  MaxRecords,    \* bound: records of a trace
  StepLimits     \* values of ReplayConfig.max_steps

ASSUME TraceConstants ==
  /\ IsInjective(PlanNodes) /\ PlanEdges \subseteq ToSet(PlanNodes) \X ToSet(PlanNodes)
  /\ PlanNodes \in Seq(ToSet(PlanNodes)) /\ NoOutput \notin ModuleOutputs
  /\ MaxRecords \in Nat /\ StepLimits \subseteq Nat

VARIABLES
  output,    \* working memory: the output of each node, or NoOutput
  runState,  \* state of the runtime: RUNNING or TERMINATED
  record,    \* execution_record: decision taken and modules invoked, per step
  lost,      \* history: modules that ran in a step that raised, which has no record
  altered,   \* history: the steps whose recorded decision was changed
  replayed   \* the replay, or NoReplay

traceVars == <<output, runState, record, lost, altered, replayed>>

NoReplay == [state |-> "NONE"]

Idle(nodes) == [n \in nodes |-> NoOutput]

TraceInit ==
  /\ output = Idle(ToSet(PlanNodes)) /\ runState = "RUNNING"
  /\ record = <<>> /\ lost = <<>> /\ altered = {} /\ replayed = NoReplay

----------------------------------------------------------------------------
(* decide() and act() of either runtime, given its outputs and its state *)

\* WorkingMemory.is_complete.
Complete(out) == {n \in DOMAIN out : out[n] # NoOutput}

\* Scheduler.get_runnable, in order.
ReadyAfter(done) ==
  FoldLeft(LAMBDA ready, n :
             IF n \notin done /\ \A e \in PlanEdges : e[2] = n => e[1] \in done
             THEN Append(ready, n) ELSE ready,
           <<>>, PlanNodes)

Ready(out) == ReadyAfter(Complete(out))

\* A runtime that does not run decides TERMINATE; RulePolicy ends when nothing
\* is pending, and the runtime when nothing is runnable.
DecideStep(out, state) ==
  IF state # "RUNNING" \/ Ready(out) = <<>> THEN "TERMINATE" ELSE "CONTINUE"

\* act(): the ready nodes get their outputs.
ActOn(out, ready, given) ==
  [n \in DOMAIN out |-> IF n \in ToSet(ready) THEN given[n] ELSE out[n]]

----------------------------------------------------------------------------
(* The recorded execution *)

StepRecord(decision, invoked) == [decision |-> decision, invoked |-> invoked]

Invoked(nodes, out) ==
  [i \in DOMAIN nodes |-> [type |-> ModuleType[nodes[i]], node |-> nodes[i], output |-> out[nodes[i]]]]

\* step(): observe, decide, act, record.
RunStep(given) ==
  /\ replayed = NoReplay /\ Len(record) < MaxRecords
  /\ LET decision == DecideStep(output, runState)
         ready == IF decision = "CONTINUE" THEN Ready(output) ELSE <<>>
     IN  /\ output' = ActOn(output, ready, given)
         /\ runState' = IF decision = "TERMINATE" THEN "TERMINATED" ELSE runState
         /\ record' = Append(record, StepRecord(decision, Invoked(ready, given)))
  /\ UNCHANGED <<lost, altered, replayed>>

\* A module raises out of step(): those before it in the batch have run, and
\* nothing is recorded.
RaisingStep(given, n) ==
  /\ replayed = NoReplay
  /\ DecideStep(output, runState) = "CONTINUE"
  /\ n < Len(Ready(output))
  /\ LET done == SubSeq(Ready(output), 1, n)
     IN  /\ output' = ActOn(output, done, given)
         /\ lost' = lost \o done
  /\ UNCHANGED <<runState, record, altered, replayed>>

\* The stored trace is changed: step i now reads another decision.
Alter(i) ==
  /\ replayed = NoReplay /\ i \notin altered
  /\ record' = [record EXCEPT ![i].decision = IF @ = "CONTINUE" THEN "TERMINATE" ELSE "CONTINUE"]
  /\ altered' = altered \cup {i}
  /\ UNCHANGED <<output, runState, lost, replayed>>

----------------------------------------------------------------------------
(* ReplayEngine *)

Invocations == FoldLeft(LAMBDA all, r : all \o r.invoked, <<>>, record)

\* _recorded_response_map: the last output recorded for each module type.
ResponseMap ==
  [t \in {Invocations[i].type : i \in DOMAIN Invocations} |->
     Invocations[CHOOSE i \in DOMAIN Invocations :
                   /\ Invocations[i].type = t
                   /\ \A j \in DOMAIN Invocations : Invocations[j].type = t => j <= i].output]

\* verify_trace_integrity; every record has its decision and its observation.
Replayable == record # <<>>

\* replay() with recorded responses needs one response at least.
StartReplay(limit) ==
  /\ replayed = NoReplay
  /\ Replayable /\ DOMAIN ResponseMap # {}
  /\ replayed' = [state |-> "RUNNING", limit |-> limit, at |-> 0, matched |-> <<>>,
                  output |-> Idle(ToSet(PlanNodes)), modules |-> <<>>]
  /\ UNCHANGED <<output, runState, record, lost, altered>>

EchoedDecision == record[replayed.at + 1].decision

\* The fresh runtime decides for itself.
FreshDecision == DecideStep(replayed.output, "RUNNING")

\* One turn of the loop: the decision is derived afresh and compared; a
\* deviation ends the replay.  A type with no recorded response raises.
ReplayStep ==
  /\ replayed.state = "RUNNING"
  /\ replayed.at < Len(record) /\ replayed.at < replayed.limit
  /\ LET fresh == FreshDecision
         same == fresh = record[replayed.at + 1].decision
         ready == IF fresh = "CONTINUE" THEN Ready(replayed.output) ELSE <<>>
         types == [i \in DOMAIN ready |-> ModuleType[ready[i]]]
         compared == [replayed EXCEPT !.at = @ + 1, !.matched = Append(@, same)]
     IN  replayed' =
           IF ~same THEN [compared EXCEPT !.state = "ENDED"]
           ELSE IF \E i \in DOMAIN ready : types[i] \notin DOMAIN ResponseMap
           THEN [compared EXCEPT !.state = "RAISED"]
           ELSE [compared EXCEPT
                   !.output = ActOn(@, ready, [n \in ToSet(ready) |-> ResponseMap[ModuleType[n]]]),
                   !.modules = @ \o types,
                   !.state = IF fresh = "TERMINATE" THEN "ENDED" ELSE @]
  /\ UNCHANGED <<output, runState, record, lost, altered>>

EndReplay ==
  /\ replayed.state = "RUNNING"
  /\ replayed.at >= Len(record) \/ replayed.at >= replayed.limit
  /\ replayed' = [replayed EXCEPT !.state = "ENDED"]
  /\ UNCHANGED <<output, runState, record, lost, altered>>

\* ReplayResult.is_identical.
IsIdentical ==
  replayed.state = "ENDED" /\ \A i \in DOMAIN replayed.matched : replayed.matched[i]

Given == [ToSet(PlanNodes) -> ModuleOutputs]

TraceNext ==
  \/ \E given \in Given :
       RunStep(given) \/ \E n \in 0 .. Len(PlanNodes) : RaisingStep(given, n)
  \/ \E i \in DOMAIN record : Alter(i)
  \/ \E limit \in StepLimits : StartReplay(limit)
  \/ ReplayStep \/ EndReplay

TraceSpec == TraceInit /\ [][TraceNext]_traceVars

----------------------------------------------------------------------------
(* Properties *)

\* The module types that ran in the first k steps of a record, in order.
ModulesIn(rec, k) ==
  FoldLeft(LAMBDA all, r : all \o [i \in DOMAIN r.invoked |-> r.invoked[i].type],
           <<>>, SubSeq(rec, 1, k))

\* The replay compares decisions only, and stops at a deviation.  Still, the
\* recorded steps it went through name it identical exactly when none of their
\* decisions was changed, and then the fresh runtime ran the modules that were
\* recorded, in that order: for a trace that no raising step left a gap in.
AlterationFound ==
  replayed.state = "ENDED" /\ lost = <<>> =>
    /\ IsIdentical <=> altered \cap 1 .. replayed.at = {}
    /\ IsIdentical => replayed.modules = ModulesIn(record, replayed.at)

----------------------------------------------------------------------------
(* The inductive invariant behind it *)

TypesOf == {ModuleType[n] : n \in ToSet(PlanNodes)}
Memories == [ToSet(PlanNodes) -> ModuleOutputs \cup {NoOutput}]
Invocation == [type : TypesOf, node : ToSet(PlanNodes), output : ModuleOutputs]
TraceRecord == [decision : {"CONTINUE", "TERMINATE"}, invoked : Seq(Invocation)]
Replay == [state : {"RUNNING", "ENDED", "RAISED"}, limit : Nat, at : Nat, matched : Seq(BOOLEAN),
           output : Memories, modules : Seq(TypesOf)]

\* The nodes invoked in the first k steps of a record, and what a runtime
\* decides that has these done.
DoneIn(rec, k) ==
  UNION {{rec[i].invoked[j].node : j \in DOMAIN rec[i].invoked} : i \in 1 .. k}
Verdict(done) == IF ReadyAfter(done) = <<>> THEN "TERMINATE" ELSE "CONTINUE"

\* What every step of a record says when no step raised: what was ready after
\* the steps before it ran, and the decision is the one for them just when it
\* was not changed.
RecordOfPlan(rec, changed) ==
  \A i \in DOMAIN rec :
    LET ready == ReadyAfter(DoneIn(rec, i - 1))
    IN  /\ DOMAIN rec[i].invoked = DOMAIN ready
        /\ \A j \in DOMAIN ready :
             rec[i].invoked[j].node = ready[j] /\ rec[i].invoked[j].type = ModuleType[ready[j]]
        /\ i \in changed <=> rec[i].decision # Verdict(DoneIn(rec, i - 1))

TraceTypeOK ==
  /\ output \in Memories /\ runState \in {"RUNNING", "TERMINATED"}
  /\ record \in Seq(TraceRecord) /\ lost \in Seq(ToSet(PlanNodes))
  /\ altered \subseteq DOMAIN record /\ replayed \in {NoReplay} \cup Replay

ExecutionRecorded ==
  /\ Complete(output) = DoneIn(record, Len(record)) /\ RecordOfPlan(record, altered)
  /\ runState = "TERMINATED" => Ready(output) = <<>>

ReplayFollows ==
  LET matching == \A i \in 1 .. replayed.at : replayed.matched[i]
  IN  /\ replayed.at <= Len(record) /\ Len(replayed.matched) = replayed.at
      /\ \A i \in 1 .. replayed.at : replayed.matched[i] <=> i \notin altered
      /\ replayed.state = "RUNNING" =>
           matching /\ Complete(replayed.output) = DoneIn(record, replayed.at)
      /\ replayed.state # "RAISED" /\ matching =>
           replayed.modules = ModulesIn(record, replayed.at)

TraceInv ==
  /\ TraceTypeOK
  /\ lost = <<>> => ExecutionRecorded
  /\ lost = <<>> /\ replayed # NoReplay => ReplayFollows
============================================================================
