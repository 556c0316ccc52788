# A TLA+ verification of Dynamic Neural Computation

DNC (`src/src/dnc`) is a Python platform in which a computation is a graph that
is planned, executed, judged and changed while it runs. Around that loop it has
what such a system needs to be trusted with work: transactions on the graph, a
durable work queue, a protocol that hands execution state from node to node,
checkpoints, registries whose entries are promoted and rolled back, an audit
trail. This directory holds TLA+ modules of those parts, TLC configurations
that check them on small instances, and proofs, checked by TLAPS, of the
results that should not depend on the instance.

## 1. Inventory

Paths are relative to `src/src/dnc`. *Hard* says why tests alone do not settle
the part; *right* says what makes it correct.

| Part | State | Operations | Hard | Right |
|---|---|---|---|---|
| Durable work queue (`persistence/workers.py`) | items, status, leases, results, fencing counter | submit, lease, heartbeat, complete, reconcile, snapshot, restore | workers act on leases they lost; restores take the counter back | one live lease per item, only the newest lease delivers, irreversible work leased once |
| Graph, mutations, validator (`ir/`, `mutation/`) | units, edges, retired ids; undo log | five operations, their inverses, validation | inverses run on graphs other than those they were computed on | rollback restores what it says, valid graphs only |
| Graph transactions (`transaction/manager.py`) | active graph and its version, per-graph lock, events | plan, execute (begin, stage, apply, validate, commit) | clients plan outside the lock; a commit is four assignments; readers hold no lock | whole versions, planned on what was there, explained by the log |
| Structural replay (`replay/`) | none | replay committed batches | | reproduces the active graph |
| Runtime loop, planner, scheduler (`runtime/`, `planner/`, `scheduler/`, `state/`) | runtime state, current graph, execution state, checkpoints | register, initiate, step (continue, replan, pause, rollback, terminate), resume | replan and rollback in any order over state kept in two places | dependencies respected, nothing raises, nothing lost, the loop ends |
| Distributed handoff (`distributed/protocol.py`) | records, participant states, deduplication windows | initiate, receive | duplicated, late, reordered messages; evicted ids | records match state, a handoff is transferred or it is not |
| Integrated system (`system.py`) | references to all stores, kill switches, counters | run_cycle, entry points per part, capture, restore, localized repair | one restore rewinds every store; a repair calls back into the system | a restore is whole or nothing, a switched-off scope is left alone, the authorised proposal is the one executed |
| Structural adaptation (`dcc/`, `system.py`) | graph, history of assessments, learned bonuses, counters | propose, evaluate, authorise, execute, assess, learn | cycles near the objective's limits, learning from harmful mutations | limits kept, bonuses earned by measured gains |
| Provenance log (`observability/provenance.py`) | events, hash chain, causal index | append, verify, query | appends without a lock | the chain verifies exactly when nothing went wrong, and then the index is complete |
| Projection (`projection/`) | none | project | cycles, parallel edges | an order that respects the edges |
| Event repository (`persistence/repository.py`) | streams, outbox, inbox | append, publish, receive once, rebuild, restore | two writers, redelivery, a crash between sending and marking, restores | versions without gaps, one effect per message, every message delivered |
| Object store and content registries (`persistence/object_store.py`, `registry.py`) | blobs by digest, descriptors by tenant | put, get, register, retrieve, restore | damaged or missing objects, shared bytes | what is handed out is what was registered, to its tenant |
| Plugins (`plugins/`) | manifests, loaded objects | register, load | the entry point changes between admission and loading | what is loaded was admitted |
| Execution snapshots (`execution/snapshot.py`) | recordings, effect ledger, idempotency keys, captures | record, replay, perform, reconcile, capture, admit, restore | parts of different captures; retries after cancellation | a replay repeats what was captured, an effect is undone once |
| Trace and replay (`execution/execution_trace.py`, `execution/replay_engine.py`) | entries of a trace | record, replay | gaps, alterations | an altered decision is found |
| Capability adapters (`capabilities/adapters.py`) | circuit breaker, rate limiter | execute with retries and deadline | threads without a lock, abandoned workers that answer late | an open circuit stays open until it may be tried, calls return once |
| Providers (`providers/`) | recordings | execute, embed | servers that fail in every way | an answer without the mock mark was sent by a server |
| Capability registry, calibration (`capabilities/`, `assurance/calibration.py`) | cards, switches, artifacts | register, set health, disable, match, restore, issue confidence | listeners told of some changes and not of others | confidence rests on current evidence |
| Verifiers, labels, fits (`assurance/`) | verifiers, labels, observations | verify, ingest, fit | budgets, correlated verifiers, late corrections, ties | a verdict that meets its policy, superseded labels out of use, a monotone fit |
| Skill registry, learned policies (`memory/skills.py`, `policy_learning/`) | versions with stages and evaluations; decision log | register, evaluate, promote, roll back, disable, select, log | rollback in several steps that may fail half way | one active version, nothing unqualified active, unbiased estimates |
| Pilot governance (`pilot/governance.py`) | stage, evidence, approvals | record, promote, roll back, approve, review | evidence outlives the stage it was gathered in | promotion in order, approvals fall with new evidence |
| Cognitive state and its repair (`cognition/state.py`, `repair/`) | claims, relations, views, actions, event log | append, transition, invalidate, repair | invalidation through cycles; a repair replaces a state it read before its callbacks ran | statuses, views and history agree with the log, an invalidation reaches all that rests on its root |
| Control choice (`cognition/controller.py`, `control/`) | lifecycles of actions | propose, authorise, prune, pick | pruning and picking by different keys | what is picked is the best of what was allowed |
| Halting (`halting/`, `assurance/semantic.py`) | attempts and their clusters, tokens | decide after each attempt | similarity that is not transitive, an attempt that overruns | stops only on agreement of independent attempts, or for a reason |
| Continual learning (`learning/continual.py`) | versions, rollback count, executions | verify and commit, roll back, bisect, sample | versions overwritten after a rollback; a sample refreshed rarely | the version blamed is the one that broke it |
| Memory (`memory/`) | records, tombstones, dependencies | put, delete, retrieve, invalidate, compress, restore | summaries of summaries | a summary is seen by nobody who could not see its sources |
| Enterprise (`enterprise/`) | audit records, kill switches | append, purge, trip | | with the integrated system |
| Everything else | none of its own | parsing, scoring, statistics, HTTP, tensors | | |

How the parts meet: `DNCSystem.run_cycle` asks the generator for proposals, the
structural controller for a decision, the transaction manager to apply it, the
projector and the execution core to run the graph, and the assessment and
learning engines to judge it. The transaction manager calls the mutation engine
and the validator under the graph's lock and appends to the provenance log. The
runtime loop calls planner, scheduler, decision policy and providers in one
thread, and its caller passes the execution state from step to step. The queue
and the handoff protocol are called by workers and by a network the package
does not contain. `capture_execution_snapshot` and `restore_execution_snapshot`
reach every store.

## 2. Modules

| Module | Models | Checked by |
|---|---|---|
| `WorkQueue` | the durable work queue, its workers and the callers' clock | `MCWorkQueue`, `MCRecovery`, `RecoveryProofs` |
| `StructuralGraph` | graphs, operations, inverses and validator, as operators | `GraphTransaction` |
| `VersionedGraph` | abstract: what the transaction manager promises | `GraphTransaction` (refinement) |
| `GraphTransaction` | threads that run transactions on one graph | `MCGraphTransaction`, `GraphTransactionProofs` |
| `ControlLoop` | runtime, planner, scheduler, execution state | `MCExecution`, `ExecutionProofs` |
| `Handoff` | coordinators and receivers over an unreliable network | `MCHandoff`, `MCExecution`, `ExecutionProofs` |
| `CapabilityCalls` | threads that call a provider behind one breaker and rate limiter | `MCExecution`, `ExecutionProofs` |
| `EventDelivery` | event repository, outbox, transport, inbox | `MCExecution`, `ExecutionProofs` |
| `ProviderCalls` | what the providers answer when their servers fail, live and replayed | `MCExecution`, `ExecutionProofs` |
| `TraceReplay` | a runtime's trace and its replay | `MCExecution`, `ExecutionProofs` |
| `ContentRegistries` | artifact and graph registries over one object store | `MCExecution`, `ExecutionProofs` |
| `PluginLoading` | admission and loading of plugins | `MCExecution`, `ExecutionProofs` |
| `ProvenanceChain` | appends to one provenance log without a lock, its hash chain and queries | `MCExecution`, `ExecutionProofs` |
| `Projection` | lowering a structural graph to an execution order | `MCExecution`, `ExecutionProofs` |
| `SystemState` | the integrated system: kill switches, capture, restore, repair | `MCRecovery`, `RecoveryProofs` |
| `RecordedExecution` | recordings, effect ledger, captures and their admission for replay | `MCRecovery`, `RecoveryProofs` |
| `CognitiveState` | claims, views and actions of a task, invalidation and localised repair | `MCCognitiveState`, `MCCognition`, `CognitionProofs` |
| `ControlChoice` | the choice of a task's next cognitive action | `MCControlChoice`, `MCCognition`, `CognitionProofs` |
| `Adaptation` | the structural adaptation cycle | `MCAdaptation`, `MCCognition`, `CognitionProofs` |
| `Halting` | the halting policies and the clusters of attempts | `MCCognition`, `CognitionProofs` |
| `KnowledgeBase` | versions, verification, bisection and breaker of continual learning | `MCRecovery`, `RecoveryProofs` |
| `DriftSample` | the representative sample drift is measured against | `MCCognition`, `CognitionProofs` |
| `GovernedMemory` | records, tombstones, dependencies, summaries | `MCCognition`, `CognitionProofs` |
| `PilotProgram` | stages, evidence and approvals of a pilot | `MCGovernance`, `GovernanceProofs` |
| `SkillRegistry` | versions of skills that are promoted, quarantined and rolled back | `MCSkillRegistry`, `MCGovernance`, `GovernanceProofs` |
| `Assurance` | capability cards, calibration artifacts, confidence | `MCGovernance`, `GovernanceProofs` |
| `VerifierCascade` | which verifiers a claim is put to, and when the cascade stops | `MCGovernance`, `GovernanceProofs` |
| `Outcomes` | labels and corrections that arrive late or twice; isotonic fit, calibration error, conformal bound | `MCGovernance`, `GovernanceProofs` |
| `LearnedPolicies` | decision log, off-policy estimates, promotion of learned policies | `MCGovernance`, `GovernanceProofs` |
| `FoldTheorems` | no part of the code: what a fold over a sequence computes, for any step | its own proofs |

`MCExecution`, `MCCognition`, `MCGovernance` and `MCRecovery` put several
instances into one run. The variable `part` names the component a behaviour is
of; the components that are not named stay as they begin, so each behaviour is
one of that component alone and the parts do not multiply each other's states.
The other MC modules are instances of one component.

Definitions whose names say what they do wrong (`ReconcileRequeuingAll`,
`BaseIgnored`, ...) stand before the definition they are a faulty variant of.
Nothing uses them; `PROJECT.json` pairs each with the property that catches it.

### WorkQueue

The dictionaries `_items`, `_status`, `_leases`, `_results` are functions on
work ids, `_fencing` a number. Each method is one action; a call that raises or
returns early without writing is a stuttering step, so its condition is the
action's guard. `now` is the clock the callers pass as `now_ns`. `grants` is
history, not code: the leases as the workers were last told of them. A worker
acts on any lease it was ever granted, at any time, which covers workers that
crash, stall or answer twice. `Snapshot` and `Restore` are the queue's part of
the integrated snapshot; `Spec` is a life without restores, `RestoreSpec` one
with them. Tenant and idempotency key are one value; resource demands are one
number; checksums and outputs are an opaque outcome.

### StructuralGraph, GraphTransaction, VersionedGraph

A graph is its units, its sequence of edges and its retired ids. `Applicable`,
`Effect` and `InverseOf` are the three things `apply_operation` does with an
operation: refuse it, carry it out, record how to undo it. Unit contracts enter
as constants (which ports, which cardinalities, which edges governance admits).
A client reads graph and version without the lock (`Plan`), later acquires the
lock and runs. A transaction is a step per point where another thread can see a
difference: begin, each operation, validation, and the four assignments of a
commit, which `phase` separates. `events` is the provenance log without its
hashes; `committed` and `origin` are history variables that feed `Replay`.
`VersionedGraph` says what a client may rely on: the graph moves from version
to version, each valid, and a retired id never comes back. The refinement maps
the abstract graph to the staged one from the first assignment of a commit on.

### ControlLoop and TraceReplay

One action per outcome of `step()`, plus registration, `initiate` and `resume`.
The decision policy is arbitrary. The planner's four phases are operators over
the registry; a plan is a chain of module instances, broken where a goal found
no module. A dispatch runs, in the scheduler's order, any prefix of what was
runnable at its start: a provider that raises ends it there. `current` is the
runtime's own reference to the graph, `graph` the execution state's; a rollback
restores the second only, as in the code. A checkpoint holds what `to_dict`
holds, so a rollback sets the budget to the default. Costs are in tenths.
`TraceReplay` fixes a plan and the rules of `RulePolicy` that can fire, keeps
the trace entries step by step, lets a module raise before the entry of its step
is written, changes stored decisions, and replays them on a fresh runtime.

### Handoff

A message is named by its type and handoff, because ids are fresh uuids. The
network and whoever decides to commit or abort are outside the package:
`Settle` sends one COMMIT or one ABORT once the transfer was sent, and every
message sent may be delivered any number of times in any order. PREPARE, NACK
and HEARTBEAT messages are never produced or have no effect. The window evicts
its oldest id, as `IdempotentReceiver.record` does.

### CapabilityCalls, ProviderCalls

In `CapabilityCalls` each call is a thread whose steps are the calls `execute()`
makes on breaker, limiter and worker. A worker that missed its deadline stays
behind and may answer at any later time. Breaker and limiter have no lock, so
their steps interleave freely; `Threshold`, `Recovery`, `PerMinute` are the
code's parameters in units of the model's clock. In `ProviderCalls` a call meets
one outcome on the wire and the operator of each provider says what it makes of
it: the answer, a failure, a blank, or words of its own with the mark `_mock`.
A blank is a success: an object without the part wanted gives one in every
provider (`providers/anthropic.py:165` among them), an empty list in all but
Anthropic's, whose index raises. A run is in one mode of the recording provider
(`LIVE`, `RECORD`, `REPLAY`, `DENY_LIVE`); recordings are filed under capability
and input, so two modules that ask the same thing share one, and in `RECORD` a
second answer that differs from the one on file raises and ends the run
(`execution/snapshot.py:484`). Configurations and keys are left out. The history
`said` is what servers sent for each request.

### EventDelivery

A writer reads a version, later appends under that version. Outbox and stream
are written in one step, as in `append`. Sending and marking as published are
two steps of the publisher with a crash possible in between; what is in flight
can be received any number of times; a restore brings events, outbox and inbox
back to a snapshot and leaves what is in flight. `work` is history: what the
consumer did.

### ContentRegistries, PluginLoading, ProvenanceChain, Projection

`ContentRegistries` keeps objects whole or damaged under their digests, shared
by tenants; descriptors are per tenant. `PluginLoading` lets the package at an
entry point and the manifest in the registry change between registration and
`load()`. `ProvenanceChain` takes `append()` apart where another thread may run:
reading the hash, writing the event, testing for, creating, loading and
extending the list of the causal index, setting the hash; a hash is the sequence
of what was hashed into it. `Projection` authors a graph edge by edge and then
takes units from the queue of Kahn's algorithm one by one.

### SystemState, RecordedExecution

`SystemState` has an action per family of entry points of `DNCSystem`: each
looks at the kill switches the code looks at and moves the version number of the
part it changes. A snapshot holds all parts; it may be damaged in one of them
before `Restore`, which then fails as a whole. `BeginRepair` opens a snapshot,
every other action may happen while the callbacks run, and the end of the repair
keeps the changes or takes everything back. `RecordedExecution` has the modes of
the recording provider, the ledger with idempotency keys and cleanups, captures,
and snapshots put together from parts of different captures.

### CognitiveState, ControlChoice, Halting

The cognitive state is an immutable object that `DNCSystem` holds one reference
to, so `cog` is one record and each `with_...` method replaces it. A repair is
two steps, reading the state and replacing it; whatever `recompute` and `verify`
or another thread do in between is an ordinary update, and is overwritten as in
the code, by the repaired state or, when the repair fails, by the snapshot. Of
the event log the model keeps the invalidations and repairs (`log`).
`registered` is history: the length of the log when a view was last registered.
`ControlChoice` abstracts the state to a set of facts and a risk level, and has
generation, deduplication, authorisation, pruning and choice as operators; its
actions make choices and let actions' lifecycles go on. `Halting` asks the
policy after every attempt, check, retrieval and clarification.

### Adaptation, KnowledgeBase, DriftSample, GovernedMemory

`Adaptation` is `run_cycle` as one action over the operators it calls, with the
weights of the code as whole numbers, for the three drivers that use them; the
transaction is its outcome, and any transaction may fail (`GraphTransaction` says
when it does). Utilities are whole numbers of parts, `Precision * max_units` to
the ten-thousandth, so that no weight or penalty of the code has to be rounded
and any rational utility can be had. Where a sum is exactly at a limit of the
controller (0.05, 0.8) or a loss exactly 0.02, floats may fall on either side of
it, and both are taken (`rounding`, `AssessedPacing`): 0.6 - 0.55 is such a case.
`MarginalGate` says by how much the expected utility of what a cycle executes
must beat the utility last observed: 0.046 for wiring, 0.38 for specialization,
0.18 for composition. Wiring is authorised at gains from 0.046 up to 0.05 and
again from 0.092 (all of it after penalties), because a gain below 0.05 is
counted whole and a larger one by half. In `KnowledgeBase` an update writes over what its keys had,
so a later version may cure what an earlier one broke, commits after rollbacks
write over later versions, and which contents violate is any set. The bisection
is a recursive function. Its docstring promises the earliest violating version,
or None if there is no violation (`learning/continual.py:474`); where a later
version cures the violation it may answer another one or None, and
`RootCauseFound` says what it does find. `DriftSample` recomputes clusters every
`Clusters` executions; timestamps are the callers' and need not follow the order
of the history, and a sample that exceeds its cap keeps the lowest indices
(`learning/continual.py:206`), so it may lose the executions recorded last.
`DriftSampleNewest` says how stale it can be: the most recent execution of a
class is missed while fewer than `Clusters` executions follow it, or when the
cap cut it off (`CutOff`), which with the code's cap of 100 takes more than 90
classes.
`GovernedMemory` lets summaries be summarised; the information-loss check of
`compress_records` compares arguments of the caller and is left out.

### PilotProgram, SkillRegistry, Assurance and its helpers, LearnedPolicies

One action per method of `PilotProgram`. An approval carries the evidence it was
given for, which stands for its fingerprint; every change of evidence or stage
clears the approvals. In `SkillRegistry` a rollback is the method as written:
the version is marked first, and a parent that is unknown or not qualified
leaves it at that. A parent is a version of the same skill, since it is looked up
under the child's skill id, and may be another tenant's or the version itself.
`drifted` and `strayed` are history: `strayed` is set when a rollback activates
the parent of a version that was not active, or that is of another tenant.
Versions are registered in DRAFT, as `induce_skill` makes them. `Assurance` joins
capability registry, broker, calibration registry and verifier fingerprints as
`DNCSystem` does; a restore of the registry tells no listener. In
`Outcomes` and `LearnedPolicies` scores, propensities and weights are
numerators over common denominators, so the comparisons are exact. The
observations `fit_isotonic` sorts are kept sorted as they arrive; its `while`
loop is a fold of `PoolTurn` over twice as many turns as there are observations,
a block being named by its last observation, whose score the code keeps. A
decision with an action of propensity zero, which a policy that does not explore
makes, cannot be logged: `LoggedCandidate` refuses it.

## 3. Runs

| Run | Instance | Shows |
|---|---|---|
| `queue_safety` | 4 items (irreversible, requeueable, one competing for a key and too big for one worker, one under the work id of another), 2 workers, clock to 4, 3 leases, durations 1 and 2 | exclusive live leases, results from the newest lease, irreversible work leased once, final results |
| `recovery` | queue: 3 items, 2 of them under one work id, 2 workers, clock to 2, 2 leases, a backup restored at any time; system: one store, a tenant, a neural capability, the global switch or the tenant's, one snapshot; branch: one request with two answers, one reversible effect, two captures; knowledge: 4 versions of one key that is sound, violating or unset, 2 rollbacks | dictionaries agree and tokens on file are distinct across restores; what goes back goes back whole, a switched-off scope is left alone; replays agree with captures, effects are undone once; bisection finds the culprit |
| `transaction` | 2 threads, 2 transactions, 9 batches with all operations, failing ones included, a valid and a dangling first graph | commits valid, planned on what was there, log and undo log account for the graph (`LogSound`), refinement of `VersionedGraph`, the lock comes back |
| `execution` | loop: 3 module types, 4 tasks, 2 executions, 2 replans; calls: 3 threads, one with a deadline, threshold 2, 1 retry; delivery: 2 writers of one aggregate, 2 deliveries, 1 restore; providers: 4 orders of binding, 3 modules of which 2 ask the same thing, 2 runs in any modes; trace: 3 modules, 4 entries; handoff: 2 nodes, 3 handoffs, window of 2; registries: 2 tenants, 3 graphs in 2 documents; plugins: 2, in 3 editions; chain: 2 threads, 3 events; projection: 3 units, 3 edges of 3 types | the properties of the ten components that carry out work, in safety and, for loop, calls and delivery, liveness |
| `cognition` | mind: 3 claims in a chain, with a relation, or in a cycle, 1 update while a repair runs; halting: 3 conclusions of which one resembles both others, 4 attempts; choice: budgets 0 and 3; adaptation: 5 cycles, no signal or three, utilities of 0.45, 0.55, 0.554 and 0.9; drift: 5 executions, 2 classes, 2 timestamps, a cap of 2; memory: 3 records, 2 tenants | statuses, views, history and log agree; halting, choice and adaptation do what they should; the sample is no staler than its period and cap make it; summaries tell no more than their sources |
| `governance` | pilot: 9 observations over all stages, one id used twice, 2 roles, 2 people; skills: 3 versions in a line of descent over 2 tenants, the first its own parent; assurance: 2 capabilities, 2 models, an artifact; cascade: 4 verifiers, 5 policies; labels: 3; fits: 5 observations; learned: 2 policies, 2 decisions | pilot, skills, confidence, cascade, labels, fits and learned policies as their properties say |
| `queue_restore_irreversible` | queue of `recovery`, clock to 3 | *violated*: irreversible work leased before a restore is leased again |
| `handoff_abort_final` | handoff of `execution` | *violated*: a transfer delivered after the abort installs the state |
| `skill_drift` | skills of `governance`, the first without a parent | *violated*: a rollback activates a version that drifted |
| `repair_closure` | mind of `cognition` | *violated*: a repaired output rests on an invalid claim |
| `executed_authorized` | adaptation with two proposals that may both be executed | *violated*: the proposal executed is not the one authorised |
| `reauthorization` | choice with a task that needs an action twice | *violated*: the second authorisation raises |

Runs marked *violated* state what a document, comment or test of the repository
says; the counterexample is the finding, quoted in `PROJECT.json`. A property
that is a conjunction (`LoopSafety`, `CallsSafety`, `SystemSafety`, ...) has its
conjuncts defined and explained above it in its module.

Other differences between code and documents, or surprises, that the models
contain and no property is about:

- `submit` does not look whether a work id is in use (`persistence/workers.py:31`).
  Submitted again under another key, a finished id becomes READY again and can be
  leased, but never completed, since `complete` still finds the first result; an
  id that is leased can at once be leased to a second worker, and what the first
  one delivers is recorded for the item that came later.
- `rollback` of a skill activates the parent without looking whose it is and takes
  no other version down (`memory/skills.py:121`): rolled back for a version of
  another tenant, or one that was not active, it leaves a tenant with two active
  versions.
- Undoing REMOVE_UNIT brings the unit back but leaves its id retired, although
  `mutation/undo.py:16` speaks of exact rollback.
- A commit is four assignments, and a reader between them sees a graph that is
  not valid or has another version, although `transaction/manager.py:190` says
  it happens atomically.
- `step()` on a paused execution terminates it;
  `specs/layer-6-evolution/decision-policy.md:55` wants PAUSE to await
  resumption.
- A rollback of the runtime sets the budget to its default, since `to_dict`
  leaves it out (`runtime/runtime.py:375`), and the limit on replans counts the
  life of the runtime, not of one execution (`runtime/runtime.py:291`).
- A rollback from offline replay enters the shadow stage with no observation at
  all (`pilot/governance.py:220`), although the pilot plan asks for a success in
  each stage. `CanaryEarned` therefore speaks of the stages beyond shadow.
- The local providers (`providers/vllm.py`, `providers/ollama.py`) turn every
  URLError into a successful answer of their own, which completes a module and
  is recorded and replayed; nothing in `src/` reads its mark `_mock`.
  `CompletedByServer` says that such answers are the only ones no server sent,
  and that they carry the mark. `max_retries` is not used, and no provider takes over from one that
  failed. `docs/conformance-report.md:104` speaks of an `offline=True` that
  no provider has.
- A replay compares decisions only, although `execution/replay_engine.py:8`
  names modules too.
- The adaptive halting policy stops with a contradiction open when VERIFY is not
  exposed (`halting/policy.py:165`), although
  `docs/halting/PHASE6-ADAPTIVE-HALTING.md` wants every policy to satisfy the
  minimum stop checks. An exhausted budget with an ambiguity still asks or
  retrieves.
- A restore of the integrated snapshot also rewinds the kill switches and the
  audit log (`system.py:589`), while the rollback section of the Phase 14
  security document wants audit evidence preserved. A failed repair takes them
  back too; a successful one overwrites what its callbacks changed in the
  cognitive state. Some entry points look at fewer scopes than were switched off.
- Artifacts: the object is stored before the descriptor is found to conflict,
  and a restored object store leaves descriptors without objects.
- A commit after a rollback of the knowledge base overwrites later versions,
  although INV-CL-11 calls versions immutable.
- Composition and specialization proposals always roll back; a wiring that
  exists already is proposed again in every cycle; the count of recent mutations
  never decays; a core that raises after the commit leaves the last observed
  utility stale. `DCCLClosedLoopOrchestrator` raises with the real components.
- Exploration of learned policies happens at indices divisible by the period and
  picks by the same index, so some actions may never be explored; importance
  sampling divides by the rows the target supports.
- Deduplication of candidate actions comes before authorisation, so a candidate
  that would be refused can displace one that would not.
- `invalidate_dependencies` does not look at legal holds, and a summary inherits
  neither expiry nor hold.

Why the bounds are enough. Three leases on two or three items are what it takes
for a lease to be lost, granted again and reconciled a second time (with
restores two do, since a restore takes the counter back); a clock to 4
passes the deadline 3 and lets a lease of length 1 or 2 expire before and after
it. Two transactions on one graph are a conflict, and the batches contain an
operation of each kind that succeeds, one that fails, and one whose failure
comes after operations that must be undone. Two executions show what the
runtime carries from one to the next; two replans fill the limit. A threshold of
two is the least at which a failure may or may not open the circuit, and three
calls are the one that opens it, one let in before and one that finds it open. A
window of two ids with up to six messages to one receiver evicts ids of messages
that are delivered again. Two deliveries with a restore between them are the
least for a message to be done twice. Two threads and three events interleave
every pair of steps of `append()` and give a cause with two effects. Three edges
make a cycle of three, parallel edges before another, and a unit behind a cycle.
The pilot's observations contain, for each criterion, one set that meets it and
one that does not. Three versions, two of them a
tenant's, give a rollback of a rollback, one that activates a second version of
that tenant for the other, and one that brings a withdrawn version back. Three claims are
the fewest in which a cycle or a mixed path of dependencies and relations does
not contain everything. Three conclusions of which one resembles two unlike ones
are the least for clusters to depend on order. Five observations pool backwards
twice. Five cycles reach the limits of the objective and the learning window.
Deadlock is not checked because each system may stop: every client may have
finished, and the bounds stop the rest.

Fairness. In `transaction` a thread that holds the lock goes on (`WF` of each
client's steps under the lock): those steps call nothing that waits. In
`execution` fairness is stated for each part that has a liveness property. The
caller of the runtime goes on calling `step()` and resumes what it paused (`WF`
of `Resume` and of termination), and a policy that could ask again and again for
the graph to run does so with modules that finish (`SF` of a complete dispatch);
without that the code gives no guarantee, since a policy may answer PAUSE for
ever. A thread that makes a capability call goes on (`WF` of `ThreadStep`), while
nothing is assumed of the provider: the deadline alone ends the wait. The
publisher sends what is in the outbox and the transport delivers what was sent
(`WF` of `SendMessage` and `ReceiveMessage`).

## 4. Proofs

Five modules of proofs, each `EXTENDS` the modules it is about, and
`FoldTheorems`, whose lemmas they share. A theorem holds
for every value of the constants that the named assumptions allow; the runs show
the same property on one small instance. TLC checked each inductive invariant
before it was proved. "Whole" below means that the theorem states the very
definition a run checks.

### RecoveryProofs: WorkQueue, SystemState, RecordedExecution, KnowledgeBase

- `QueueInvariance`: `QueueInv` holds. The safety properties are not inductive.
  That live leases exclude each other needs to know that a worker who believes
  its lease live has it on file or has delivered (`LiveGrantsCurrent`); that the
  newest lease delivers needs the file to hold the newest (`NewestLeaseOnFile`)
  and tokens to tell grants apart (`GrantsFenced`); that irreversible work is
  leased once needs its status never to be READY again
  (`IrreversibleNotRequeued`).
- `DictionariesStayInAgreement`, `LeasesExclude`, `FencingHolds`,
  `IrreversibleWorkLeasedOnce`, `ResultsAreFinal` follow, for any items. `submit`
  does not check that a work id is fresh; the history `reused` holds the ids that
  were submitted again, and the first four say of those only what survives that.
  `ResultsAreFinal` excepts nothing.
- `RestoredQueueConsistent`: with restores at any time, agreement of the
  dictionaries and distinct tokens on file survive; the invariant is weaker and
  speaks of the backup too.
- `SystemIsSafe` (`SystemSafety`, whole). `SwitchesStopAll` holds in every state
  of the right type; `RestoreWhole` goes through the steps: of all of them only
  restores, the snapshot of the graph and a failed repair take anything back,
  which needs that every capture is a state the system could be in
  (`SystemTypeOK`).
- `RecordIsFaithful` (`RecordSafety`, whole). `RecordInv` adds that what a call
  was answered is on record, that the manifest presented for replay is that of
  one capture whatever content came with it, and that the ledger's entry for a
  cleanup is itself never cleaned up. Without the last a second reconciliation
  would undo an undoing.
- `RootCausesAreFound` (`KBInvariant`, whole). The bisection is a recursive
  function, so its result is read off by a least counterexample: just before
  `lo` there is a sound version or the start of the list, just after `hi` the
  version found, which violates, or the end of the list; the loop ends where the
  two meet. Nothing is assumed of which versions violate.

### GraphTransactionProofs: GraphTransaction

- `TransactionInvariance`: `TransactionInv`, which adds the lock discipline, the
  progress of a commit (how much of the staged graph is installed in each
  phase), that a base version names the graph its client saw, and that staging
  keeps retired ids retired.
- `CommitsStayValid`, `PlansApplyToWhatWasSeen`, and `ManagerImplementsVersions`:
  each step installs a version or leaves the abstract state alone.
- `HistoryIsAccountedFor` (`LogSound`, whole), from `AccountInvariance`.
  `HistoryInv` adds three things to `TransactionInv`. The holder's progress:
  what has been applied is a beginning of its batch, and all of it once it
  commits (`HolderProgress`). What is pending: replaying the committed batches
  gives the last committed graph, applying the pending operations to that gives
  the copy (`ReplayExplains`), and were the transaction to commit now, the
  events of the committed ones would hold just these operations, in this order
  (`LogExplains`). What can be undone: on *any* graph with the units of the copy
  the undo log brings back the units of the active graph (`UndoExplains`). It
  speaks of any graph because a rollback passes through graphs whose edges are
  not those of the way there.

### FoldTheorems: what a fold computes

The library's induction theorems take an operator as a parameter, which the
provers cannot instantiate. `FoldTheorems` has the step of the fold as a
constant instead, and a module instantiates it once for each step of its own
(`INSTANCE FoldTheorems WITH Step <- ...`).

- `RunEmpty` and `RunAppend`: one element more is one step more. `FoldLeft` is
  a recursion over subsets of the domain; the lemmas show that it is one over
  lengths, by the least counterexample.
- `RunPrepend`, `RunAgree`, `RunStays`: the same from the other end; two steps
  that agree on the elements of a sequence compute the same; what no step leaves
  is not left. `RunAdvances`: a set per length, each led into the next by the
  step, says where a run has got to. `FlattenAppend`: the same of `FlattenSeq`.

### ExecutionProofs: what moves work, calls and results about

- `HandoffsAreKept` (`HandoffInvariant`, whole). `HandoffInv` adds that the
  driver settles a handoff one way only, that a record says ABORTED only for an
  abort that was sent, and that a message in a window of duplicates has been
  acknowledged. So a message that slides out of the window and comes again finds
  a record that already agrees with it.
- `DeliveryIsEffectivelyOnce` (`DeliveryInvariant`, whole). `DeliveryInv` adds
  that the work of a message whose key is not in the inbox was done before some
  restore (`WorkOnFile`), and that a backup is a repository like any other.
- `CompletionsComeFromServers` (`CompletedByServer`, whole): a replay finds what
  a call of the same provider left (`RecordedFromProvider`), and what was sent
  stays sent.
- `OnlyIntactIsHandedOut` (`HandedOutIntact`, whole).
- `PluginsAreAsAdmitted` (`LoadedAsAdmitted`, whole): a plugin once handed out is
  registered, and no registration is replaced.
- `CallsAreSafe` (`CallsSafety`, whole): the type of the threads' places is
  enough for the two action properties.
- `VerdictOfTheChainIsExact` (`ChainTells`, whole). `ChainInv` says what both
  verdicts leave behind. Once appends overlap, two events stand on chains of one
  length (`Twins`), in the chain or about to be written, and no later append
  takes that back; a chain that verifies has lengths 1, 2, 3, ... Until then the
  chain, the causal index and the last hash are what appends one after the other
  make of them (`SerialChain`, `SerialIndex`, `SerialAppend`). That the searches
  along causes and effects agree needs that they come to an end within as many
  rounds as there are ids (`ReachedClosed`, by counting) and find nothing else
  (`ReachedLeast`), and that a cause has a smaller id than its effects.
- `FeedersGoFirst` (`OrderRespectsEdges`, whole). `SortingInv` is that of Kahn's
  algorithm: ordered and waiting units are distinct and are those whose count is
  zero, the count being that of the edges from units not yet ordered
  (`QueueFollowsDegrees`), and what feeds an ordered unit is ordered before it
  (`SourcesFirst`). When the queue is empty each unit left is fed by another, so
  one of them is on a cycle (`CycleExists`: take one that is downstream of the
  fewest), and no unit is left that a cycle does not hold back. The order of the
  ids is given by rank, a unit's place being how many come before it
  (`SortedLists`).
- `LoopIsSafe` (`LoopSafety`, whole). `LoopInv` says of memory and graph, now and
  in every checkpoint (`Restorable`), that every node of the graph has a buffer
  and that what is pending or done has its inputs done (`Consistent`), and that
  the nodes with a buffer are those of the graph last planned (`PlannedLast`), so
  a rollback restores a graph the runtime can go on with. The planner's phases
  are folds (`GoalsAre`, `SelectIs`, `PlanIs`); a replan plans one module, the
  best that fits, which keeps being the best of those registered at the time
  (`ReplanPlanIs`).
- `AlterationsAreFound` (`AlterationFound`, whole). `ExecutionRecorded`: as long
  as no step raised, each entry has the decision and the invocations that the
  outputs of the entries before it call for. A replay under way has gone through
  some of the entries and holds their outputs (`ReplayFollows`), so the decision
  it takes differs from a stored one just when that was changed.

### GovernanceProofs: PilotProgram, SkillRegistry, Assurance, VerifierCascade, Outcomes, LearnedPolicies

- `PilotInvariance`: the safety properties of the pilot, taken together, are
  inductive, together with `IndependentApprovers`: no person holds the approval
  of two roles, from which the number of signatures under a review follows.
- `ApprovalsStayCurrent`, `CanaryStaysEarned`, and `AvailabilityIsSigned`, the
  action property that general availability is entered on as many distinct
  signatures as there are roles, for the evidence under review. The last assumes
  that there are finitely many roles. `PilotIsSafe` combines them into the
  property the run checks, `PilotSafety`.
- `SkillInvariance`: `SkillInv` adds to one active version that a drifted
  version is on no rung of the ladder it could climb from
  (`DriftedOffLadder`). Without it a climb could carry a drifted version to
  ACTIVE.
- `OneActiveVersion`, `ActivationsAreQualified`, `DriftReentersOnlyByRollback`,
  combined in `SkillsAreSafe`, for any versions and parents of the same skill.
  The first holds until a rollback activates the parent of a version that was not
  active, or of another tenant's version; the code does both.
- `ConfidenceIsEarned` (`AssuranceSafety`, whole). `EvidenceKept` adds that an
  artifact whose model was replaced is no longer CALIBRATED, so a listener that
  is told of a new card after the card is in place leaves no gap.
- `SatisfiedClaimsAreSound` (`CascadeSound`, whole). The candidates are given by
  rank, so they are the active verifiers, each once, the cheaper first. `Standing`
  says what the cascade has come to after each number of candidates: which were
  run and in which order, what they cost, what they answered, and that one passed
  over was out of budget; `RunAdvances` carries it to the end.
- `CurrentIsNotSuperseded` (`SupersededNotCurrent`, whole): each label is filed
  once under its target, after the label it supersedes.
- `FitsAreBest` (`FitsInvariant`, whole), from `ObservedInv`: the observations are
  pairs of a score and a label, in order. The rest is about `fit_isotonic` and
  the metrics. Over the sums of the prefixes of the labels (`PrefixSums`) a block
  is a chord; merging a block with a lower one after it keeps chords on or below
  the sums (`MergedChord`), and `AfterTurns` counts blocks and position against
  the turns, so that the loop ends with blocks that increase (`IsotonicIs`). The
  chord of such a block, drawn on to both sides, still lies on or below all the
  sums (`LineSupports`, from block to block). Hence no mean that ends with a block
  is above it and none that starts with it is below it (`MeansMeetBlock`), and the
  block is the largest of the smallest means (`IsotonicBest`). The gap of all is
  within the calibration error because every score lies in exactly one bin
  (`InOneBin`) and the excess of a union of bins is the sum of theirs
  (`ExcessAdds`).
- `RolledBackPoliciesStayOut`: one policy at most is active, and one rolled back
  stays so. This is the action property in `LearnedSafety`.
- `LearningIsSafe` (`LearnedSafety`, whole). `LearnedInv` says that the log holds
  examples the contracts admit and that a pending decision is an offer
  (`IsOffer`): its propensities sum to one. They do because the eligible actions
  are ordered by prediction and id, so each is ranked once (`RanksList`, which
  `CandidatesSorted` uses too), and equal shares with the rest given to one sum
  to the whole (`SharesSum`). On its own log a policy leaves out only what is
  censored and weighs every example one unit (`SelfWeights`), and each sum of the
  evaluation is then a multiple of a plain one (`SelfSums`).

### CognitionProofs: CognitiveState, ControlChoice, GovernedMemory, DriftSample, Halting, Adaptation

- `StateIsExplained` (`CognitiveSafety`, whole). The invariant holds of the
  state and of the one an open repair will put back (`StateInv`), since a repair
  rewinds the log. `InvalidationReaches` is proved from the rounds of
  `invalidate_from`: they only add claims that rest on the root, and as many
  rounds as there are claims leave none out, by counting.
- `SummariesAreGoverned` (`SummariesTellNoMore`, whole): tenant, labels and trust;
  expiry and legal hold are no part of it. `MemoryInv` says it of
  one step, from a record to its sources, for the store and its backup;
  `Sources` is the least set closed under that step.
- `NewestIsSampled` (`DriftSampleNewest`, whole). `DriftInv` says what the sample
  holds of the history as it was clustered last. The cap takes an argument about
  counting (`LowestIs`): where it leaves one out, it is full of lower ones. What
  is most recent in the whole history is so in every beginning that has it.
- `ChoiceIsSettled` (`ChoiceInvariant`, whole). Deduplication leaves candidates
  with different ids, so their keys order them totally and the first exists, by
  counting those before it; what dominates an equally uncertain candidate comes
  before it, so pruning never drops the first.
- `TasksHaltWithinBudget` (`HaltingInvariant`, whole). `HaltingInv` adds that no
  policy asks for another attempt out of an exhausted budget
  (`AttemptsAffordable`), and that the cluster an attempt would be placed in now
  holds one of its correlation group already (`Clustered`). Likeness is not
  transitive, so the second needs that what a cluster begins with never changes:
  then a repetition goes where its group is, and adds no weight.
- `AdaptationIsSafe` (`AdaptationInvariant`, whole). `AdaptationInv` adds the
  fields of the records (`AdaptationRecords`). Proposals are what a filter leaves
  of four kinds in a fixed order, so each list is one of sixteen, and ranking by
  learned bonuses leaves it as it is: the bonuses follow the order of the kinds.
  The gate is arithmetic over the scores, linear in the parts of a ten-thousandth:
  with each penalty the controller may add and either rounding at its limits, an
  expected gain below the bound of its kind stays under the threshold.

### Assumptions

The named assumptions on constants are in the modules that declare them and are
evaluated by TLC in the runs. Most say that a bound is a number, that a marker
such as `NoRecord` is none of the values it stands beside, or that sets are what
their comments say. The others, and why the code meets them:

- `DriftConstants`: at least two clusters; the code has ten. With one the sample
  is empty after a single execution.
- `ChainConstants`: finitely many threads; event ids are drawn from finitely many
  because the number of events is bounded, and no id is the marker for "no
  cause", which is `None`.
- `ChoicesAssumption`: a task starts with finitely many claims and relations
  between its own claims; `with_relation` refuses others, and a tuple is finite.
- `BranchConstants`: an id made by the cleanup of an effect is not the id of an
  effect. The code makes it with the prefix `cleanup:`; a caller that gives an
  effect of its own such an id is left out.
- `BatchAssumption`: the fields of an operation are of the types its contract
  declares: a unit of the graph's, or an edge between two.
- `OffersAssumption`: what generators offer are candidates of the contract's
  types, whose numbers are not negative (`OutcomeVector.__post_init__`).
- `CascadeConstants`: the costs of verifiers and the budget of a policy are not
  negative, which their `__post_init__` tests.
- `BudgetAssumption`, `FactsAssumption`: the limits of a budget and the tokens of
  an attempt are not negative, which `InferenceBudget.__post_init__` tests, and a
  task starts with facts of the halting context.
- `RoutesAssumption`, `WindowAssumption`: a handoff has two peers, and the window
  of message ids is not empty; the code keeps 1000.
- `UnitsAssumption`, `FirstLogAssumption`: exploration is a tenth at most
  (`LearnedPolicyVersion.__post_init__`), numbers are counted in units fine enough
  to be whole, and the rows of a first log satisfy their contracts.
- `TaskAssumption`: the task a runtime plans for after REPLAN is one word, which
  is "replan" (`runtime/runtime.py:424`); tasks are sequences of words.
- `TraceConstants`: a plan has each node once and edges between its nodes, and no
  module returns the `UNBOUND` of a buffer without output.
- `ObjectiveAssumption`, `StructuresAssumption`, `CycleBounds`: an objective has
  room for a unit and an edge, the graph a system starts with is within its
  limits, and utilities are whole numbers of parts, which a `Precision` that is
  large enough makes of any finite set of rational utilities.
- `CalibrationConstants`: scores are fractions of a positive denominator, and
  there is a bin; the code has ten.

### What stays with TLC

Every safety and every action property of the passing runs is a theorem. The
modules are written for it: `SelectSeq` and `SortSeq` have no theorems in the
library, while folds have those of `FoldTheorems`, and an order given by rank, or
kept by every insertion, needs none. A recursive function is within reach too: its
definition chooses a function, that one exists is shown round by round, and what
it computes follows by the least counterexample, as for `Bisection`, `Dependents`
and `Reached`. Left to TLC are:

- Liveness: fairness and `ENABLED` are out of the provers' reach.
- That invalidation of an artifact, or a state of a run, is reachable.

## 5. Plan

1. *Done*: the modules and runs above, and the proofs of section 4.
2. An abstract specification of exactly-once receipt that `EventDelivery`
   implements between restores.
3. `SystemState` with the detailed modules of queue, memory and registries in
   place of version numbers; quotas and data policies of `enterprise/`.

## 6. Not modelled

Cost forecasts, confidence intervals, temperature and Platt scaling, and the
ranking of what memory retrieves compare floating-point numbers and keep no
state: the models let them decide either way or leave them out. Neural backends
are tensor arithmetic. Parsing, formatting, canonical JSON, schema migration and
hashing are conversions that no property here is about. Benchmarks, reports and
the command line observe the system. The bindings to external stores in
`persistence/adapters.py` are input and output. `PROJECT.json` lists every part
with its reason.
