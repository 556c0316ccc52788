------------------------- MODULE RecordedExecution -------------------------
(***************************************************************************)
(* A speculative branch as dnc.execution.snapshot runs it: provider calls  *)
(* go through RecordingExecutionProvider, effects through EffectLedger,    *)
(* CleanupReconciler and IdempotencyRegistry under run_with_guards, and    *)
(* ReferenceSnapshotManager captures graph, recordings and ledger.         *)
(*                                                                         *)
(* A hash is modelled by the value it is taken of.  The content of a graph *)
(* or of a runtime state is a version number.  Effect ids do not start     *)
(* with "cleanup:", which the reconciler keeps for its own entries.        *)
(***************************************************************************)
EXTENDS Integers, Sequences

CONSTANTS
  ReplayModes, \* RECORD, and the modes LIVE, REPLAY and DENY_LIVE, which change nothing
  Requests,    \* request hashes
  Outputs,     \* what the live provider may answer
  Effects,     \* effect ids
  EffectKind,  \* the effect type of each: "FILE_WRITE", "NETWORK_CALL", ...
  Reversible,  \* which of them are reversible
  Allowed,     \* the effect types the SandboxPolicy lets through
  Payloads,    \* payload hashes of effects
  Nothing,     \* None, and what is not there
  RuntimeKept, \* whether captures hold a runtime state: a set of booleans
  MaxGraph,    \* bound: graph versions
  MaxCaptures  \* bound: snapshots captured

ASSUME BranchConstants ==
  /\ EffectKind \in [Effects -> {"FILE_WRITE", "NETWORK_CALL", "PROVIDER_CALL", "PURE"}]
  /\ Reversible \in [Effects -> BOOLEAN]
  /\ MaxGraph \in Nat /\ MaxCaptures \in Nat /\ RuntimeKept \subseteq BOOLEAN
  /\ Nothing \notin Outputs \cup Payloads /\ Nothing \notin Nat
  /\ \A e \in Effects : <<"cleanup", e>> \notin Effects \cup {Nothing}

VARIABLES
  replayMode,  \* RecordingExecutionProvider.mode
  recordings,  \* ProviderReplayStore: the response recorded for each request
  answered,    \* history: what recorded calls returned to the branch
  branch,      \* IDLE, RUNNING inside run_with_guards, or CANCELLED
  ledger,      \* EffectLedger
  keys,        \* IdempotencyRegistry: the payload registered for each effect
  branchGraph, \* version of the graph the branch works on
  captures,    \* history: content at each capture, with its grade
  stored       \* the Snapshot presented for replay: manifest and content

replayVars == <<replayMode, recordings, answered>>
effectVars == <<branch, ledger, keys>>
snapshotVars == <<branchGraph, captures, stored>>
recordVars == <<replayVars, effectVars, snapshotVars>>

EffectKinds == {"GRAPH", "RUNTIME_STATE", "COGNITIVE_STATE", "CAPABILITY_REGISTRY", "MODEL_PARAMETERS",
          "OPTIMIZER_STATE", "SAMPLER_STATE", "COMPILATION_STATE", "RNG", "PROVIDER_RESPONSES",
          "CACHE", "FILESYSTEM", "DATABASE", "OBJECT_STORE", "QUEUE", "NETWORK", "ENVIRONMENT"}

\* default_mutable_state_audit.
DefaultAudit ==
  [k \in EffectKinds |->
     IF k \in {"PROVIDER_RESPONSES", "NETWORK"} THEN "RECORDED"
     ELSE IF k \in {"COMPILATION_STATE", "CACHE", "FILESYSTEM", "DATABASE", "OBJECT_STORE",
                    "QUEUE", "ENVIRONMENT"} THEN "READ_ONLY"
     ELSE "ISOLATED"]

RejectsShared(audit) == \E k \in EffectKinds : audit[k] = "SHARED_MUTABLE"

RecordInit ==
  /\ replayMode = "RECORD" /\ recordings = [q \in Requests |-> Nothing] /\ answered = {}
  /\ branch = "IDLE" /\ ledger = [e \in {} |-> Nothing] /\ keys = [e \in Effects |-> Nothing]
  /\ branchGraph = 0 /\ captures = <<>> /\ stored = Nothing

----------------------------------------------------------------------------
(* RecordingExecutionProvider *)

SetMode(mode) ==
  /\ replayMode' = mode
  /\ UNCHANGED <<recordings, answered, effectVars, snapshotVars>>

\* ProviderReplayStore.add, which raises after the live call when the provider
\* answers a request it has answered differently: the branch gets no result.
AddRecording(q, out) ==
  IF recordings[q] \in {Nothing, out}
  THEN /\ recordings' = [recordings EXCEPT ![q] = out]
       /\ answered' = answered \cup {<<q, out>>}
  ELSE UNCHANGED <<recordings, answered>>

\* What the REPLAY mode returns, without calling the provider.
Replayed(q) == recordings[q]

\* execute: only a successful call in RECORD mode changes anything.
Execute(q, out) ==
  /\ replayMode = "RECORD"
  /\ AddRecording(q, out)
  /\ UNCHANGED <<replayMode, effectVars, snapshotVars>>

----------------------------------------------------------------------------
(* run_with_guards, SandboxPolicy, IdempotencyRegistry, EffectLedger *)

\* Both guards hold and the audit declares nothing shared.
Enter(audit) ==
  /\ branch = "IDLE" /\ ~RejectsShared(audit)
  /\ branch' = "RUNNING"
  /\ UNCHANGED <<ledger, keys, replayVars, snapshotVars>>

\* The guards are checked again after the operation: a token cancelled, or a
\* deadline passed, meanwhile discards the result and not the effects.
Leave(cancelled) ==
  /\ branch = "RUNNING"
  /\ branch' = IF cancelled THEN "CANCELLED" ELSE "IDLE"
  /\ UNCHANGED <<ledger, keys, replayVars, snapshotVars>>

Permits(e) == EffectKind[e] \in Allowed \cup {"PURE"}

Present(id) == id \in DOMAIN ledger

PutEntry(id, entry) ==
  ledger' = [i \in DOMAIN ledger \cup {id} |-> IF i = id THEN entry ELSE ledger[i]]

\* Mutant: the newest report replaces the entry.
ReplaceEntry(id, entry) == PutEntry(id, entry)

\* EffectLedger.add raises when the id stands for another entry.
AddEntry(id, entry) ==
  IF Present(id) /\ ledger[id] # entry THEN UNCHANGED ledger ELSE PutEntry(id, entry)

\* register: a key used again with the same payload says that the effect has
\* been carried out, and with another payload raises.
Perform(e, payload) ==
  /\ branch = "RUNNING" /\ Permits(e)
  /\ IF keys[e] = Nothing
     THEN /\ keys' = [keys EXCEPT ![e] = payload]
          /\ AddEntry(e, [by |-> Nothing, reversible |-> Reversible[e], committed |-> TRUE])
     ELSE UNCHANGED <<keys, ledger>>
  /\ UNCHANGED <<branch, replayVars, snapshotVars>>

\* An entry reported once more, with no key: a late or repeated report.
Report(e) ==
  /\ Permits(e)
  /\ AddEntry(e, [by |-> Nothing, reversible |-> Reversible[e], committed |-> TRUE])
  /\ UNCHANGED <<branch, keys, replayVars, snapshotVars>>

\* The id of the entry that cleans up after e.
Cleanup(e) == <<"cleanup", e>>

Uncompensated == {i \in DOMAIN ledger : /\ ledger[i].committed /\ ledger[i].reversible
                                        /\ ledger[i].by = Nothing}

\* CleanupReconciler.reconcile: every uncompensated entry gets its cleanup.
ReconcileEffects ==
  /\ branch # "RUNNING"
  /\ LET done == Uncompensated
         cleanups == {Cleanup(e) : e \in done}
     IN  ledger' = [i \in DOMAIN ledger \cup cleanups |->
                      IF i \in cleanups
                      THEN [by |-> Nothing, reversible |-> FALSE, committed |-> TRUE]
                      ELSE IF i \in done THEN [ledger[i] EXCEPT !.by = Cleanup(i)] ELSE ledger[i]]
  /\ branch' = "IDLE"
  /\ UNCHANGED <<keys, replayVars, snapshotVars>>

----------------------------------------------------------------------------
(* ReferenceSnapshotManager *)

Rank(grade) == CHOOSE n \in 0 .. 4 : grade = <<"R0", "R1", "R2", "R3", "R4">>[n + 1]

\* The branch advances its graph.
Advance ==
  /\ branchGraph < MaxGraph /\ branchGraph' = branchGraph + 1
  /\ UNCHANGED <<captures, stored, replayVars, effectVars>>

\* What a capture copies: a recorded execution adds recordings and effects.
Content(grade, withRuntime) ==
  [graph |-> branchGraph,
   runtime |-> IF withRuntime THEN branchGraph ELSE Nothing,
   recordings |-> IF grade = "R3" THEN recordings ELSE [q \in Requests |-> Nothing],
   effects |-> IF grade = "R3" THEN ledger ELSE [e \in {} |-> Nothing]]

\* capture_graph declares R2 and leaves the externals out; and
\* capture_recorded_execution declares R3.
Capture(grade, withRuntime) ==
  /\ Len(captures) < MaxCaptures
  /\ captures' = Append(captures, [grade |-> grade, hashed |-> Content(grade, withRuntime)])
  /\ UNCHANGED <<branchGraph, stored, replayVars, effectVars>>

\* Every response that was recorded now reads out, unless out is Nothing.
Changed(kept, out) ==
  [q \in Requests |-> IF Nothing \in {out, kept[q]} THEN kept[q] ELSE out]

\* A snapshot is put together from what was stored: a manifest, the graph and
\* the runtime state kept with it, or with another one, and the recordings and
\* effects likewise.  A stored response may have been changed since.  A legacy
\* manifest is one of schema 0.1.0.
Load(manifest, core, externals, changed, legacy) ==
  /\ stored' = [manifest |-> captures[manifest], legacy |-> legacy,
                content |-> [graph |-> captures[core].hashed.graph,
                             runtime |-> captures[core].hashed.runtime,
                             recordings |-> Changed(captures[externals].hashed.recordings, changed),
                             effects |-> captures[externals].hashed.effects]]
  /\ UNCHANGED <<branchGraph, captures, replayVars, effectVars>>

CoreIntact(s) ==
  s.content.graph = s.manifest.hashed.graph /\ s.content.runtime = s.manifest.hashed.runtime

RecordedIds(content) ==
  <<{q \in Requests : content.recordings[q] # Nothing}, DOMAIN content.effects>>

\* The ids and the hashes of recordings and effects.
ExternalsIntact(s) ==
  /\ RecordedIds(s.content) = RecordedIds(s.manifest.hashed)
  /\ s.content.recordings = s.manifest.hashed.recordings
  /\ s.content.effects = s.manifest.hashed.effects

\* assess_replay_admission: no reason against the requested grade.
Admitted(s, grade) ==
  /\ Rank(grade) <= Rank(s.manifest.grade)
  /\ Rank(grade) >= 2 => CoreIntact(s)
  /\ Rank(grade) >= 3 => ~s.legacy /\ ExternalsIntact(s) /\ s.manifest.grade = "R3"

\* restore_graph, which checks the two hashes of the core.
RestoredGraph(s) == IF CoreIntact(s) THEN s.content.graph ELSE Nothing

RestoreGraph ==
  /\ stored # Nothing /\ RestoredGraph(stored) # Nothing
  /\ branchGraph' = RestoredGraph(stored)
  /\ UNCHANGED <<captures, stored, replayVars, effectVars>>

RecordNext ==
  \/ \E mode \in ReplayModes : SetMode(mode)
  \/ \E q \in Requests, out \in Outputs : Execute(q, out)
  \/ Enter(DefaultAudit)
  \/ \E cancelled \in BOOLEAN : Leave(cancelled)
  \/ \E e \in Effects : Report(e) \/ \E payload \in Payloads : Perform(e, payload)
  \/ ReconcileEffects \/ Advance
  \/ \E grade \in {"R2", "R3"}, withRuntime \in RuntimeKept : Capture(grade, withRuntime)
  \/ \E i, j, k \in DOMAIN captures, out \in Outputs \cup {Nothing}, legacy \in BOOLEAN :
       Load(i, j, k, out, legacy)
  \/ RestoreGraph

RecordSpec == RecordInit /\ [][RecordNext]_recordVars

----------------------------------------------------------------------------
(* Properties *)

EntryIds == Effects \cup {Cleanup(e) : e \in Effects}

Entry == [by : {Nothing} \cup {Cleanup(e) : e \in Effects}, reversible : BOOLEAN, committed : BOOLEAN]

Ledgers == UNION {[ids -> Entry] : ids \in SUBSET EntryIds}

Recordings == [Requests -> Outputs \cup {Nothing}]

CapturedContent ==
  [graph : 0 .. MaxGraph, runtime : 0 .. MaxGraph \cup {Nothing}, recordings : Recordings,
   effects : Ledgers]

Capturing == [grade : {"R2", "R3"}, hashed : CapturedContent]

RecordTypeOK ==
  /\ recordings \in [Requests -> Outputs \cup {Nothing}]
  /\ branch \in {"IDLE", "RUNNING", "CANCELLED"}
  /\ keys \in [Effects -> Payloads \cup {Nothing}]
  /\ branchGraph \in 0 .. MaxGraph /\ Len(captures) <= MaxCaptures

\* A provider may answer a request differently each time, and a snapshot may be
\* put together from different captures, or be changed in the store.  Whatever
\* a recorded call returned to the branch is what its replay returns; and a
\* snapshot is admitted for replay with recorded externals only as one capture,
\* whole, so that its ledger says of each effect what it said when the graph and
\* the responses were captured.
ReplayAgrees ==
  /\ \A call \in answered : Replayed(call[1]) = call[2]
  /\ stored # Nothing =>
       /\ Admitted(stored, "R3") =>
            \E i \in DOMAIN captures : stored.content = captures[i].hashed
       /\ Admitted(stored, "R2") => RestoredGraph(stored) # Nothing
       /\ ~Admitted(stored, "R4")

\* What a call was answered is on record.
AnswersOnRecord ==
  \A call \in answered : call \in Requests \X Outputs /\ recordings[call[1]] = call[2]

\* The manifest presented is that of one capture, whatever it came with.
ManifestOfCapture ==
  stored # Nothing =>
    /\ stored \in [manifest : Capturing, legacy : BOOLEAN, content : CapturedContent]
    /\ \E i \in DOMAIN captures : stored.manifest = captures[i]

\* The entry of a cleanup is never itself to be cleaned up.
CleanupsFinal ==
  \A e \in Effects : Cleanup(e) \in DOMAIN ledger =>
    ~ledger[Cleanup(e)].reversible /\ ledger[Cleanup(e)].by = Nothing

RecordInv ==
  /\ RecordTypeOK /\ ledger \in Ledgers /\ captures \in Seq(Capturing)
  /\ AnswersOnRecord /\ ManifestOfCapture /\ CleanupsFinal

\* An effect that has been cleaned up stays cleaned up, by the same cleanup,
\* although it is retried after a cancellation or reported late or twice; and
\* reconciling leaves no committed reversible effect behind.
CleanedUpOnce ==
  [][/\ \A e \in DOMAIN ledger : ledger[e].by # Nothing => ledger'[e] = ledger[e]
     /\ branch = "CANCELLED" /\ branch' = "IDLE" => Uncompensated' = {}]_recordVars

\* Of a recorded branch: its replays reproduce what was captured, and no
\* effect of it is cleaned up twice.
RecordSafety == []RecordTypeOK /\ []ReplayAgrees /\ CleanedUpOnce
============================================================================
