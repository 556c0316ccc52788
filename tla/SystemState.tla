---------------------------- MODULE SystemState ----------------------------
(***************************************************************************)
(* DNCSystem as the owner of its parts: entry points behind kill switches, *)
(* changes to the parts, integrated snapshots that may be damaged before   *)
(* they are restored, and localized repair inside a snapshot.              *)
(*                                                                         *)
(* What a part holds is a version number here, except where an entry point *)
(* looks inside: the cognitive state's tenant, the capabilities that are   *)
(* available, the audit records and the kill switches.                     *)
(* The callbacks of a repair may call the system: between BeginRepair and  *)
(* its end every other action may happen, but no second repair.            *)
(***************************************************************************)
EXTENDS Integers, FiniteSets

CONSTANTS
  Stores,       \* parts only captured and restored: memory, queue, data assets, ...
  Tenants, DefaultTenant,
  Caps, Skills, \* capabilities and skills a candidate is made of
  CapModel,     \* the model of each capability
  Neural,       \* capabilities qualified for adaptive depth
  RecordNames,  \* audit record ids
  UnderHold,    \* audit records under legal hold
  NoSystemState, NoCandidate, NoRepairOpen,
  SwitchScopes, \* the scopes operators switch off and on
  MaxSwitched,  \* bound: scopes switched off at a time
  MaxPart,      \* bound: versions of a part
  MaxCounted,   \* bound: cycles, commits and rollbacks
  MaxCaptured   \* bound: snapshots kept, that of an open repair included

ASSUME SystemConstants == MaxPart \in Nat /\ MaxCaptured \in Nat

VARIABLES
  graphAt,     \* graph.version
  mind,        \* cognitive_state: its tenant and a version, or none
  online,      \* capability_registry.available()
  stores,      \* the version of every other captured part
  counters,    \* _cycle_count, _transaction_commits, _transaction_rollbacks
  auditLog,    \* audit_log
  switches,    \* kill_switches: the scopes switched off
  proposed,    \* a semantic graph candidate: the scopes of what it is made of
  captured,    \* snapshots taken
  repairing    \* the repair that is open: its snapshot and the original state

partVars == <<graphAt, mind, online, stores, counters, auditLog, switches>>
systemVars == <<partVars, proposed, captured, repairing>>

----------------------------------------------------------------------------
(* Kill switches *)

Global == <<"global">>
TenantScope(t) == <<"tenant", t>>
ActionType(a) == <<"action", a>>
Capability(c) == <<"capability", c>>
Model(c) == <<"model", CapModel[c]>>
SkillScope(s) == <<"skill", s>>

ActiveTenant == IF mind = NoSystemState THEN DefaultTenant ELSE mind.tenant

\* KillSwitches.permitted, of an operation of these scopes.
Permitted(scopes) == ({Global} \cup scopes) \cap switches = {}

\* _require_enterprise_permitted, for the tenant of the cognitive state.
RequirePermitted(scopes) == Permitted(scopes \cup {TenantScope(ActiveTenant)})

Switch(scope) ==
  /\ switches' \in {switches \cup {scope}, switches \ {scope}}
  /\ Cardinality(switches') <= MaxSwitched
  /\ UNCHANGED <<graphAt, mind, online, stores, counters, auditLog,
                 proposed, captured, repairing>>

----------------------------------------------------------------------------
(* Everything a snapshot holds *)

Parts ==
  [graph |-> graphAt, mind |-> mind, online |-> online, stores |-> stores, counters |-> counters,
   audit |-> auditLog, switches |-> switches]

SystemInit ==
  /\ graphAt = 0 /\ mind = NoSystemState /\ online = Caps
  /\ stores = [s \in Stores |-> 0]
  /\ counters = [cycles |-> 0, commits |-> 0, rollbacks |-> 0]
  /\ auditLog = {} /\ switches = {}
  /\ proposed = NoCandidate /\ captured = {} /\ repairing = NoRepairOpen

----------------------------------------------------------------------------
(* Parts change on their own, past the entry points *)

\* set_cognitive_state and update_cognitive_state; the new state is of the
\* active task, and so of its tenant.
ChangeMind ==
  /\ mind' \in IF mind = NoSystemState
               THEN {[tenant |-> t, version |-> 0] : t \in Tenants}
               ELSE {NoSystemState, [mind EXCEPT !.version = @ + 1]}
  /\ mind' # NoSystemState => mind'.version <= MaxPart
  /\ UNCHANGED <<graphAt, online, stores, counters, auditLog, switches,
                 proposed, captured, repairing>>

ChangeStore(s) ==
  /\ stores[s] < MaxPart
  /\ stores' = [stores EXCEPT ![s] = @ + 1]
  /\ UNCHANGED <<graphAt, mind, online, counters, auditLog, switches,
                 proposed, captured, repairing>>

ChangeCapability(c) ==
  /\ online' \in {online \cup {c}, online \ {c}}
  /\ UNCHANGED <<graphAt, mind, stores, counters, auditLog, switches,
                 proposed, captured, repairing>>

\* AuditLog.append refuses an id that is there.
AppendAudit(r) ==
  /\ r \notin auditLog
  /\ auditLog' = auditLog \cup {r}
  /\ UNCHANGED <<graphAt, mind, online, stores, counters, switches,
                 proposed, captured, repairing>>

\* AuditLog.purge of what is past its retention and not under legal hold.
PurgeAudit(expired) ==
  /\ auditLog' = auditLog \ (expired \ UnderHold)
  /\ UNCHANGED <<graphAt, mind, online, stores, counters, switches,
                 proposed, captured, repairing>>

----------------------------------------------------------------------------
(* Entry points *)

\* The entry points that only answer, each as the set of pieces of work it would
\* do now, a piece of work being the scopes it is in.  select_capability: the
\* gate for the action type, the broker's choice among what is available, and
\* the gate for what was chosen.
SelectCapability ==
  {{TenantScope(ActiveTenant), Capability(c), Model(c)} :
     c \in {c \in online : /\ RequirePermitted({ActionType("SELECT")})
                           /\ RequirePermitted({Capability(c), Model(c)})}}

\* execute_adaptive_neural: the capability is available and qualified.
ExecuteNeural ==
  {{TenantScope(ActiveTenant), Capability(c), Model(c)} :
     c \in {c \in online \cap Neural : RequirePermitted({Capability(c), Model(c)})}}

\* verify_claim, for the tenant of the claim.
VerifyClaim == {{TenantScope(t)} : t \in {t \in Tenants : Permitted({TenantScope(t), ActionType("VERIFY_CLAIM")})}}

\* retrieve_memory, for the tenant the criteria name or the active one.
RetrieveMemory ==
  {{TenantScope(t)} : t \in {t \in Tenants \cup {ActiveTenant} :
                        Permitted({TenantScope(t), ActionType("RETRIEVE_MEMORY")})}}

\* decide_inference.
DecideInference == IF RequirePermitted({ActionType("INFERENCE_DECISION")})
                   THEN {{TenantScope(ActiveTenant)}} ELSE {}

\* select_learned_action, whose policy is switched off like a model.
SelectLearned ==
  {{TenantScope(ActiveTenant), Model(c)} :
     c \in {c \in Caps : RequirePermitted({Model(c), ActionType("LEARNED_POLICY_SELECT")})}}

\* select_cognitive_action, with a decision to authorize: the gate for control,
\* the selection, the gate for the action selected, and the lifecycle event.
ControlOpen == RequirePermitted({ActionType("COGNITIVE_CONTROL")}) /\ mind # NoSystemState

SelectAction ==
  /\ ControlOpen /\ mind.version < MaxPart
  /\ mind' = [mind EXCEPT !.version = @ + 1]
  /\ UNCHANGED <<graphAt, online, stores, counters, auditLog, switches,
                 proposed, captured, repairing>>

\* synthesize_semantic_graph: the gates for the tenant and for each skill, and
\* units of available capabilities.
SynthesisOpen(skills, c) ==
  /\ mind # NoSystemState /\ c \in online
  /\ RequirePermitted({ActionType("SYNTHESIZE_GRAPH")})
  /\ \A s \in skills : RequirePermitted({SkillScope(s)})

Synthesize(skills, c) ==
  /\ SynthesisOpen(skills, c)
  /\ proposed' = [skills |-> skills, capability |-> c]
  /\ UNCHANGED <<partVars, captured, repairing>>

\* bound: cycles, commits and rollbacks together
Room == counters.cycles + counters.commits + counters.rollbacks < MaxCounted

Count(counter) == [counters EXCEPT ![counter] = @ + 1]

\* apply_semantic_candidate: one gate, for the action; the capability must
\* still be available.  A commit moves the graph, a rollback does not.
ApplyOpen ==
  /\ proposed # NoCandidate /\ mind # NoSystemState
  /\ RequirePermitted({ActionType("APPLY_SEMANTIC_GRAPH")})
  /\ proposed.capability \in online

ApplyCandidate ==
  /\ ApplyOpen /\ Room
  /\ \/ graphAt' = graphAt + 1 /\ counters' = Count("commits")
     \/ counters' = Count("rollbacks") /\ UNCHANGED graphAt
  /\ proposed' = NoCandidate
  /\ UNCHANGED <<mind, online, stores, auditLog, switches,
                 captured, repairing>>

CycleOpen == RequirePermitted({ActionType("STRUCTURAL_CYCLE")})

\* run_cycle: the gate, the cycle, and a commit, a rollback or neither.
RunCycle ==
  /\ CycleOpen /\ Room
  /\ \E outcome \in {"none", "commits", "rollbacks"} :
       /\ graphAt' = IF outcome = "commits" THEN graphAt + 1 ELSE graphAt
       /\ counters' = [c \in DOMAIN counters |->
                         counters[c] + (IF c \in {"cycles", outcome} THEN 1 ELSE 0)]
  /\ UNCHANGED <<mind, online, stores, auditLog, switches,
                 proposed, captured, repairing>>

----------------------------------------------------------------------------
(* Snapshots *)

\* What may be found out when a snapshot is restored: the hash of the graph or
\* of the cognitive state is wrong, or the digest of an object.
Checked == {"graph", "mind"} \cup (Stores \cap {"object_store"})

SnapshotRoom ==
  Cardinality(captured) + (IF repairing = NoRepairOpen THEN 0 ELSE 1) < MaxCaptured

\* capture_execution_snapshot holds every part; capture_graph alone only the
\* graph.
CaptureSnapshot(whole) ==
  /\ SnapshotRoom
  /\ captured' = captured \cup {[parts |-> Parts, whole |-> whole, damaged |-> {}]}
  /\ UNCHANGED <<partVars, proposed, repairing>>

\* bound: one part of a snapshot is damaged
DamageSnapshot(snapshot, part) ==
  /\ snapshot.damaged = {}
  /\ captured' = (captured \ {snapshot}) \cup {[snapshot EXCEPT !.damaged = @ \cup {part}]}
  /\ UNCHANGED <<partVars, proposed, repairing>>

Assign(parts) ==
  /\ graphAt' = parts.graph /\ mind' = parts.mind /\ online' = parts.online
  /\ stores' = parts.stores /\ counters' = parts.counters /\ auditLog' = parts.audit
  /\ switches' = parts.switches

\* The parts after a restore of a snapshot whose checks pass: those it holds,
\* and no cognitive state when it holds none.
Restored(snapshot) ==
  IF snapshot.whole THEN snapshot.parts
  ELSE [Parts EXCEPT !.graph = snapshot.parts.graph, !.mind = NoSystemState]

RestoredInPlace(snapshot) ==
  IF "graph" \in snapshot.damaged THEN Parts
  ELSE IF "mind" \in snapshot.damaged THEN [Parts EXCEPT !.graph = snapshot.parts.graph]
  ELSE Restored(snapshot)

\* restore_execution_snapshot builds every part anew, raises on the first that
\* fails its check, and only then replaces any.
AfterRestore(snapshot) ==
  IF snapshot.damaged = {} \/ (~snapshot.whole /\ "graph" \notin snapshot.damaged)
  THEN Restored(snapshot) ELSE Parts

RestoreSnapshot(snapshot) ==
  /\ Assign(AfterRestore(snapshot))
  /\ UNCHANGED <<proposed, captured, repairing>>

----------------------------------------------------------------------------
(* Localized repair *)

\* repair_cognitive_state and execute_localized_repair up to the callbacks.
RepairOpen == mind # NoSystemState /\ RequirePermitted({ActionType("REPAIR_COGNITIVE_STATE")})

BeginRepair ==
  /\ repairing = NoRepairOpen /\ SnapshotRoom /\ RepairOpen
  /\ repairing' = [parts |-> Parts, original |-> mind]
  /\ UNCHANGED <<partVars, proposed, captured>>

\* Every item was recomputed and verified: the repaired state replaces whatever
\* the cognitive state is now.
FinishRepair ==
  /\ repairing # NoRepairOpen /\ repairing.original.version < MaxPart
  /\ mind' = [repairing.original EXCEPT !.version = @ + 1]
  /\ repairing' = NoRepairOpen
  /\ UNCHANGED <<graphAt, online, stores, counters, auditLog, switches,
                 proposed, captured>>

\* A callback raised, or an item failed its verification.
FailRepair ==
  /\ repairing # NoRepairOpen
  /\ Assign(repairing.parts)
  /\ repairing' = NoRepairOpen
  /\ UNCHANGED <<proposed, captured>>

----------------------------------------------------------------------------
SystemNext ==
  \/ \E scope \in SwitchScopes : Switch(scope)
  \/ ChangeMind \/ SelectAction \/ ApplyCandidate \/ RunCycle
  \/ \E s \in Stores : ChangeStore(s)
  \/ \E c \in Caps : \/ ChangeCapability(c)
                     \/ \E skills \in SUBSET Skills : Synthesize(skills, c)
  \/ \E r \in RecordNames : AppendAudit(r)
  \/ \E expired \in SUBSET RecordNames \ {{}} : PurgeAudit(expired)
  \/ \E whole \in BOOLEAN : CaptureSnapshot(whole)
  \/ \E snapshot \in captured : \/ RestoreSnapshot(snapshot)
                                \/ \E part \in Checked : DamageSnapshot(snapshot, part)
  \/ BeginRepair \/ FinishRepair \/ FailRepair

SystemSpec == SystemInit /\ [][SystemNext]_systemVars

----------------------------------------------------------------------------
(* Properties *)

PartsType ==
  [graph : Nat, mind : [tenant : Tenants, version : Nat] \cup {NoSystemState}, online : SUBSET Caps,
   stores : [Stores -> Nat], counters : [{"cycles", "commits", "rollbacks"} -> Nat],
   audit : SUBSET RecordNames, switches : SUBSET SwitchScopes]

SystemTypeOK ==
  /\ Parts \in PartsType
  /\ captured \subseteq [parts : PartsType, whole : BOOLEAN, damaged : SUBSET Checked]
  /\ repairing # NoRepairOpen =>
       repairing \in [parts : PartsType, original : [tenant : Tenants, version : Nat]]

\* No part goes back alone: when the graph, a store or a counter goes back,
\* or a record leaves the log in a step that does not only purge, everything is as it was in
\* one snapshot that was whole and undamaged, or when the repair began; only a
\* snapshot of the graph alone takes the graph back by itself.
GoesBack ==
  \/ graphAt' < graphAt \/ \E s \in Stores : stores'[s] < stores[s]
  \/ \E c \in DOMAIN counters : counters'[c] < counters[c]
  \/ ~(auditLog \subseteq auditLog') /\ Parts' # [Parts EXCEPT !.audit = auditLog']

RestoreWhole ==
  [][GoesBack =>
       \/ \E s \in captured : /\ s.whole /\ s.damaged = {}
                              /\ Parts' = s.parts
       \/ repairing # NoRepairOpen /\ Parts' = repairing.parts
       \/ \E s \in captured : /\ ~s.whole /\ "graph" \notin s.damaged /\ graphAt' = s.parts.graph
                              /\ <<online, stores, counters, auditLog, switches>>' =
                                   <<online, stores, counters, auditLog, switches>>]_systemVars

\* Every piece of work an entry point would do now.
Work ==
  LET forTenant(open) == IF open THEN {{TenantScope(ActiveTenant)}} ELSE {}
  IN  SelectCapability \cup ExecuteNeural \cup VerifyClaim \cup RetrieveMemory \cup DecideInference
      \cup SelectLearned
      \cup forTenant(ControlOpen) \cup forTenant(CycleOpen) \cup forTenant(RepairOpen)
      \cup {{TenantScope(mind.tenant), Capability(x[2])} \cup {SkillScope(s) : s \in x[1]} :
              x \in {x \in (SUBSET Skills) \X Caps : SynthesisOpen(x[1], x[2])}}
      \cup IF ApplyOpen
           THEN {{TenantScope(mind.tenant), Capability(proposed.capability)}
                   \cup {SkillScope(s) : s \in proposed.skills}}
           ELSE {}

\* The global switch and the switch of a tenant stop every entry point, whatever
\* was captured, restored or repaired in between.
SwitchesStopAll ==
  /\ Global \in switches => Work = {}
  /\ \A w \in Work, t \in Tenants : TenantScope(t) \in w => TenantScope(t) \notin switches

\* What goes back goes back whole, and while the global switch or the switch of
\* a tenant is off no entry point works for it.
SystemSafety == []SwitchesStopAll /\ RestoreWhole
============================================================================
