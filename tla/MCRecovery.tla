---------------------------- MODULE MCRecovery ----------------------------
(***************************************************************************)
(* What is captured, restored, recorded and replayed: a work queue that is *)
(* put back to a snapshot, the parts of the integrated system, a recorded  *)
(* branch, and the versions of the knowledge base, each in a small         *)
(* instance: part names the one a behaviour is of, and the others stay as  *)
(* they begin.                                                             *)
(***************************************************************************)
EXTENDS MCWorkQueue, SystemState, RecordedExecution, KnowledgeBase

MCCapModel == [c |-> "m"]
MCSwitchScopes == {Global, TenantScope("t")}

\* RecordedExecution: one effect that is let through and can be undone.
MCEffectKind == [e \in Effects |-> "FILE_WRITE"]
MCReversible == [e \in Effects |-> TRUE]

\* KnowledgeBase: two texts of one plan, of which one breaks an invariant.
MCUpdates == [Slots -> Values]
MCViolating == {h \in Contents : h["plan"] = "bad"}

---------------------------------------------------------------------------

VARIABLE part

RecoveryInit ==
  /\ part \in {"queue", "system", "record", "knowledge"}
  /\ Init /\ SystemInit /\ RecordInit /\ KBInit

RecoveryNext ==
  \/ part = "queue" /\ RestoreNext /\ UNCHANGED <<part, systemVars, recordVars, kbVars>>
  \/ part = "system" /\ SystemNext /\ UNCHANGED <<part, vars, recordVars, kbVars>>
  \/ part = "record" /\ RecordNext /\ UNCHANGED <<part, vars, systemVars, kbVars>>
  \/ part = "knowledge" /\ KBNext /\ UNCHANGED <<part, vars, systemVars, recordVars>>

RecoverySpec ==
  RecoveryInit /\ [][RecoveryNext]_<<part, vars, systemVars, recordVars, kbVars>>
===========================================================================
