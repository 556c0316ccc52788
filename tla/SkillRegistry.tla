--------------------------- MODULE SkillRegistry ---------------------------
(***************************************************************************)
(* dnc.memory.skills: versions of skills climb from DRAFT to ACTIVE on     *)
(* evaluations, are quarantined when something they depend on changes, and *)
(* are rolled back to the parent version their manifest names.             *)
(*                                                                         *)
(* A manifest's fingerprint covers its skill and version, so an evaluation *)
(* is filed under the version.  Manifests are registered as induce_skill() *)
(* makes them: in DRAFT.  A call that raises before it has written         *)
(* anything is a stuttering step.                                          *)
(***************************************************************************)
EXTENDS Naturals

CONSTANTS
  Versions,        \* (skill_id, version) pairs
  Skill, Tenant,   \* Skill[v], Tenant[v]: of v's manifest
  Parent,          \* Parent[v]: the version v names as its parent, of any tenant
  Dependencies,    \* Dependencies[v]: the fingerprints v depends on
  Fingerprints,    \* fingerprints of models, tools and data
  NoParent

\* A manifest names a version of its own skill: the parent is looked up under the
\* child's skill_id.  Whose version that is, or whether it is the child itself,
\* nobody asks.
SkillManifests ==
  /\ Parent \in [Versions -> Versions \cup {NoParent}]
  /\ NoParent \notin Versions
  /\ \A v \in Versions : Parent[v] # NoParent => Skill[Parent[v]] = Skill[v]
  /\ Dependencies \in [Versions -> SUBSET Fingerprints]

ASSUME ManifestAssumption == SkillManifests

VARIABLES
  lifecycle,    \* lifecycle[v]: of the manifest in _versions ("absent": none)
  evaluation,   \* evaluation[v]: in _evaluations
  disabled,     \* _disabled
  drifted,      \* history: versions with a changed dependency since their evaluation
  strayed       \* history: a rollback has put a parent in the place of a version
                \* that was not active or is another tenant's

skillVars == <<lifecycle, evaluation, disabled, drifted, strayed>>

Ladder == <<"DRAFT", "SANDBOXED", "EVALUATED", "SHADOW", "CANARY", "ACTIVE">>
Exits == {"QUARANTINED", "RETIRED", "ROLLED_BACK"}
Lifecycles == {Ladder[i] : i \in 1 .. 6} \cup Exits
SkillNames == {Skill[v] : v \in Versions}
Registered == {v \in Versions : lifecycle[v] # "absent"}

SkillInit ==
  /\ lifecycle = [v \in Versions |-> "absent"]
  /\ evaluation = [v \in Versions |-> "none"]
  /\ disabled = {}
  /\ drifted = {}
  /\ strayed = FALSE

----------------------------------------------------------------------------
RegisterSkill(v) ==
  /\ v \notin Registered
  /\ lifecycle' = [lifecycle EXCEPT ![v] = "DRAFT"]
  /\ UNCHANGED <<evaluation, disabled, drifted, strayed>>

RecordEvaluation(v, verdict) ==
  /\ v \in Registered
  /\ evaluation' = [evaluation EXCEPT ![v] = verdict]
  /\ drifted' = drifted \ {v}
  /\ UNCHANGED <<lifecycle, disabled, strayed>>

Qualified(v) == evaluation[v] = "promotable"

\* The evaluation gates of transition().
GateOpen(v, target) ==
  /\ target = "EVALUATED" => evaluation[v] # "none"
  /\ target \in {"SHADOW", "CANARY", "ACTIVE"} => Qualified(v)

Siblings(v) == {w \in Versions \ {v} : Skill[w] = Skill[v] /\ Tenant[w] = Tenant[v]}

\* One rung; activation rolls back the sibling that was active.
Climb(v, i) ==
  /\ lifecycle[v] = Ladder[i]
  /\ GateOpen(v, Ladder[i + 1])
  /\ lifecycle' = [w \in Versions |->
                     IF w = v THEN Ladder[i + 1]
                     ELSE IF i = 5 /\ w \in Siblings(v) /\ lifecycle[w] = "ACTIVE"
                          THEN "ROLLED_BACK" ELSE lifecycle[w]]
  /\ UNCHANGED <<evaluation, disabled, drifted, strayed>>

\* Every state has these ways out.
Exit(v, target) ==
  /\ v \in Registered
  /\ lifecycle' = [lifecycle EXCEPT ![v] = target]
  /\ UNCHANGED <<evaluation, disabled, drifted, strayed>>

DependsOn(v, changed) == Dependencies[v] \cap changed # {}

\* Mutant: only versions in use are quarantined.
InvalidateActive(changed) ==
  /\ lifecycle' = [v \in Versions |->
                     IF DependsOn(v, changed) /\ lifecycle[v] = "ACTIVE"
                     THEN "QUARANTINED" ELSE lifecycle[v]]
  /\ drifted' = drifted \cup {v \in Registered : DependsOn(v, changed)}
  /\ UNCHANGED <<evaluation, disabled, strayed>>

\* Versions that were superseded or retired are passed over.
Invalidate(changed) ==
  /\ lifecycle' = [v \in Versions |->
                     IF DependsOn(v, changed) /\ lifecycle[v] \notin {"absent", "RETIRED", "ROLLED_BACK"}
                     THEN "QUARANTINED" ELSE lifecycle[v]]
  /\ drifted' = drifted \cup {v \in Registered : DependsOn(v, changed)}
  /\ UNCHANGED <<evaluation, disabled, strayed>>

Restores(v) == Parent[v] \in Registered /\ Qualified(Parent[v])

\* The version is marked first.  When its parent is unknown or not qualified
\* the call then raises, and the mark stays.  What the parent's own state was,
\* whose it is, and who else is active, is not asked.
RollbackSkill(v) ==
  /\ v \in Registered
  /\ lifecycle' = IF Restores(v)
                  THEN [lifecycle EXCEPT ![v] = "ROLLED_BACK", ![Parent[v]] = "ACTIVE"]
                  ELSE [lifecycle EXCEPT ![v] = "ROLLED_BACK"]
  /\ strayed' = (\/ strayed
                 \/ Restores(v) /\ (lifecycle[v] # "ACTIVE" \/ Tenant[Parent[v]] # Tenant[v]))
  /\ UNCHANGED <<evaluation, disabled, drifted>>

\* The kill switch of a skill; it hides the skill from active() and stays.
Disable(s) ==
  /\ \E v \in Registered : Skill[v] = s
  /\ disabled' = disabled \cup {s}
  /\ UNCHANGED <<lifecycle, evaluation, drifted, strayed>>

SkillNext ==
  \/ \E v \in Versions :
       \/ RegisterSkill(v)
       \/ \E verdict \in {"promotable", "poor"} : RecordEvaluation(v, verdict)
       \/ \E i \in 1 .. 5 : Climb(v, i)
       \/ \E target \in Exits : Exit(v, target)
       \/ RollbackSkill(v)
  \/ \E changed \in SUBSET Fingerprints : Invalidate(changed)
  \/ \E s \in SkillNames : Disable(s)

SkillSpec == SkillInit /\ [][SkillNext]_skillVars

----------------------------------------------------------------------------
(* Properties. *)

\* What the variables hold; evaluations and kill switches name what is known.
SkillTypeOK ==
  /\ lifecycle \in [Versions -> Lifecycles \cup {"absent"}]
  /\ evaluation \in [Versions -> {"none", "promotable", "poor"}]
  /\ \A v \in Versions \ Registered : evaluation[v] = "none"
  /\ disabled \subseteq {Skill[v] : v \in Registered}
  /\ drifted \subseteq Registered
  /\ strayed \in BOOLEAN

\* A tenant never has two active versions of a skill, whatever is promoted,
\* quarantined and rolled back in between, until a rollback activates the parent of
\* a version that was not active, or one of another tenant than the version rolled
\* back: rollback() does both and takes no other version down.
OneActive ==
  ~strayed =>
    \A v \in Versions : lifecycle[v] = "ACTIVE" =>
      \A w \in Siblings(v) : lifecycle[w] # "ACTIVE"

\* Nothing becomes active, by promotion or as the target of a rollback, without
\* an evaluation on file that meets the thresholds at that moment.
ActivationQualified ==
  [][ \A v \in Versions :
        lifecycle[v] # "ACTIVE" /\ lifecycle'[v] = "ACTIVE" => Qualified(v) ]_skillVars

\* A version whose dependencies changed after its evaluation is taken out of
\* use at once and comes back in one way only: as the parent of the version
\* rolled back in that very step, which may be the version itself.
DriftReentersByRollback ==
  [][ \A v \in Versions :
        lifecycle'[v] = "ACTIVE" /\ v \in drifted' =>
          \/ lifecycle[v] = "ACTIVE" /\ v \in drifted
          \/ \E child \in Versions :
               /\ Parent[child] = v
               /\ child = v \/ lifecycle'[child] = "ROLLED_BACK" ]_skillVars

\* What the documentation says: drift quarantines affected skills, and rollback
\* restores only a qualified parent.
DriftNeverActive == \A v \in drifted : lifecycle[v] # "ACTIVE"

----------------------------------------------------------------------------
(* The inductive strengthening. *)

\* Whatever drifted has left the ladder, unless a rollback put it back on top.
DriftedOffLadder == \A v \in drifted : lifecycle[v] \in Exits \cup {"ACTIVE"}

SkillInv == SkillTypeOK /\ OneActive /\ DriftedOffLadder

\* Of the versions of a skill, whatever drifts, is re-evaluated and rolled back
\* in any order: none becomes active unqualified, a drifted one comes back through a
\* rollback only, and a tenant has one active at a time until a rollback activates
\* what OneActive excepts (SkillRegistry).
SkillSafety ==
  []SkillTypeOK /\ []OneActive /\ ActivationQualified /\ DriftReentersByRollback
============================================================================
