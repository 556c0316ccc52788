------------------------- MODULE GovernanceProofs --------------------------
(***************************************************************************)
(* Proofs about what is trusted, promoted and withdrawn: pilots, skills,   *)
(* calibrated confidence, outcome labels, the fit and the metrics of their *)
(* calibration, and learned policies, each for every value of its          *)
(* constants.                                                              *)
(***************************************************************************)
EXTENDS LearnedPolicies, Assurance, VerifierCascade, Outcomes, PilotProgram,
        SkillRegistry, FiniteSetTheorems, SequenceTheorems, TLAPS

----------------------------------------------------------------------------
(* PilotProgram *)

\* The first state: no evidence, no approvals, nothing beyond offline replay.
LEMMA PilotInitial == PilotInit => PilotInv
  BY NoApprovalAssumption
  DEF PilotInit, PilotInv, PilotTypeOK, Stages, Evidence, EvidenceType, Results, NoApprovals, Approval,
      ApprovalsCurrent, IndependentApprovers, CanaryEarned, AvailabilityMeasured

\* Clearing the approvals leaves nothing stale and nobody with two roles.
LEMMA ClearedApprovals ==
  ASSUME approvals' = NoApprovals
  PROVE  /\ approvals' \in [Roles -> Approval \cup {NoApproval}]
         /\ ApprovalsCurrent'
         /\ IndependentApprovers'
  BY DEF NoApprovals, ApprovalsCurrent, IndependentApprovers

\* An observation of the active stage adds nothing to the stages passed.
LEMMA OutcomePreserves ==
  ASSUME PilotInv, NEW o \in Observations, RecordOutcome(o)
  PROVE  PilotInv'
<1>1. PilotTypeOK'
  BY ClearedApprovals DEF PilotInv, PilotTypeOK, RecordOutcome, Evidence, EvidenceType
<1>2. CanaryEarned'
  BY DEF PilotInv, CanaryEarned, RecordOutcome, InStage
<1>3. ASSUME stage' = "general_availability" PROVE External' = External
  BY <1>3 DEF RecordOutcome, External, InStage
<1>4. AvailabilityMeasured'
  BY <1>3 DEF PilotInv, AvailabilityMeasured, RecordOutcome
<1> QED BY <1>1, <1>2, <1>4, ClearedApprovals DEF PilotInv, RecordOutcome

\* Exercises and readiness packages leave stage and observations alone.
LEMMA PreparationPreserves ==
  ASSUME PilotInv,
         \/ \E k \in Kinds, result \in {"passed", "failed"} : RecordExercise(k, result)
         \/ \E package \in Packages : SetOperationalReadiness(package)
  PROVE  PilotInv'
<1>1. UNCHANGED <<stage, observations>> /\ approvals' = NoApprovals
  BY DEF RecordExercise, SetOperationalReadiness
<1>2. Evidence' \in EvidenceType
  BY DEF PilotInv, PilotTypeOK, Evidence, EvidenceType, Results, RecordExercise, SetOperationalReadiness
<1>3. PilotTypeOK'
  BY <1>1, <1>2, ClearedApprovals DEF PilotInv, PilotTypeOK
<1>4. External' = External /\ CanaryEarned'
  BY <1>1 DEF PilotInv, CanaryEarned, External, InStage
<1> QED BY <1>1, <1>3, <1>4, ClearedApprovals DEF PilotInv, AvailabilityMeasured

\* Promotion reaches the canary on shadow evidence none of which failed, and
\* never general availability.
LEMMA PromotePreserves ==
  ASSUME PilotInv, Promote
  PROVE  PilotInv'
<1>1. stage \in {"offline_replay", "shadow"}
  BY DEF Promote, Following
<1>2. stage' \in {"shadow", "limited_canary"}
      /\ (stage' = "limited_canary" => stage = "shadow")
  BY <1>1 DEF Promote, Following
<1>3. PilotTypeOK'
  BY <1>2, ClearedApprovals DEF PilotInv, PilotTypeOK, Stages, Evidence, Promote
<1>4. CanaryEarned'
  BY <1>2 DEF CanaryEarned, Promote, InStage
<1> QED BY <1>2, <1>3, <1>4, ClearedApprovals DEF PilotInv, AvailabilityMeasured, Promote

\* Rolling a pilot back takes it to a stage it had and clears what was approved.
LEMMA RollbackPreserves ==
  ASSUME PilotInv, RollbackPilot
  PROVE  PilotInv'
<1>1. PilotTypeOK'
  BY ClearedApprovals DEF PilotInv, PilotTypeOK, Stages, Evidence, RollbackPilot
<1> QED
  BY <1>1, ClearedApprovals DEF PilotInv, CanaryEarned, AvailabilityMeasured, RollbackPilot

\* Only an approval of someone with no other role enters the file.
LEMMA ApprovePreserves ==
  ASSUME PilotInv, NEW role \in Roles, NEW person \in People, NEW verdict \in BOOLEAN,
         Approve(role, person, verdict)
  PROVE  PilotInv'
<1> DEFINE a == [approver |-> person, evidence |-> Evidence, approved |-> verdict]
<1>1. a \in Approval /\ a.approver = person /\ a.evidence = Evidence
  BY DEF PilotInv, PilotTypeOK, Approval
<1>2. approvals' = [approvals EXCEPT ![role] = a] /\ UNCHANGED <<stage, observations, exercises, readiness>>
  BY DEF Approve
<1>3. Evidence' = Evidence
  BY <1>2 DEF Evidence
<1> HIDE DEF a
<1>4. approvals \in [Roles -> Approval \cup {NoApproval}]
  BY DEF PilotInv, PilotTypeOK
<1>5. PilotTypeOK'
  BY <1>1, <1>2, <1>3, <1>4 DEF PilotInv, PilotTypeOK
<1>6. ApprovalsCurrent'
  BY <1>1, <1>2, <1>3, <1>4 DEF PilotInv, ApprovalsCurrent
<1>7. IndependentApprovers'
  BY <1>1, <1>2, <1>4 DEF PilotInv, IndependentApprovers, Approve
<1>8. CanaryEarned' /\ AvailabilityMeasured'
  BY <1>2 DEF PilotInv, CanaryEarned, AvailabilityMeasured, External, InStage
<1> QED BY <1>5, <1>6, <1>7, <1>8 DEF PilotInv

\* The review looks at a canary, or at what already is generally available.
LEMMA ReviewPreserves ==
  ASSUME PilotInv, ReviewGeneralAvailability
  PROVE  PilotInv'
<1>1. /\ stage' = "general_availability"
      /\ UNCHANGED <<observations, exercises, readiness, approvals>>
      /\ stage \in {"limited_canary", "general_availability"}
      /\ MeetsCriteria(External)
  BY DEF ReviewGeneralAvailability, EvidenceComplete
<1>2. External' = External /\ Evidence' = Evidence
  BY <1>1 DEF External, InStage, Evidence
<1>3. PilotTypeOK' /\ ApprovalsCurrent' /\ IndependentApprovers'
  BY <1>1, <1>2 DEF PilotInv, PilotTypeOK, Stages, ApprovalsCurrent, IndependentApprovers
<1>4. CanaryEarned' /\ AvailabilityMeasured'
  BY <1>1, <1>2 DEF PilotInv, CanaryEarned, AvailabilityMeasured, InStage
<1> QED BY <1>3, <1>4 DEF PilotInv

\* Every step of a pilot.
LEMMA PilotStep == PilotInv /\ [PilotNext]_pilotVars => PilotInv'
<1> SUFFICES ASSUME PilotInv, [PilotNext]_pilotVars PROVE PilotInv'
  OBVIOUS
<1>1. CASE PilotNext
  BY <1>1, OutcomePreserves, PreparationPreserves, PromotePreserves, RollbackPreserves,
     ApprovePreserves, ReviewPreserves DEF PilotNext
<1>2. CASE UNCHANGED pilotVars
  BY <1>2 DEF pilotVars, PilotInv, PilotTypeOK, Evidence, ApprovalsCurrent, IndependentApprovers,
     CanaryEarned, AvailabilityMeasured, External, InStage
<1> QED BY <1>1, <1>2

\* The state of a pilot is well formed, approvals are current and independent,
\* the canary is earned and general availability measured, in every state.
THEOREM PilotInvariance == PilotSpec => []PilotInv
<1>1. PilotInv /\ [PilotNext]_pilotVars => PilotInv'
  BY PilotStep
<1> QED BY PilotInitial, <1>1, PTL DEF PilotSpec

\* Approvals never outlive the evidence they were given for.
THEOREM ApprovalsStayCurrent == PilotSpec => []ApprovalsCurrent
<1>1. PilotInv => ApprovalsCurrent
  BY DEF PilotInv
<1> QED BY PilotInvariance, <1>1, PTL

\* Nothing is in canary or beyond without shadow evidence, all of it successful.
THEOREM CanaryStaysEarned == PilotSpec => []CanaryEarned
<1>1. PilotInv => CanaryEarned
  BY DEF PilotInv
<1> QED BY PilotInvariance, <1>1, PTL

\* With finitely many roles, general availability is entered on signatures of
\* that many different people, all for the evidence reviewed.
THEOREM AvailabilityIsSigned ==
  ASSUME IsFiniteSet(Roles)
  PROVE  PilotSpec => AvailabilitySigned
<1>1. PilotInv /\ [PilotNext]_pilotVars =>
        [ stage # "general_availability" /\ stage' = "general_availability" =>
            /\ stage = "limited_canary"
            /\ Cardinality({approvals[r].approver : r \in Roles}) = Cardinality(Roles)
            /\ \A r \in Roles : approvals[r].approved /\ approvals[r].evidence = Evidence' ]_pilotVars
  <2> SUFFICES ASSUME PilotInv, PilotNext, stage # "general_availability",
                      stage' = "general_availability"
               PROVE  /\ stage = "limited_canary"
                      /\ Cardinality({approvals[r].approver : r \in Roles}) = Cardinality(Roles)
                      /\ \A r \in Roles : approvals[r].approved /\ approvals[r].evidence = Evidence'
    BY DEF pilotVars
  <2>1. ReviewGeneralAvailability
    BY DEF PilotNext, RecordOutcome, RecordExercise, SetOperationalReadiness, Promote, Following,
       RollbackPilot, Approve
  <2>2. Evidence' = Evidence
    BY <2>1 DEF ReviewGeneralAvailability, Evidence
  <2>3. \A r \in Roles : SignedOff(r)
    BY <2>1 DEF ReviewGeneralAvailability
  <2> DEFINE f == [r \in Roles |-> approvals[r].approver]
             T == {approvals[r].approver : r \in Roles}
  <2>4. f \in Bijection(Roles, T)
    <3>1. \A r, s \in Roles : approvals[r].approver = approvals[s].approver => r = s
      BY <2>3 DEF PilotInv, IndependentApprovers, SignedOff
    <3> QED BY <3>1 DEF Bijection, Injection, Surjection, IsInjective
  <2>5. Cardinality(T) = Cardinality(Roles)
    <3>1. ExistsBijection(Roles, T)
      BY <2>4 DEF ExistsBijection
    <3> QED BY <3>1, FS_Bijection
  <2>6. stage = "limited_canary"
    BY <2>1 DEF ReviewGeneralAvailability, EvidenceComplete
  <2> QED BY <2>2, <2>3, <2>5, <2>6 DEF SignedOff
<1> QED BY PilotInvariance, <1>1, PTL DEF PilotSpec, AvailabilitySigned

\* Everything the runs check of the pilot at once: the state of every stage, and
\* the step into general availability.
THEOREM PilotIsSafe ==
  ASSUME IsFiniteSet(Roles)
  PROVE  PilotSpec => PilotSafety
<1>1. PilotInv => PilotTypeOK /\ ApprovalsCurrent /\ CanaryEarned /\ AvailabilityMeasured
  BY DEF PilotInv
<1> QED BY PilotInvariance, AvailabilityIsSigned, <1>1, PTL DEF PilotSafety

----------------------------------------------------------------------------
(* SkillRegistry *)

\* A parent is a version of the same skill, or there is none.
LEMMA Parents ==
  /\ NoParent \notin Versions
  /\ \A v \in Versions :
       /\ Parent[v] \in Versions \cup {NoParent}
       /\ Parent[v] \in Versions => Skill[Parent[v]] = Skill[v]
  BY ManifestAssumption DEF SkillManifests

\* The ladder, rung by rung.
LEMMA LadderRungs ==
  /\ Ladder[1] = "DRAFT" /\ Ladder[2] = "SANDBOXED" /\ Ladder[3] = "EVALUATED"
  /\ Ladder[4] = "SHADOW" /\ Ladder[5] = "CANARY" /\ Ladder[6] = "ACTIVE"
  BY DEF Ladder

\* The life cycle has these states.
LEMMA LifecycleNames ==
  Lifecycles = {"DRAFT", "SANDBOXED", "EVALUATED", "SHADOW", "CANARY", "ACTIVE",
                "QUARANTINED", "RETIRED", "ROLLED_BACK"}
  BY LadderRungs DEF Lifecycles, Exits

\* An empty registry.
LEMMA SkillInitial == SkillInit => SkillInv
  BY DEF SkillInit, SkillInv, SkillTypeOK, OneActive, DriftedOffLadder, Registered

\* A climb puts at most one version on top, and takes its siblings down.
LEMMA ClimbPreserves ==
  ASSUME SkillInv, NEW v \in Versions, NEW i \in 1 .. 5, Climb(v, i)
  PROVE  SkillInv'
<1>1. /\ Ladder[i] \in Lifecycles \ Exits /\ Ladder[i] # "ACTIVE"
      /\ Ladder[i + 1] \in Lifecycles /\ (Ladder[i + 1] = "ACTIVE" <=> i = 5)
  BY LadderRungs, LifecycleNames DEF Exits
<1>2. /\ lifecycle' \in [Versions -> Lifecycles \cup {"absent"}]
      /\ \A w \in Versions : lifecycle'[w] = "absent" <=> lifecycle[w] = "absent"
      /\ UNCHANGED <<evaluation, disabled, drifted, strayed>>
  BY <1>1, LifecycleNames DEF SkillInv, SkillTypeOK, Climb
<1>3. Registered' = Registered
  BY <1>2 DEF Registered
<1>4. SkillTypeOK'
  BY <1>2, <1>3 DEF SkillInv, SkillTypeOK
<1>5. v \notin drifted
  BY <1>1 DEF SkillInv, DriftedOffLadder, Climb
<1>6. DriftedOffLadder'
  BY <1>2, <1>5 DEF SkillInv, SkillTypeOK, Registered, DriftedOffLadder, Climb, Exits
<1>7. OneActive'
  <2> SUFFICES ASSUME ~strayed, NEW x \in Versions, NEW y \in Siblings(x),
                      lifecycle'[x] = "ACTIVE", lifecycle'[y] = "ACTIVE"
               PROVE  FALSE
    BY <1>2 DEF OneActive, Siblings
  <2>1. y \in Versions /\ x \in Siblings(y) /\ x # y
    BY DEF Siblings
  <2>2. CASE x # v /\ y # v
    BY <1>2, <2>1, <2>2 DEF SkillInv, OneActive, Climb
  <2>3. CASE x = v \/ y = v
    BY <1>1, <1>2, <2>1, <2>3 DEF Climb
  <2> QED BY <2>2, <2>3
<1> QED BY <1>4, <1>6, <1>7 DEF SkillInv

\* Steps that leave every version where it is, or take some out of use.
LEMMA WithdrawalPreserves ==
  ASSUME SkillInv,
         UNCHANGED <<evaluation, disabled, strayed>>,
         lifecycle' \in [Versions -> Lifecycles \cup {"absent"}],
         \A v \in Versions : lifecycle'[v] = "absent" <=> lifecycle[v] = "absent",
         \A v \in Versions : lifecycle'[v] \in Exits \cup {lifecycle[v]},
         drifted' \subseteq Registered,
         \A v \in drifted' \ drifted : lifecycle'[v] \in Exits
  PROVE  SkillInv'
<1>1. Registered' = Registered
  BY DEF Registered
<1>2. SkillTypeOK'
  BY <1>1 DEF SkillInv, SkillTypeOK
<1>3. OneActive'
  BY DEF SkillInv, OneActive, Siblings, Exits
<1>4. DriftedOffLadder'
  BY DEF SkillInv, SkillTypeOK, Registered, DriftedOffLadder
<1> QED BY <1>2, <1>3, <1>4 DEF SkillInv

\* A skill that leaves the life cycle early.
LEMMA ExitPreserves ==
  ASSUME SkillInv, NEW v \in Versions, NEW target \in Exits, Exit(v, target)
  PROVE  SkillInv'
<1>1. lifecycle' = [lifecycle EXCEPT ![v] = target] /\ v \in Registered
      /\ UNCHANGED <<evaluation, disabled, drifted, strayed>>
  BY DEF Exit
<1>2. lifecycle \in [Versions -> Lifecycles \cup {"absent"}] /\ drifted \subseteq Registered
  BY DEF SkillInv, SkillTypeOK
<1>3. target \in Lifecycles /\ target # "absent"
  BY LifecycleNames DEF Exits
<1> QED BY <1>1, <1>2, <1>3, WithdrawalPreserves DEF Registered

\* Invalidation of a skill.
LEMMA InvalidatePreserves ==
  ASSUME SkillInv, NEW changed \in SUBSET Fingerprints, Invalidate(changed)
  PROVE  SkillInv'
<1>1. lifecycle \in [Versions -> Lifecycles \cup {"absent"}] /\ drifted \subseteq Registered
  BY DEF SkillInv, SkillTypeOK
<1>2. /\ lifecycle' \in [Versions -> Lifecycles \cup {"absent"}]
      /\ \A v \in Versions : lifecycle'[v] = "absent" <=> lifecycle[v] = "absent"
      /\ \A v \in Versions : lifecycle'[v] \in Exits \cup {lifecycle[v]}
  BY <1>1, LifecycleNames DEF Invalidate, Exits
<1>3. \A v \in drifted' \ drifted : lifecycle'[v] \in Exits
  BY <1>1 DEF Invalidate, Registered, Exits
<1> QED BY <1>1, <1>2, <1>3, WithdrawalPreserves DEF Invalidate, Registered

\* The parent comes to the top; if it was the active version that went down, and
\* both are of one tenant, it is alone there, since whoever else is active has the
\* same siblings.
LEMMA SkillRollbackPreserves ==
  ASSUME SkillInv, NEW v \in Versions, RollbackSkill(v)
  PROVE  SkillInv'
<1>1. lifecycle \in [Versions -> Lifecycles \cup {"absent"}] /\ v \in Registered
  BY DEF SkillInv, SkillTypeOK, RollbackSkill
<1>2. /\ lifecycle' \in [Versions -> Lifecycles \cup {"absent"}]
      /\ \A w \in Versions : lifecycle'[w] = "absent" <=> lifecycle[w] = "absent"
      /\ UNCHANGED <<evaluation, disabled, drifted>>
  BY <1>1, LifecycleNames DEF RollbackSkill, Restores, Registered
<1>3. Registered' = Registered
  BY <1>2 DEF Registered
<1>4. SkillTypeOK'
  BY <1>2, <1>3 DEF SkillInv, SkillTypeOK, RollbackSkill
<1>5. \A w \in Versions :
        \/ lifecycle'[w] = lifecycle[w] /\ w # v
        \/ w = v /\ lifecycle'[w] = "ROLLED_BACK"
        \/ w = Parent[v] /\ lifecycle'[w] = "ACTIVE" /\ Restores(v)
  BY <1>1, Parents DEF RollbackSkill, Registered
<1>6. DriftedOffLadder'
  BY <1>2, <1>5 DEF SkillInv, SkillTypeOK, Registered, DriftedOffLadder, Exits
<1>7. OneActive'
  <2> SUFFICES ASSUME ~strayed', NEW x \in Versions, NEW y \in Siblings(x),
                      lifecycle'[x] = "ACTIVE", lifecycle'[y] = "ACTIVE"
               PROVE  FALSE
    BY DEF OneActive, Siblings
  <2>1. ~strayed /\ (Restores(v) => lifecycle[v] = "ACTIVE" /\ Tenant[Parent[v]] = Tenant[v])
    BY DEF RollbackSkill, SkillInv, SkillTypeOK
  <2>2. y \in Versions /\ x # y /\ Skill[y] = Skill[x] /\ Tenant[y] = Tenant[x]
    BY DEF Siblings
  <2>3. \A z \in Versions : Restores(v) /\ z # v /\ Skill[z] = Skill[v] /\ Tenant[z] = Tenant[v]
                            => lifecycle[z] # "ACTIVE"
    BY <2>1 DEF SkillInv, OneActive, Siblings
  <2>4. CASE x # Parent[v] /\ y # Parent[v]
    BY <1>5, <2>1, <2>2, <2>4 DEF SkillInv, OneActive
  <2>5. CASE x = Parent[v] \/ y = Parent[v]
    <3>1. PICK z \in {x, y} : z # Parent[v]
      BY <2>2
    <3>2. lifecycle[z] = "ACTIVE" /\ z # v
      BY <1>5, <2>2, <3>1
    <3>3. Restores(v)
      <4>1. CASE Parent[v] # v
        <5>1. PICK w \in Versions : w = Parent[v] /\ lifecycle'[w] = "ACTIVE"
          BY <2>2, <2>5
        <5>2. lifecycle[w] # "ACTIVE" \/ Restores(v)
          BY <1>5, <2>1, <2>2, <2>5, <3>1, <3>2, <5>1 DEF SkillInv, OneActive, Siblings
        <5> QED BY <1>5, <4>1, <5>1, <5>2
      <4>2. CASE Parent[v] = v
        BY <1>5, <2>2, <2>5, <4>2
      <4> QED BY <4>1, <4>2
    <3>4. Skill[z] = Skill[v] /\ Tenant[z] = Tenant[v]
      BY <2>1, <2>2, <2>5, <3>1, <3>3, Parents
    <3> QED BY <2>2, <2>3, <3>2, <3>3, <3>4
  <2> QED BY <2>4, <2>5
<1> QED BY <1>4, <1>6, <1>7 DEF SkillInv

\* Registration, evaluation and the kill switch put nothing on top.
LEMMA FilingPreserves ==
  ASSUME SkillInv,
         \/ \E v \in Versions : RegisterSkill(v)
         \/ \E v \in Versions, verdict \in {"promotable", "poor"} : RecordEvaluation(v, verdict)
         \/ \E s \in SkillNames : Disable(s)
  PROVE  SkillInv'
<1>1. ASSUME NEW v \in Versions, RegisterSkill(v) PROVE SkillInv'
  <2>1. lifecycle' = [lifecycle EXCEPT ![v] = "DRAFT"] /\ v \notin Registered
        /\ UNCHANGED <<evaluation, disabled, drifted, strayed>>
    BY <1>1 DEF RegisterSkill
  <2>2. lifecycle \in [Versions -> Lifecycles \cup {"absent"}]
    BY DEF SkillInv, SkillTypeOK
  <2>3. Registered \subseteq Registered'
    BY <2>1, <2>2 DEF Registered
  <2>4. SkillTypeOK'
    BY <2>1, <2>2, <2>3, LifecycleNames DEF SkillInv, SkillTypeOK
  <2>5. OneActive' /\ DriftedOffLadder'
    BY <2>1, <2>2 DEF SkillInv, SkillTypeOK, Registered, OneActive, DriftedOffLadder, Siblings
  <2> QED BY <2>4, <2>5 DEF SkillInv
<1>2. ASSUME NEW v \in Versions, NEW verdict \in {"promotable", "poor"},
             RecordEvaluation(v, verdict)
      PROVE  SkillInv'
  BY <1>2 DEF SkillInv, SkillTypeOK, OneActive, DriftedOffLadder, Registered, RecordEvaluation, Siblings
<1>3. ASSUME NEW s \in SkillNames, Disable(s) PROVE SkillInv'
  BY <1>3 DEF SkillInv, SkillTypeOK, OneActive, DriftedOffLadder, Registered, Disable, Siblings
<1> QED BY <1>1, <1>2, <1>3

\* Every step of the registry.
LEMMA SkillStep == SkillInv /\ [SkillNext]_skillVars => SkillInv'
<1> SUFFICES ASSUME SkillInv, [SkillNext]_skillVars PROVE SkillInv'
  OBVIOUS
<1>1. CASE SkillNext
  BY <1>1, FilingPreserves, ClimbPreserves, ExitPreserves, SkillRollbackPreserves, InvalidatePreserves
  DEF SkillNext
<1>2. CASE UNCHANGED skillVars
  BY <1>2 DEF skillVars, SkillInv, SkillTypeOK, OneActive, DriftedOffLadder, Registered, Siblings
<1> QED BY <1>1, <1>2

\* The registry is well formed, and what drifted is off the ladder.
THEOREM SkillInvariance == SkillSpec => []SkillInv
  BY SkillInitial, SkillStep, PTL DEF SkillSpec

\* A tenant has at most one active version of a skill until a rollback activates
\* the parent of a version that was not active, or one of another tenant.
THEOREM OneActiveVersion == SkillSpec => []OneActive
<1>1. SkillInv => OneActive
  BY DEF SkillInv
<1> QED BY SkillInvariance, <1>1, PTL

\* Promotion and rollback alike activate qualified versions only.
THEOREM ActivationsAreQualified == SkillSpec => ActivationQualified
<1>1. SkillInv /\ [SkillNext]_skillVars =>
        [ \A v \in Versions :
            lifecycle[v] # "ACTIVE" /\ lifecycle'[v] = "ACTIVE" => Qualified(v) ]_skillVars
  <2> SUFFICES ASSUME SkillInv, SkillNext, NEW v \in Versions,
                      lifecycle[v] # "ACTIVE", lifecycle'[v] = "ACTIVE"
               PROVE  Qualified(v)
    BY DEF skillVars
  <2>1. lifecycle \in [Versions -> Lifecycles \cup {"absent"}]
    BY DEF SkillInv, SkillTypeOK
  <2>2. ASSUME NEW w \in Versions, NEW i \in 1 .. 5, Climb(w, i) PROVE Qualified(v)
    <3>1. v = w /\ Ladder[i + 1] = "ACTIVE"
      BY <2>1, <2>2 DEF Climb
    <3> QED BY <2>2, <3>1 DEF Climb, GateOpen
  <2>3. ASSUME NEW w \in Versions, RollbackSkill(w) PROVE Qualified(v)
    BY <2>1, <2>3 DEF RollbackSkill, Restores
  <2>4. ASSUME NEW w \in Versions, NEW target \in Exits, Exit(w, target) PROVE FALSE
    BY <2>1, <2>4 DEF Exit, Exits
  <2>5. ASSUME NEW changed \in SUBSET Fingerprints, Invalidate(changed) PROVE FALSE
    BY <2>1, <2>5 DEF Invalidate
  <2>6. ASSUME \/ \E w \in Versions : RegisterSkill(w)
               \/ \E w \in Versions, verdict \in {"promotable", "poor"} : RecordEvaluation(w, verdict)
               \/ \E s \in SkillNames : Disable(s)
        PROVE  FALSE
    BY <2>1, <2>6 DEF RegisterSkill, RecordEvaluation, Disable
  <2> QED BY <2>2, <2>3, <2>4, <2>5, <2>6 DEF SkillNext
<1> QED BY SkillInvariance, <1>1, PTL DEF SkillSpec, ActivationQualified

\* Drift comes back into use through the rollback of a version that names it as
\* its parent, and not otherwise.
THEOREM DriftReentersOnlyByRollback == SkillSpec => DriftReentersByRollback
<1>1. SkillInv /\ [SkillNext]_skillVars =>
        [ \A v \in Versions :
            lifecycle'[v] = "ACTIVE" /\ v \in drifted' =>
              \/ lifecycle[v] = "ACTIVE" /\ v \in drifted
              \/ \E child \in Versions :
                   /\ Parent[child] = v
                   /\ child = v \/ lifecycle'[child] = "ROLLED_BACK" ]_skillVars
  <2> DEFINE Reenters(v) ==
        \/ lifecycle[v] = "ACTIVE" /\ v \in drifted
        \/ \E child \in Versions :
             /\ Parent[child] = v
             /\ child = v \/ lifecycle'[child] = "ROLLED_BACK"
  <2> SUFFICES ASSUME SkillInv, SkillNext, NEW v \in Versions,
                      lifecycle'[v] = "ACTIVE", v \in drifted'
               PROVE  Reenters(v)
    BY DEF skillVars
  <2>1. lifecycle \in [Versions -> Lifecycles \cup {"absent"}]
    BY DEF SkillInv, SkillTypeOK
  <2>2. ASSUME NEW w \in Versions, NEW i \in 1 .. 5, Climb(w, i) PROVE Reenters(v)
    <3>1. w \notin drifted
      <4>1. lifecycle[w] \notin Exits \cup {"ACTIVE"}
        BY <2>2, LadderRungs DEF Climb, Exits
      <4> QED BY <4>1 DEF SkillInv, DriftedOffLadder
    <3>2. v # w
      BY <2>2, <3>1 DEF Climb
    <3> QED BY <2>1, <2>2, <3>2 DEF Climb
  <2>3. ASSUME NEW w \in Versions, RollbackSkill(w) PROVE Reenters(v)
    <3>1. CASE v = Parent[w]
      BY <2>1, <2>3, <3>1 DEF RollbackSkill
    <3>2. CASE v # Parent[w]
      BY <2>1, <2>3, <3>2 DEF RollbackSkill
    <3> QED BY <3>1, <3>2
  <2>4. ASSUME NEW w \in Versions, NEW target \in Exits, Exit(w, target) PROVE Reenters(v)
    BY <2>1, <2>4 DEF Exit, Exits
  <2>5. ASSUME NEW changed \in SUBSET Fingerprints, Invalidate(changed) PROVE Reenters(v)
    BY <2>1, <2>5 DEF Invalidate
  <2>6. ASSUME \/ \E w \in Versions : RegisterSkill(w)
               \/ \E w \in Versions, verdict \in {"promotable", "poor"} : RecordEvaluation(w, verdict)
               \/ \E s \in SkillNames : Disable(s)
        PROVE  Reenters(v)
    BY <2>1, <2>6 DEF RegisterSkill, RecordEvaluation, Disable
  <2> QED BY <2>2, <2>3, <2>4, <2>5, <2>6 DEF SkillNext
<1> QED BY SkillInvariance, <1>1, PTL DEF SkillSpec, DriftReentersByRollback

\* Everything the runs check of the registry at once: its states, and the steps
\* that make a version active.
THEOREM SkillsAreSafe == SkillSpec => SkillSafety
<1>1. SkillInv => SkillTypeOK /\ OneActive
  BY DEF SkillInv
<1> QED
  BY SkillInvariance, ActivationsAreQualified, DriftReentersOnlyByRollback, <1>1, PTL DEF SkillSafety

----------------------------------------------------------------------------
(* Outcomes *)

\* No label has arrived.
LEMMA LabelsInitial == LabelsInit => LabelsInv
  BY DEF LabelsInit, LabelsInv, LabelsTypeOK, FiledOnce, SupersedesEarlier, Stored

\* A label that is new goes to the end of the history of its target, behind the
\* one it supersedes.
LEMMA IngestKeeps ==
  ASSUME LabelsInv, NEW id \in LabelIds, NEW text \in LabelTexts, Ingest(id, text)
  PROVE  LabelsInv'
<1> DEFINE t == text.target
           end == Len(arrived[t]) + 1
<1>1. /\ Stored \subseteq LabelIds /\ labels \in [Stored -> LabelTexts]
      /\ arrived \in [Targets -> Seq(LabelIds)]
  BY DEF LabelsInv, LabelsTypeOK
<1>2. t \in Targets /\ id \notin Stored
  BY DEF Targets, Ingest
<1>3. /\ Stored' = Stored \cup {id} /\ labels' \in [Stored' -> LabelTexts]
      /\ labels'[id] = text /\ \A i \in Stored : labels'[i] = labels[i]
  BY <1>1, <1>2 DEF Ingest, Stored
<1>4. arrived' = [arrived EXCEPT ![t] = Append(@, id)]
  BY DEF Ingest
<1>5. /\ arrived[t] \in Seq(LabelIds) /\ arrived' \in [Targets -> Seq(LabelIds)]
      /\ \A u \in Targets \ {t} : arrived'[u] = arrived[u]
      /\ arrived'[t] = Append(arrived[t], id)
  BY <1>1, <1>2, <1>4
<1> HIDE DEF t
<1>6. /\ end \in DOMAIN arrived'[t] /\ arrived'[t][end] = id
      /\ \A n \in DOMAIN arrived[t] : n \in DOMAIN arrived'[t] /\ n < end /\ arrived'[t][n] = arrived[t][n]
      /\ \A n \in DOMAIN arrived'[t] : n = end \/ n \in DOMAIN arrived[t]
  BY <1>5
<1> HIDE DEF end
<1>7. LabelsTypeOK'
  BY <1>1, <1>3, <1>5 DEF LabelsTypeOK
<1>8. \A u \in Targets : \A n \in DOMAIN arrived[u] :
         /\ n \in DOMAIN arrived'[u] /\ arrived'[u][n] = arrived[u][n]
         /\ arrived[u][n] \in Stored /\ labels[arrived[u][n]].target = u
  BY <1>5, <1>6 DEF LabelsInv, FiledOnce
<1>9. \A i \in Stored : labels[i].target \in Targets
  BY <1>1 DEF Targets
<1>10. FiledOnce'
  <2>1. ASSUME NEW u \in Targets, NEW n \in DOMAIN arrived'[u]
        PROVE  arrived'[u][n] \in Stored' /\ labels'[arrived'[u][n]].target = u
    <3>1. CASE u = t /\ n = end
      BY <1>3, <1>6, <3>1 DEF t
    <3>2. CASE n \in DOMAIN arrived[u]
      BY <1>3, <1>8, <3>2
    <3> QED BY <1>5, <1>6, <2>1, <3>1, <3>2
  <2>2. ASSUME NEW u \in Targets, NEW m \in DOMAIN arrived'[u], NEW n \in DOMAIN arrived'[u],
               arrived'[u][m] = arrived'[u][n]
        PROVE  m = n
    <3>1. CASE m \in DOMAIN arrived[u] /\ n \in DOMAIN arrived[u]
      BY <1>8, <2>2, <3>1 DEF LabelsInv, FiledOnce
    <3>2. CASE u = t /\ (m = end \/ n = end)
      BY <1>2, <1>6, <1>8, <2>2, <3>2
    <3> QED BY <1>5, <1>6, <2>2, <3>1, <3>2
  <2>3. ASSUME NEW i \in Stored'
        PROVE  \E n \in DOMAIN arrived'[labels'[i].target] : arrived'[labels'[i].target][n] = i
    <3>1. CASE i = id
      BY <1>3, <1>6, <3>1 DEF t
    <3>2. CASE i \in Stored
      BY <1>3, <1>8, <1>9, <3>2 DEF LabelsInv, FiledOnce
    <3> QED BY <1>3, <3>1, <3>2
  <2> QED BY <2>1, <2>2, <2>3 DEF FiledOnce
<1>11. SupersedesEarlier'
  <2> SUFFICES ASSUME NEW i \in Stored', labels'[i].supersedes # NoLabel
               PROVE  /\ labels'[i].supersedes \in Stored'
                      /\ labels'[labels'[i].supersedes].target = labels'[i].target
                      /\ labels'[labels'[i].supersedes].at <= labels'[i].at
                      /\ \E m, n \in DOMAIN arrived'[labels'[i].target] :
                           /\ m < n /\ arrived'[labels'[i].target][m] = labels'[i].supersedes
                           /\ arrived'[labels'[i].target][n] = i
    BY DEF SupersedesEarlier
  <2>1. CASE i = id
    <3>1. /\ text.supersedes \in Stored /\ labels[text.supersedes].target = t
          /\ text.at >= labels[text.supersedes].at
      BY <1>3, <2>1 DEF Ingest, MaySupersede, t
    <3>2. PICK m \in DOMAIN arrived[t] : arrived[t][m] = text.supersedes
      BY <3>1 DEF LabelsInv, FiledOnce
    <3>3. labels[text.supersedes].at <= text.at
      BY <1>1, <3>1, LabelConstants
    <3> QED BY <1>3, <1>6, <2>1, <3>1, <3>2, <3>3 DEF t
  <2>2. CASE i \in Stored
    <3>1. /\ labels[i].supersedes \in Stored
          /\ labels[labels[i].supersedes].target = labels[i].target
          /\ labels[labels[i].supersedes].at <= labels[i].at
      BY <1>3, <2>2 DEF LabelsInv, SupersedesEarlier
    <3>2. PICK m \in DOMAIN arrived[labels[i].target], n \in DOMAIN arrived[labels[i].target] :
            /\ m < n /\ arrived[labels[i].target][m] = labels[i].supersedes
            /\ arrived[labels[i].target][n] = i
      BY <1>3, <2>2 DEF LabelsInv, SupersedesEarlier
    <3> QED BY <1>3, <1>8, <1>9, <2>2, <3>1, <3>2
  <2> QED BY <1>3, <2>1, <2>2
<1> QED BY <1>7, <1>10, <1>11 DEF LabelsInv

\* The label that arrived last for a target is superseded by none.
LEMMA CurrentByInvariant == LabelsInv => SupersededNotCurrent
<1> SUFFICES ASSUME LabelsInv PROVE SupersededNotCurrent
  OBVIOUS
<1>1. ASSUME NEW j \in Stored, NEW target \in {labels[i].target : i \in Stored},
             labels[j].supersedes = Current(target)
      PROVE  FALSE
  <2>1. target \in Targets /\ arrived[target] \in Seq(LabelIds)
    BY DEF LabelsInv, LabelsTypeOK, Targets
  <2>2. DOMAIN arrived[target] # {}
    BY DEF LabelsInv, FiledOnce
  <2> DEFINE history == arrived[target]
             last == Len(history)
  <2>3. last \in DOMAIN history /\ Current(target) = history[last] /\ history[last] \in LabelIds
    BY <2>1, <2>2 DEF Current, Last
  <2>4. Current(target) # NoLabel /\ labels[Current(target)].target = target
    BY <2>1, <2>3, LabelConstants DEF LabelsInv, FiledOnce
  <2>5. labels[j].target = target
    BY <1>1, <2>4 DEF LabelsInv, SupersedesEarlier
  <2>6. PICK m \in DOMAIN history, n \in DOMAIN history : m < n /\ history[m] = Current(target)
    BY <1>1, <2>4, <2>5 DEF LabelsInv, SupersedesEarlier
  <2>7. m = last
    BY <2>1, <2>3, <2>6 DEF LabelsInv, FiledOnce
  <2> QED BY <2>1, <2>6, <2>7
<1> QED BY <1>1 DEF SupersededNotCurrent, LabelsInv, SupersedesEarlier

\* For any labels, delivered late, twice or in any order to OutcomeLabelStore.ingest:
\* the current label of a target is never one that was superseded, and what is
\* superseded came before, and observed no later, than what supersedes it.
THEOREM CurrentIsNotSuperseded == LabelsSpec => []SupersededNotCurrent
<1>1. LabelsInv /\ [LabelsNext]_labelVars => LabelsInv'
  <2>1. LabelsInv /\ UNCHANGED labelVars => LabelsInv'
    BY DEF labelVars, LabelsInv, LabelsTypeOK, FiledOnce, SupersedesEarlier, Stored
  <2> QED BY <2>1, IngestKeeps DEF LabelsNext
<1> QED BY LabelsInitial, <1>1, CurrentByInvariant, PTL DEF LabelsSpec

----------------------------------------------------------------------------
(* Assurance *)

\* A status that is withdrawn is not calibrated again by this step.
NoneReturns ==
  \A a \in Artifacts : status[a] \notin {"ABSENT", "CALIBRATED"} => status'[a] # "CALIBRATED"

\* Nothing is registered, nothing gathered, nothing withdrawn.
LEMMA AssuranceInitial == AssuranceInit => AssuranceInv
<1> SUFFICES ASSUME AssuranceInit PROVE AssuranceInv
  OBVIOUS
<1>1. {a \in Artifacts : status[a] # "ABSENT"} = {}
  BY DEF AssuranceInit
<1> QED BY <1>1, FS_EmptySet, AssuranceConstants
        DEF AssuranceInit, AssuranceInv, AssuranceTypeOK, EvidenceKept, Statuses

\* A step that only withdraws or shifts what is registered keeps the evidence sound.
LEMMA WithdrawalKeeps ==
  ASSUME AssuranceInv, status' \in [Artifacts -> Statuses],
         \A a \in Artifacts : \/ status'[a] = status[a]
                              \/ status[a] # "ABSENT" /\ status'[a] \in {"SHIFTED", "INVALIDATED"},
         \A a \in outdated' \ outdated : a \in Artifacts /\ status'[a] = "INVALIDATED"
  PROVE  EvidenceKept' /\ NoneReturns
<1>1. {a \in Artifacts : status'[a] # "ABSENT"} = {a \in Artifacts : status[a] # "ABSENT"}
  OBVIOUS
<1>2. EvidenceKept'
  BY <1>1 DEF AssuranceInv, EvidenceKept
<1>3. NoneReturns
  BY DEF NoneReturns
<1> QED BY <1>2, <1>3

\* Registering an artifact: an id that is known keeps its status.
LEMMA RegistrationKeeps ==
  ASSUME AssuranceInv, NEW a \in Artifacts, NEW as \in {"DRAFT", "CALIBRATED"}, RegisterArtifact(a, as)
  PROVE  status' \in [Artifacts -> Statuses] /\ EvidenceKept' /\ NoneReturns
<1> DEFINE known == {b \in Artifacts : status[b] # "ABSENT"}
<1>1. status' = [status EXCEPT ![a] = as] /\ status[a] \in {"ABSENT", as} /\ outdated' = outdated
  BY DEF RegisterArtifact
<1>2. status \in [Artifacts -> Statuses] /\ IsFiniteSet(known)
  BY DEF AssuranceInv, AssuranceTypeOK, EvidenceKept
<1>3. {b \in Artifacts : status'[b] # "ABSENT"} = known \cup {a}
  BY <1>1, <1>2
<1>4. IsFiniteSet({b \in Artifacts : status'[b] # "ABSENT"})
  BY <1>2, <1>3, FS_AddElement, FS_Subset
<1>5. status' \in [Artifacts -> Statuses]
  BY <1>1, <1>2 DEF Statuses
<1>6. EvidenceKept'
  BY <1>1, <1>2, <1>4 DEF RegisterArtifact, AssuranceInv, EvidenceKept
<1> QED BY <1>1, <1>2, <1>5, <1>6 DEF NoneReturns

\* Withdrawing what rests on a fingerprint touches only what is registered.
LEMMA FingerprintWithdraws ==
  ASSUME status \in [Artifacts -> Statuses], NEW print
  PROVE  LET after == InvalidateFingerprint(print)
         IN  /\ after \in [Artifacts -> Statuses]
             /\ \A a \in Artifacts : \/ after[a] = status[a]
                                     \/ status[a] # "ABSENT" /\ after[a] = "INVALIDATED"
             /\ \A a \in Artifacts : status[a] # "ABSENT" /\ About[a].model = print
                                       => after[a] = "INVALIDATED"
  BY DEF InvalidateFingerprint, KeyedTo, Statuses

\* The registry of cards: what is disabled has a card, now and in the snapshot.
RegistryOK ==
  /\ cards \in [Capabilities -> Card \cup {NoCard}]
  /\ disabledIds \subseteq Capabilities /\ \A c \in disabledIds : cards[c] # NoCard
  /\ savedCards # NoCard => savedCards \in Registries
  /\ activePrints \subseteq Prints

\* Registering a card invalidates the calibrations of the model it replaces.
LEMMA CardKeeps ==
  ASSUME AssuranceInv, NEW c \in Capabilities, NEW card \in Card, RegisterCard(c, card)
  PROVE  AssuranceInv' /\ NoneReturns
<1>1. /\ cards' = [cards EXCEPT ![c] = card] /\ status' = Notified(c, card)
      /\ outdated' = outdated \cup {a \in Artifacts : /\ Replaces(c, card) /\ status[a] # "ABSENT"
                                                      /\ About[a].model = cards[c].model}
      /\ UNCHANGED <<disabledIds, savedCards, activePrints, now>>
  BY DEF RegisterCard
<1>2. AssuranceTypeOK
  BY DEF AssuranceInv
<1>3. RegistryOK'
  BY <1>1, <1>2, AssuranceConstants DEF AssuranceTypeOK, RegistryOK
<1>4. /\ status' \in [Artifacts -> Statuses]
      /\ \A a \in Artifacts : \/ status'[a] = status[a]
                              \/ status[a] # "ABSENT" /\ status'[a] = "INVALIDATED"
  BY <1>1, <1>2, FingerprintWithdraws DEF AssuranceTypeOK, Notified
<1>5. ASSUME NEW a \in outdated' \ outdated
      PROVE  a \in Artifacts /\ status'[a] = "INVALIDATED"
  <2>1. a \in Artifacts /\ Replaces(c, card) /\ status[a] # "ABSENT" /\ About[a].model = cards[c].model
    BY <1>1, <1>5
  <2> QED BY <1>1, <1>2, <2>1, FingerprintWithdraws DEF AssuranceTypeOK, Notified
<1>6. EvidenceKept' /\ NoneReturns
  BY <1>4, <1>5, WithdrawalKeeps
<1> QED BY <1>3, <1>4, <1>6 DEF AssuranceInv, AssuranceTypeOK, RegistryOK

\* Whatever the registry, the calibrations and the verifiers do next.
LEMMA AssuranceStep ==
  ASSUME AssuranceInv, [AssuranceNext]_assuranceVars
  PROVE  AssuranceInv' /\ NoneReturns
<1>1. AssuranceTypeOK /\ RegistryOK /\ status \in [Artifacts -> Statuses]
  BY DEF AssuranceInv, AssuranceTypeOK, RegistryOK
<1>2. ASSUME RegistryOK', UNCHANGED <<status, outdated>>
      PROVE  AssuranceInv' /\ NoneReturns
  <2>1. EvidenceKept' /\ NoneReturns
    BY <1>1, <1>2, WithdrawalKeeps
  <2> QED BY <1>1, <1>2, <2>1 DEF AssuranceInv, AssuranceTypeOK, RegistryOK
<1>3. ASSUME UNCHANGED <<registryVars, savedCards, activePrints>>,
             status' \in [Artifacts -> Statuses], EvidenceKept', NoneReturns
      PROVE  AssuranceInv' /\ NoneReturns
  BY <1>1, <1>3 DEF AssuranceInv, AssuranceTypeOK, RegistryOK, registryVars
<1>4. CASE UNCHANGED assuranceVars
  BY <1>1, <1>2, <1>4 DEF assuranceVars, RegistryOK
<1>5. ASSUME NEW c \in Capabilities, NEW card \in Card, RegisterCard(c, card)
      PROVE  AssuranceInv' /\ NoneReturns
  BY <1>5, CardKeeps
<1>6. ASSUME NEW c \in Capabilities, NEW flag \in BOOLEAN, SetUp(c, flag)
      PROVE  AssuranceInv' /\ NoneReturns
  <2>1. cards[c] \in Card /\ cards' = [cards EXCEPT ![c].up = flag]
        /\ UNCHANGED <<disabledIds, savedCards, activePrints, status, outdated>>
    BY <1>1, <1>6 DEF SetUp, calibrationVars, RegistryOK
  <2>2. [cards[c] EXCEPT !.up = flag] \in Card
    BY <2>1 DEF Card
  <2>3. RegistryOK'
    BY <1>1, <2>1, <2>2, AssuranceConstants DEF RegistryOK
  <2> QED BY <1>2, <2>1, <2>3
<1>7. ASSUME NEW c \in Capabilities, NEW flag \in BOOLEAN, SetDisabled(c, flag)
      PROVE  AssuranceInv' /\ NoneReturns
  <2>1. RegistryOK'
    BY <1>1, <1>7 DEF SetDisabled, calibrationVars, RegistryOK
  <2> QED BY <1>2, <1>7, <2>1 DEF SetDisabled, calibrationVars
<1>8. CASE SaveRegistry
  <2>1. [cards |-> cards, disabled |-> disabledIds] \in Registries
    BY <1>1 DEF RegistryOK, Registries
  <2>2. RegistryOK'
    BY <1>1, <1>8, <2>1 DEF SaveRegistry, registryVars, RegistryOK
  <2> QED BY <1>2, <1>8, <2>2 DEF SaveRegistry, calibrationVars
<1>9. CASE RestoreRegistry
  <2>1. RegistryOK'
    BY <1>1, <1>9 DEF RestoreRegistry, RegistryOK, Registries
  <2> QED BY <1>2, <1>9, <2>1 DEF RestoreRegistry, calibrationVars
<1>10. ASSUME NEW active \in SUBSET Prints, VerifiersChange(active)
       PROVE  AssuranceInv' /\ NoneReturns
  BY <1>1, <1>2, <1>10 DEF VerifiersChange, registryVars, calibrationVars, RegistryOK
<1>11. CASE AssuranceTick
  BY <1>1, <1>2, <1>11 DEF AssuranceTick, registryVars, calibrationVars, RegistryOK
<1>12. ASSUME NEW a \in Artifacts, NEW as \in {"DRAFT", "CALIBRATED"}, RegisterArtifact(a, as)
       PROVE  AssuranceInv' /\ NoneReturns
  <2>1. UNCHANGED <<registryVars, savedCards, activePrints>>
    BY <1>12 DEF RegisterArtifact
  <2> QED BY <1>3, <1>12, <2>1, RegistrationKeeps
<1>13. ASSUME NEW a \in Artifacts, MarkShifted(a)
       PROVE  AssuranceInv' /\ NoneReturns
  <2>1. /\ UNCHANGED <<registryVars, savedCards, activePrints>> /\ outdated' = outdated
        /\ status' = [status EXCEPT ![a] = "SHIFTED"] /\ status[a] # "ABSENT"
    BY <1>13 DEF MarkShifted
  <2>2. status' \in [Artifacts -> Statuses]
    BY <1>1, <2>1 DEF Statuses
  <2>3. EvidenceKept' /\ NoneReturns
    BY <1>1, <2>1, <2>2, WithdrawalKeeps
  <2> QED BY <1>3, <2>1, <2>2, <2>3
<1>14. ASSUME NEW print, InvalidateModel(print)
       PROVE  AssuranceInv' /\ NoneReturns
  <2>1. /\ UNCHANGED <<registryVars, savedCards, activePrints>> /\ outdated' = outdated
        /\ status' = InvalidateFingerprint(print)
    BY <1>14 DEF InvalidateModel
  <2>2. /\ status' \in [Artifacts -> Statuses]
        /\ \A a \in Artifacts : \/ status'[a] = status[a]
                                \/ status[a] # "ABSENT" /\ status'[a] = "INVALIDATED"
    BY <1>1, <2>1, FingerprintWithdraws
  <2>3. EvidenceKept' /\ NoneReturns
    BY <2>1, <2>2, WithdrawalKeeps
  <2> QED BY <1>3, <2>1, <2>2, <2>3
<1> QED BY <1>4, <1>5, <1>6, <1>7, <1>8, <1>9, <1>10, <1>11, <1>12, <1>13, <1>14 DEF AssuranceNext

\* Of finitely many artifacts one has the greatest edition: the one with the fewest
\* above it has none.
LEMMA GreatestEdition ==
  ASSUME NEW S \in SUBSET Artifacts, IsFiniteSet(S), S # {}
  PROVE  \E a \in S : \A b \in S : Edition[a] >= Edition[b]
<1> DEFINE above(a) == {b \in S : Edition[b] > Edition[a]}
<1>1. \A a \in S : Edition[a] \in Nat
  BY AssuranceConstants
<1>2. \A a \in S : above(a) \in FiniteSubsetsOf(S)
  BY FS_Subset DEF FiniteSubsetsOf
<1>3. PICK x \in {above(a) : a \in S} :
        \A y \in {above(a) : a \in S} : <<y, x>> \notin StrictSubsetOrdering(S)
  <2>1. {above(a) : a \in S} \subseteq FiniteSubsetsOf(S) /\ {above(a) : a \in S} # {}
    BY <1>2
  <2> HIDE DEF above
  <2> QED BY <2>1, FS_StrictSubsetOrderingWellFounded, WFMin
<1>4. PICK a \in S : x = above(a)
  BY <1>3
<1>5. ASSUME NEW b \in above(a) PROVE FALSE
  <2>1. b \in S /\ above(b) \subseteq above(a) /\ b \notin above(b)
    BY <1>1, <1>5
  <2>2. <<above(b), above(a)>> \in StrictSubsetOrdering(S)
    BY <1>5, <2>1 DEF StrictSubsetOrdering
  <2> QED BY <1>3, <1>4, <2>1, <2>2
<1> QED BY <1>1, <1>5

\* What applies to a key is calibrated, and about it.
LEMMA ApplicableIsCalibrated ==
  ASSUME AssuranceInv, NEW key, Applicable(key) # NoArtifact
  PROVE  Applicable(key) \in Artifacts /\ status[Applicable(key)] = "CALIBRATED"
<1> DEFINE matches == {a \in Artifacts : About[a] = key /\ status[a] = "CALIBRATED"}
<1>1. matches # {} /\ Applicable(key) = CHOOSE a \in matches : \A b \in matches : Edition[a] >= Edition[b]
  BY DEF Applicable
<1>2. IsFiniteSet(matches)
  <2>1. matches \subseteq {a \in Artifacts : status[a] # "ABSENT"}
    OBVIOUS
  <2> QED BY <2>1, FS_Subset DEF AssuranceInv, EvidenceKept
<1>3. \E a \in matches : \A b \in matches : Edition[a] >= Edition[b]
  BY <1>1, <1>2, GreatestEdition
<1>4. Applicable(key) \in matches
  BY <1>1, <1>3
<1> QED BY <1>4

\* A confidence rests on an artifact that applies: held out, and not outdated.
LEMMA CurrentByEvidence == AssuranceInv => ConfidenceCurrent
<1> SUFFICES ASSUME AssuranceInv, NEW key, Issued(key) # NoArtifact
             PROVE  Issued(key) \notin outdated /\ Issued(key) \in HeldOut
  BY DEF ConfidenceCurrent
<1>1. Issued(key) = Applicable(key)
  BY DEF Issued
<1>2. Issued(key) \in Artifacts /\ status[Issued(key)] = "CALIBRATED"
  BY <1>1, ApplicableIsCalibrated
<1> QED BY <1>2 DEF AssuranceInv, EvidenceKept

\* For any capabilities, models, verifiers and calibrations: whatever is registered,
\* replaced, rolled back, disabled or restored, issue_calibrated_confidence rests on
\* held-out evidence for the model in use, and what was withdrawn stays withdrawn.
THEOREM ConfidenceIsEarned == AssuranceSpec => AssuranceSafety
<1>1. AssuranceInv /\ [AssuranceNext]_assuranceVars => AssuranceInv'
  BY AssuranceStep
<1>2. AssuranceSpec => []AssuranceInv
  BY <1>1, AssuranceInitial, PTL DEF AssuranceSpec
<1>3. AssuranceInv /\ [AssuranceNext]_assuranceVars
        => [\A a \in Artifacts :
              status[a] \notin {"ABSENT", "CALIBRATED"} => status'[a] # "CALIBRATED"]_assuranceVars
  BY AssuranceStep DEF NoneReturns
<1>4. AssuranceInv => AssuranceTypeOK
  BY DEF AssuranceInv
<1> QED BY <1>2, <1>3, <1>4, CurrentByEvidence, PTL DEF AssuranceSpec, AssuranceSafety, WithdrawnForGood

----------------------------------------------------------------------------
(* LearnedPolicies *)

\* The lifecycle of each registered policy; at most one is active.
OneActivePolicy ==
  /\ policyLifecycle \in [DOMAIN policyLifecycle -> PolicyLifecycle]
  /\ DOMAIN policyLifecycle \subseteq Policies
  /\ \A p, q \in DOMAIN policyLifecycle :
       policyLifecycle[p] = "ACTIVE" /\ policyLifecycle[q] = "ACTIVE" => p = q

\* What a step may do to the policies.
StaysOut ==
  \A p \in DOMAIN policyLifecycle :
    p \in DOMAIN policyLifecycle'
    /\ (policyLifecycle[p] = "ROLLED_BACK" => policyLifecycle'[p] = "ROLLED_BACK")

\* Promotion retires the policy that was active; nothing leaves ROLLED_BACK.
LEMMA LifecycleStep ==
  ASSUME OneActivePolicy, [LearnedNext]_learnedVars
  PROVE  OneActivePolicy' /\ StaysOut
<1>1. CASE UNCHANGED policyLifecycle
  BY <1>1 DEF OneActivePolicy, StaysOut
<1>2. ASSUME NEW p \in Policies, RegisterPolicy(p)
      PROVE  OneActivePolicy' /\ StaysOut
  <2>1. /\ p \notin DOMAIN policyLifecycle /\ DOMAIN policyLifecycle' = DOMAIN policyLifecycle \cup {p}
        /\ policyLifecycle' = [q \in DOMAIN policyLifecycle \cup {p} |->
                                 IF q = p THEN "SHADOW" ELSE policyLifecycle[q]]
    BY <1>2 DEF RegisterPolicy
  <2>2. policyLifecycle' \in [DOMAIN policyLifecycle' -> PolicyLifecycle]
    BY <2>1 DEF OneActivePolicy, PolicyLifecycle
  <2>3. /\ \A q \in DOMAIN policyLifecycle : policyLifecycle'[q] = policyLifecycle[q]
        /\ policyLifecycle'[p] = "SHADOW"
    BY <2>1
  <2> QED BY <2>1, <2>2, <2>3 DEF OneActivePolicy, StaysOut
<1>3. ASSUME NEW p \in Policies, PromoteCanary(p)
      PROVE  OneActivePolicy' /\ StaysOut
  <2>1. p \in DOMAIN policyLifecycle /\ policyLifecycle[p] = "SHADOW"
    BY <1>3 DEF PromoteCanary, MayTryOut, Stage, None
  <2>2. policyLifecycle' = [policyLifecycle EXCEPT ![p] = "CANARY"]
    BY <1>3 DEF PromoteCanary
  <2> QED BY <2>1, <2>2 DEF OneActivePolicy, StaysOut, PolicyLifecycle
<1>4. ASSUME NEW p \in Policies, PromoteActive(p)
      PROVE  OneActivePolicy' /\ StaysOut
  <2>1. p \in DOMAIN policyLifecycle /\ policyLifecycle[p] = "CANARY"
    BY <1>4 DEF PromoteActive, Stage, None
  <2>2. policyLifecycle' = [q \in DOMAIN policyLifecycle |->
            IF q = p THEN "ACTIVE"
            ELSE IF policyLifecycle[q] = "ACTIVE" THEN "ROLLED_BACK"
            ELSE policyLifecycle[q]]
    BY <1>4 DEF PromoteActive
  <2> QED BY <2>1, <2>2 DEF OneActivePolicy, StaysOut, PolicyLifecycle
<1>5. ASSUME NEW p \in Policies, RollbackPolicy(p)
      PROVE  OneActivePolicy' /\ StaysOut
  BY <1>5 DEF RollbackPolicy, OneActivePolicy, StaysOut, PolicyLifecycle
<1>6. CASE Fit \/ SwitchKill \/ Observe \/ Correct
  BY <1>1, <1>6 DEF Fit, SwitchKill, Observe, Correct
<1>7. ASSUME NEW p \in Policies, RecordEvidence(p)
      PROVE  UNCHANGED policyLifecycle
  BY <1>7 DEF RecordEvidence
<1>8. ASSUME NEW p \in Policies, NEW risk, NEW safe, NEW index, SelectByPolicy(p, risk, safe, index)
      PROVE  UNCHANGED policyLifecycle
  BY <1>8 DEF SelectByPolicy
<1> QED BY <1>1, <1>2, <1>3, <1>4, <1>5, <1>6, <1>7, <1>8 DEF LearnedNext, learnedVars

\* A set whose members are all equal has at most one.
LEMMA AtMostOne ==
  ASSUME NEW S, \A x, y \in S : x = y
  PROVE  Cardinality(S) <= 1
<1>1. CASE S = {}
  BY <1>1, FS_EmptySet
<1>2. CASE S # {}
  <2>1. PICK x \in S : S = {x}
    BY <1>2
  <2> QED BY <2>1, FS_Singleton
<1> QED BY <1>1, <1>2

\* For any policies and any log: promote_active leaves at most one policy active,
\* and a policy that was rolled back never runs again.
THEOREM RolledBackPoliciesStayOut == LearnedSpec => RolledBackStaysOut
<1>1. LearnedInit => OneActivePolicy
  BY DEF LearnedInit, OneActivePolicy
<1>2. OneActivePolicy /\ [LearnedNext]_learnedVars => OneActivePolicy'
  BY LifecycleStep
<1>3. ASSUME OneActivePolicy, [LearnedNext]_learnedVars
      PROVE  /\ Cardinality({p \in DOMAIN policyLifecycle' : policyLifecycle'[p] = "ACTIVE"}) <= 1
             /\ \A p \in DOMAIN policyLifecycle :
                  policyLifecycle[p] = "ROLLED_BACK" => policyLifecycle'[p] = "ROLLED_BACK"
  <2>1. OneActivePolicy' /\ StaysOut
    BY <1>3, LifecycleStep
  <2> DEFINE active == {p \in DOMAIN policyLifecycle' : policyLifecycle'[p] = "ACTIVE"}
  <2>2. \A p, q \in active : p = q
    BY <2>1 DEF OneActivePolicy
  <2>3. Cardinality(active) <= 1
    BY <2>2, AtMostOne
  <2> QED BY <2>1, <2>3 DEF StaysOut
<1> QED BY <1>1, <1>2, <1>3, PTL DEF LearnedSpec, RolledBackStaysOut

----------------------------------------------------------------------------
(* Orders *)

Ordered(E, R) ==
  \A u, v, w \in E :
    /\ <<v, v>> \notin R
    /\ <<u, v>> \in R /\ <<v, w>> \in R => <<u, w>> \in R
    /\ v = w \/ <<v, w>> \in R \/ <<w, v>> \in R

Preceding(E, R, v) == {w \in E : <<w, v>> \in R}

RankedBy(E, R) ==
  [i \in 1 .. Cardinality(E) |-> CHOOSE v \in E : Cardinality(Preceding(E, R, v)) = i - 1]

\* A finite set that is ordered can be listed in its order, each member once.
LEMMA RanksList ==
  ASSUME NEW E, NEW R, IsFiniteSet(E), Ordered(E, R)
  PROVE  LET n == Cardinality(E)
         IN  /\ n \in Nat
             /\ RankedBy(E, R) \in [1 .. n -> E]
             /\ \A i, j \in 1 .. n : RankedBy(E, R)[i] = RankedBy(E, R)[j] => i = j
             /\ \A i, j \in 1 .. n : i < j => <<RankedBy(E, R)[i], RankedBy(E, R)[j]>> \in R
             /\ \A v \in E : \E i \in 1 .. n : RankedBy(E, R)[i] = v
<1> DEFINE n == Cardinality(E)
           rank == [v \in E |-> Cardinality(Preceding(E, R, v)) + 1]
<1>1. n \in Nat
  BY FS_CardinalityType
<1>2. ASSUME NEW v \in E
      PROVE  /\ IsFiniteSet(Preceding(E, R, v)) /\ Cardinality(Preceding(E, R, v)) \in 0 .. n - 1
  <2>1. Preceding(E, R, v) \in SUBSET (E \ {v}) /\ Preceding(E, R, v) \in SUBSET E
    BY DEF Preceding, Ordered
  <2>2. IsFiniteSet(E \ {v}) /\ Cardinality(E \ {v}) = n - 1
    BY FS_RemoveElement
  <2>3. IsFiniteSet(Preceding(E, R, v)) /\ Cardinality(Preceding(E, R, v)) <= n - 1
    BY <2>1, <2>2, FS_Subset
  <2>4. Cardinality(Preceding(E, R, v)) \in Nat
    BY <2>3, FS_CardinalityType
  <2> QED BY <1>1, <2>3, <2>4
<1>3. ASSUME NEW v \in E, NEW w \in E, <<v, w>> \in R
      PROVE  Cardinality(Preceding(E, R, v)) < Cardinality(Preceding(E, R, w))
  <2>1. Preceding(E, R, v) \in SUBSET (Preceding(E, R, w) \ {v}) /\ v \in Preceding(E, R, w)
    BY <1>3 DEF Preceding, Ordered
  <2>2. /\ IsFiniteSet(Preceding(E, R, w) \ {v})
        /\ Cardinality(Preceding(E, R, w) \ {v}) = Cardinality(Preceding(E, R, w)) - 1
    BY <1>2, <2>1, FS_RemoveElement
  <2>3. Cardinality(Preceding(E, R, v)) <= Cardinality(Preceding(E, R, w)) - 1
    BY <2>1, <2>2, FS_Subset
  <2>4. Cardinality(Preceding(E, R, v)) \in Nat /\ Cardinality(Preceding(E, R, w)) \in Nat
    BY <1>1, <1>2
  <2> QED BY <2>3, <2>4
<1>4. rank \in [E -> 1 .. n]
  BY <1>1, <1>2
<1>5. \A v \in E : rank[v] = Cardinality(Preceding(E, R, v)) + 1
  OBVIOUS
<1>6. \A v, w \in E : <<v, w>> \in R => rank[v] < rank[w]
  BY <1>1, <1>2, <1>3
<1> HIDE DEF rank
<1>7. \A v, w \in E : rank[v] = rank[w] => v = w
  <2>1. \A v, w \in E : v = w \/ <<v, w>> \in R \/ <<w, v>> \in R
    BY DEF Ordered
  <2>2. \A v \in E : rank[v] \in Int
    BY <1>1, <1>4
  <2> HIDE DEF n
  <2>3. \A v, w \in E : <<v, w>> \in R => rank[v] # rank[w]
    BY <1>6, <2>2
  <2> QED BY <2>1, <2>3
<1>8. rank \in Surjection(E, 1 .. n)
  <2>1. rank \in Injection(E, 1 .. n)
    BY <1>4, <1>7 DEF Injection, IsInjective
  <2>2. IsFiniteSet(1 .. n) /\ Cardinality(1 .. n) = n
    BY <1>1, FS_Interval
  <2> QED BY <2>1, <2>2, FS_Injection
<1>9. ASSUME NEW i \in 1 .. n
      PROVE  RankedBy(E, R)[i] \in E /\ rank[RankedBy(E, R)[i]] = i
  <2>1. \E v \in E : rank[v] = i
    BY <1>8 DEF Surjection
  <2>2. \E v \in E : Cardinality(Preceding(E, R, v)) = i - 1
    BY <1>1, <1>2, <1>5, <2>1
  <2>3. RankedBy(E, R)[i] = CHOOSE v \in E : Cardinality(Preceding(E, R, v)) = i - 1
    BY DEF RankedBy
  <2>4. RankedBy(E, R)[i] \in E /\ Cardinality(Preceding(E, R, RankedBy(E, R)[i])) = i - 1
    BY <2>2, <2>3
  <2> QED BY <1>1, <1>5, <2>4
<1>10. RankedBy(E, R) \in [1 .. n -> E]
  <2> DEFINE at(i) == CHOOSE v \in E : Cardinality(Preceding(E, R, v)) = i - 1
  <2>1. RankedBy(E, R) = [i \in 1 .. n |-> at(i)]
    BY DEF RankedBy
  <2> HIDE DEF at
  <2>2. \A i \in 1 .. n : at(i) \in E
    BY <1>9, <2>1
  <2> QED BY <2>1, <2>2
<1> HIDE DEF n
<1>11. \A i, j \in 1 .. n : RankedBy(E, R)[i] = RankedBy(E, R)[j] => i = j
  BY <1>9
<1>12. ASSUME NEW i \in 1 .. n, NEW j \in 1 .. n, i < j
       PROVE  <<RankedBy(E, R)[i], RankedBy(E, R)[j]>> \in R
  <2>1. RankedBy(E, R)[i] # RankedBy(E, R)[j] /\ ~(<<RankedBy(E, R)[j], RankedBy(E, R)[i]>> \in R)
    BY <1>1, <1>6, <1>9, <1>12
  <2> QED BY <1>9, <2>1 DEF Ordered
<1>13. ASSUME NEW v \in E PROVE \E i \in 1 .. n : RankedBy(E, R)[i] = v
  <2>1. rank[v] \in 1 .. n
    BY <1>4
  <2> QED BY <1>7, <1>9, <2>1
<1> QED BY <1>1, <1>10, <1>11, <1>12, <1>13 DEF n

----------------------------------------------------------------------------
(* VerifierCascade: candidates *)

ActiveFinite == IsFiniteSet(ActiveVerifiers) /\ ActiveVerifiers \subseteq Verifiers

\* Cost, and the id for equal costs, order any two verifiers.
LEMMA CheaperOrders ==
  ASSUME NEW u \in Verifiers, NEW v \in Verifiers, NEW w \in Verifiers
  PROVE  /\ ~Cheaper(v, v)
         /\ Cheaper(u, v) /\ Cheaper(v, w) => Cheaper(u, w)
         /\ v = w \/ Cheaper(v, w) \/ Cheaper(w, v)
         /\ Cheaper(v, w) => Cost[v] <= Cost[w]
<1>1. {u, v, w} \subseteq Nat /\ {Cost[u], Cost[v], Cost[w]} \subseteq Nat
  BY CascadeConstants
<1> QED BY <1>1 DEF Cheaper

\* The candidates are the active verifiers, each once, in their order.
LEMMA CandidatesSorted ==
  ASSUME ActiveFinite
  PROVE  LET n == Cardinality(ActiveVerifiers)
         IN  /\ n \in Nat
             /\ Candidates \in [1 .. n -> ActiveVerifiers]
             /\ \A i, j \in 1 .. n : i < j => Cheaper(Candidates[i], Candidates[j])
             /\ \A v \in ActiveVerifiers : \E i \in 1 .. n : Candidates[i] = v
<1> DEFINE E == ActiveVerifiers
           R == {r \in E \X E : Cheaper(r[1], r[2])}
           n == Cardinality(E)
<1>1. IsFiniteSet(E) /\ E \subseteq Verifiers
  BY DEF ActiveFinite
<1>2. \A a, b \in E : <<a, b>> \in R <=> Cheaper(a, b)
  OBVIOUS
<1>3. \A a, b : <<a, b>> \in R => Cheaper(a, b)
  OBVIOUS
<1> HIDE DEF E, R
<1>4. Ordered(E, R)
  BY <1>1, <1>2, CheaperOrders DEF Ordered
<1>5. Candidates = RankedBy(E, R)
  <2>1. \A v \in E : Preceding(E, R, v) = {w \in E : Cheaper(w, v)}
    BY <1>2 DEF Preceding
  <2>2. \A i : (CHOOSE v \in E : Cardinality({w \in E : Cheaper(w, v)}) = i - 1)
               = (CHOOSE v \in E : Cardinality(Preceding(E, R, v)) = i - 1)
    BY <2>1
  <2>3. Candidates = [i \in 1 .. n |->
                        CHOOSE v \in E : Cardinality({w \in E : Cheaper(w, v)}) = i - 1]
    BY DEF Candidates, E
  <2> DEFINE least(i) == CHOOSE v \in E : Cardinality({w \in E : Cheaper(w, v)}) = i - 1
             first(i) == CHOOSE v \in E : Cardinality(Preceding(E, R, v)) = i - 1
  <2>4. Candidates = [i \in 1 .. n |-> least(i)]
    BY <2>3
  <2>5. RankedBy(E, R) = [i \in 1 .. n |-> first(i)]
    BY DEF RankedBy
  <2>6. \A i : least(i) = first(i)
    BY <2>2
  <2> HIDE DEF least, first, n
  <2> QED BY <2>4, <2>5, <2>6
<1>6. /\ n \in Nat
      /\ Candidates \in [1 .. n -> E]
      /\ \A i, j \in 1 .. n : i < j => <<Candidates[i], Candidates[j]>> \in R
      /\ \A v \in E : \E i \in 1 .. n : Candidates[i] = v
  BY <1>1, <1>4, <1>5, RanksList
<1> QED BY <1>3, <1>6 DEF E

----------------------------------------------------------------------------
(* VerifierCascade: the cascade *)

CascadeStep(p, s, v) == PutTo(p.policy, p.outcome, s, v)
CostStep(p, n, v) == n + Cost[v]

Cascading == INSTANCE FoldTheorems WITH Step <- CascadeStep
Charging == INSTANCE FoldTheorems WITH Step <- CostStep

\* The cascade, as a fold of the fold theorems.
LEMMA CascadeIsRun ==
  ASSUME NEW policy, NEW outcome
  PROVE  Cascade(policy, outcome)
           = Cascading!Run([policy |-> policy, outcome |-> outcome],
               [run |-> <<>>, cost |-> 0, passed |-> {}, reason |-> "UNMET"], Candidates)
BY DEF Cascade, CascadeStep, FoldLeft, MapThenFoldSet, Max,
       Cascading!Run, Cascading!FoldLeft, Cascading!MapThenFoldSet, Cascading!Max

\* So are the costs of the verifiers run.
LEMMA CostIsRun == \A run : CostOf(run) = Charging!Run({}, 0, run)
BY DEF CostOf, CostStep, FoldLeft, MapThenFoldSet, Max,
       Charging!Run, Charging!FoldLeft, Charging!MapThenFoldSet, Charging!Max

\* One verifier more costs its cost more.
LEMMA CostGrows ==
  ASSUME NEW run \in Seq(Verifiers), NEW v \in Verifiers
  PROVE  CostOf(<<>>) = 0 /\ CostOf(Append(run, v)) = CostOf(run) + Cost[v]
<1>1. Charging!Run({}, 0, Append(run, v)) = CostStep({}, Charging!Run({}, 0, run), v)
  BY Charging!RunAppend
<1>2. Charging!Run({}, 0, <<>>) = 0
  BY Charging!RunEmpty
<1> QED BY <1>1, <1>2, CostIsRun DEF CostStep

CascadeState ==
  [run : Seq(Verifiers), cost : Nat, passed : SUBSET Verifiers,
   reason : {"UNMET", "FAILED", "SATISFIED"}]

\* The first k candidates that would fail no longer fit the budget.
FailuresTooDear(policy, outcome, s, k) ==
  policy.stop => \A j \in 1 .. k :
    outcome[Candidates[j]] = "FAIL" => s.cost + Cost[Candidates[j]] > policy.budget

\* What the cascade has come to after k candidates: it has run some of them,
\* each once, within the budget, and it has ended only for a reason.
Standing(policy, outcome, k) ==
  { s \in CascadeState :
      /\ s.cost = CostOf(s.run) /\ s.cost <= policy.budget
      /\ \A i \in DOMAIN s.run : \E j \in 1 .. k : s.run[i] = Candidates[j]
      /\ \A i, j \in DOMAIN s.run : s.run[i] = s.run[j] => i = j
      /\ s.passed = {s.run[i] : i \in {i \in DOMAIN s.run : outcome[s.run[i]] = "PASS"}}
      /\ s.reason = "UNMET" => FailuresTooDear(policy, outcome, s, k)
      /\ s.reason = "SATISFIED" =>
           /\ Meets(policy, s.passed)
           /\ s.run # <<>>
           /\ \E m \in 1 .. k : /\ Last(s.run) = Candidates[m]
                                /\ FailuresTooDear(policy, outcome, s, m - 1) }

\* A candidate more.
LEMMA StandingStep ==
  ASSUME ActiveFinite, NEW policy \in CascadePolicies, NEW outcome \in [Verifiers -> Answers],
         NEW k \in 1 .. Len(Candidates), NEW s \in Standing(policy, outcome, k - 1)
  PROVE  PutTo(policy, outcome, s, Candidates[k]) \in Standing(policy, outcome, k)
<1> DEFINE n == Cardinality(ActiveVerifiers)
           v == Candidates[k]
           t == PutTo(policy, outcome, s, v)
<1>1. n \in Nat /\ Candidates \in [1 .. n -> ActiveVerifiers] /\ Len(Candidates) = n
  <2>1. n \in Nat /\ Candidates \in [1 .. n -> ActiveVerifiers]
    BY CandidatesSorted
  <2> QED BY <2>1
<1>2. ActiveVerifiers \subseteq Verifiers
  BY DEF ActiveFinite
<1>3. /\ k \in 1 .. n /\ \A j \in 1 .. k : Candidates[j] \in Verifiers /\ Cost[Candidates[j]] \in Nat
      /\ v \in Verifiers /\ Cost[v] \in Nat
  <2>1. k \in 1 .. n /\ \A j \in 1 .. k : j \in 1 .. n
    BY <1>1
  <2>2. \A j \in 1 .. n : Candidates[j] \in Verifiers
    BY <1>1, <1>2
  <2>3. \A w \in Verifiers : Cost[w] \in Nat
    BY CascadeConstants
  <2> QED BY <2>1, <2>2, <2>3
<1>4. \A i, j \in 1 .. n : i < j => Candidates[i] # Candidates[j]
  <2>1. \A i, j \in 1 .. n : i < j => Cheaper(Candidates[i], Candidates[j])
    BY CandidatesSorted
  <2>2. \A i \in 1 .. n : ~Cheaper(Candidates[i], Candidates[i])
    BY <1>1, <1>2, CheaperOrders
  <2> QED BY <2>1, <2>2
<1>5. policy.budget \in Nat
  BY CascadeConstants
<1>6. s \in CascadeState
  BY DEF Standing
<1>7. /\ s.run \in Seq(Verifiers) /\ s.cost \in Nat /\ s.passed \in SUBSET Verifiers
      /\ s.reason \in {"UNMET", "FAILED", "SATISFIED"}
  BY <1>6 DEF CascadeState
<1>8. /\ s.cost = CostOf(s.run) /\ s.cost <= policy.budget
      /\ \A i \in DOMAIN s.run : \E j \in 1 .. k - 1 : s.run[i] = Candidates[j]
      /\ \A i, j \in DOMAIN s.run : s.run[i] = s.run[j] => i = j
      /\ s.passed = {s.run[i] : i \in {i \in DOMAIN s.run : outcome[s.run[i]] = "PASS"}}
      /\ s.reason = "UNMET" => FailuresTooDear(policy, outcome, s, k - 1)
  BY DEF Standing
<1>9. CASE s.reason # "UNMET"
  <2>1. t = s
    BY <1>9 DEF PutTo
  <2>2. s.reason = "SATISFIED" =>
           /\ Meets(policy, s.passed)
           /\ s.run # <<>>
           /\ \E m \in 1 .. k : /\ Last(s.run) = Candidates[m]
                                /\ FailuresTooDear(policy, outcome, s, m - 1)
    <3>1. 1 .. k - 1 \subseteq 1 .. k
      BY <1>1
    <3> QED BY <3>1 DEF Standing
  <2>3. \A i \in DOMAIN s.run : \E j \in 1 .. k : s.run[i] = Candidates[j]
    BY <1>1, <1>8
  <2> QED BY <1>6, <1>8, <1>9, <2>1, <2>2, <2>3 DEF Standing
<1>10. CASE s.reason = "UNMET" /\ s.cost + Cost[v] > policy.budget
  <2>1. t = s
    BY <1>10 DEF PutTo
  <2>2. FailuresTooDear(policy, outcome, s, k)
    BY <1>1, <1>8, <1>10 DEF FailuresTooDear
  <2>3. \A i \in DOMAIN s.run : \E j \in 1 .. k : s.run[i] = Candidates[j]
    BY <1>1, <1>8
  <2> QED BY <1>6, <1>8, <1>10, <2>1, <2>2, <2>3 DEF Standing
<1>11. CASE s.reason = "UNMET" /\ ~(s.cost + Cost[v] > policy.budget)
  <2> DEFINE passed == IF outcome[v] = "PASS" THEN s.passed \cup {v} ELSE s.passed
  <2>1. /\ t.run = Append(s.run, v) /\ t.cost = s.cost + Cost[v] /\ t.passed = passed
        /\ t.reason = IF outcome[v] = "FAIL" /\ policy.stop THEN "FAILED"
                      ELSE IF Meets(policy, passed) THEN "SATISFIED" ELSE "UNMET"
        /\ t = [run |-> t.run, cost |-> t.cost, passed |-> t.passed, reason |-> t.reason]
    BY <1>11 DEF PutTo
  <2>2. t.passed \in SUBSET Verifiers /\ t.reason \in {"UNMET", "FAILED", "SATISFIED"}
    BY <1>3, <1>7, <2>1
  <2>3. t.run \in Seq(Verifiers) /\ t.cost \in Nat
    BY <1>3, <1>7, <2>1
  <2> HIDE DEF t
  <2>4. t \in CascadeState
    BY <2>1, <2>2, <2>3 DEF CascadeState
  <2>5. t.cost = CostOf(t.run) /\ t.cost <= policy.budget
    BY <1>3, <1>5, <1>7, <1>8, <1>11, <2>1, CostGrows
  <2>6. /\ DOMAIN t.run = DOMAIN s.run \cup {Len(s.run) + 1} /\ Len(s.run) + 1 \notin DOMAIN s.run
        /\ t.run[Len(s.run) + 1] = v /\ \A i \in DOMAIN s.run : t.run[i] = s.run[i]
        /\ t.run # <<>> /\ Last(t.run) = v
    <3>1. s.run \in Seq(Verifiers) /\ t.run = Append(s.run, v)
      BY <1>7, <2>1
    <3> HIDE DEF v
    <3> QED BY <3>1 DEF Last
  <2>7. \A i \in DOMAIN t.run : \E j \in 1 .. k : t.run[i] = Candidates[j]
    BY <1>1, <1>3, <1>8, <2>6
  <2>8. \A i \in DOMAIN s.run : s.run[i] # v
    BY <1>1, <1>3, <1>4, <1>8
  <2>9. \A i, j \in DOMAIN t.run : t.run[i] = t.run[j] => i = j
    BY <1>8, <2>6, <2>8
  <2>10. t.passed = {t.run[i] : i \in {i \in DOMAIN t.run : outcome[t.run[i]] = "PASS"}}
    <3> DEFINE Passed(run) == {i \in DOMAIN run : outcome[run[i]] = "PASS"}
               top == Len(s.run) + 1
    <3> HIDE DEF v
    <3>1. Passed(t.run) = IF outcome[v] = "PASS" THEN Passed(s.run) \cup {top} ELSE Passed(s.run)
      BY <2>6
    <3>2. \A i \in Passed(s.run) : t.run[i] = s.run[i]
      BY <2>6
    <3>3. s.passed = {s.run[i] : i \in Passed(s.run)}
      BY <1>8
    <3>4. s.passed = {t.run[i] : i \in Passed(s.run)} /\ t.run[top] = v
      BY <2>6, <3>2, <3>3
    <3> HIDE DEF Passed, top
    <3>5. t.passed = {t.run[i] : i \in Passed(t.run)}
      BY <2>1, <3>1, <3>4
    <3> QED BY <3>5 DEF Passed
  <2>11. FailuresTooDear(policy, outcome, t, k - 1)
    BY <1>1, <1>3, <1>5, <1>7, <1>8, <1>11, <2>1 DEF FailuresTooDear
  <2>12. t.reason = "UNMET" => FailuresTooDear(policy, outcome, t, k)
    BY <1>1, <2>1, <2>11 DEF FailuresTooDear
  <2>13. t.reason = "SATISFIED" =>
           /\ Meets(policy, t.passed)
           /\ t.run # <<>>
           /\ \E m \in 1 .. k : /\ Last(t.run) = Candidates[m]
                                /\ FailuresTooDear(policy, outcome, t, m - 1)
    BY <1>3, <2>1, <2>6, <2>11
  <2>14. t \in Standing(policy, outcome, k)
    BY <2>4, <2>5, <2>7, <2>9, <2>10, <2>12, <2>13 DEF Standing
  <2> QED BY <2>14 DEF t
<1> QED BY <1>9, <1>10, <1>11

\* Where the cascade ends.
LEMMA CascadeStands ==
  ASSUME ActiveFinite, NEW policy \in CascadePolicies, NEW outcome \in [Verifiers -> Answers]
  PROVE  Cascade(policy, outcome) \in Standing(policy, outcome, Cardinality(ActiveVerifiers))
<1> DEFINE n == Cardinality(ActiveVerifiers)
           p == [policy |-> policy, outcome |-> outcome]
           b == [run |-> <<>>, cost |-> 0, passed |-> {}, reason |-> "UNMET"]
           A == [k \in 0 .. n |-> Standing(policy, outcome, k)]
<1>1. n \in Nat /\ Candidates \in [1 .. n -> ActiveVerifiers]
  BY CandidatesSorted
<1>2. Candidates \in Seq(ActiveVerifiers) /\ Len(Candidates) = n
  BY <1>1
<1>3. b \in A[0]
  <2>1. b \in CascadeState
    BY DEF CascadeState
  <2>2. CostOf(<<>>) = 0
    BY CostIsRun, Charging!RunEmpty
  <2>3. policy.budget >= 0
    BY CascadeConstants
  <2>4. b \in Standing(policy, outcome, 0)
    BY <2>1, <2>2, <2>3 DEF Standing, FailuresTooDear
  <2> QED BY <1>1, <2>4
<1>4. \A k \in 1 .. Len(Candidates) : \A s \in A[k - 1] : CascadeStep(p, s, Candidates[k]) \in A[k]
  <2>1. TAKE k \in 1 .. Len(Candidates)
  <2>2. TAKE s \in A[k - 1]
  <2>3. k \in 1 .. n /\ k - 1 \in 0 .. n /\ k \in 0 .. n
    BY <1>1, <1>2
  <2>4. s \in Standing(policy, outcome, k - 1)
    BY <2>3
  <2>5. PutTo(policy, outcome, s, Candidates[k]) \in Standing(policy, outcome, k)
    BY <2>4, StandingStep
  <2> QED BY <2>3, <2>5 DEF CascadeStep
<1> HIDE DEF A, b, p
<1>5. Cascading!Run(p, b, Candidates) \in A[Len(Candidates)]
  BY <1>2, <1>3, <1>4, Cascading!RunAdvances
<1>6. A[n] = Standing(policy, outcome, n)
  BY <1>1 DEF A
<1> QED BY <1>2, <1>5, <1>6, CascadeIsRun DEF p, b

\* A sound end of the cascade is all that Standing allows.
LEMMA SoundByStanding == ActiveFinite => CascadeSound
<1> SUFFICES ASSUME ActiveFinite, NEW policy \in CascadePolicies,
                    NEW outcome \in [Verifiers -> Answers],
                    Cascade(policy, outcome).reason = "SATISFIED"
             PROVE  LET s == Cascade(policy, outcome)
                        passed == {v \in ActiveVerifiers \cap ToSet(s.run) : outcome[v] = "PASS"}
                    IN  /\ CostOf(s.run) <= policy.budget
                        /\ IsInjective(s.run)
                        /\ Cardinality(passed) >= policy.passes
                        /\ Cardinality({Group[v] : v \in passed}) >= policy.groups
                        /\ policy.human => \E v \in passed : Human[v]
                        /\ policy.stop => \A v \in ActiveVerifiers :
                             outcome[v] = "FAIL" => \/ Cost[v] >= Cost[Last(s.run)]
                                                    \/ s.cost + Cost[v] > policy.budget
  BY DEF CascadeSound
<1> DEFINE n == Cardinality(ActiveVerifiers)
           s == Cascade(policy, outcome)
           passed == {v \in ActiveVerifiers \cap ToSet(s.run) : outcome[v] = "PASS"}
<1>1. s \in Standing(policy, outcome, n)
  BY CascadeStands
<1>2. /\ n \in Nat /\ Candidates \in [1 .. n -> ActiveVerifiers]
      /\ \A i, j \in 1 .. n : i < j => Cheaper(Candidates[i], Candidates[j])
      /\ \A v \in ActiveVerifiers : \E i \in 1 .. n : Candidates[i] = v
      /\ ActiveVerifiers \subseteq Verifiers
  BY CandidatesSorted DEF ActiveFinite
<1>3. s.reason = "SATISFIED"
  OBVIOUS
<1> HIDE DEF s
<1>4. /\ s.cost = CostOf(s.run) /\ s.cost <= policy.budget
      /\ \A i \in DOMAIN s.run : \E j \in 1 .. n : s.run[i] = Candidates[j]
      /\ \A i, j \in DOMAIN s.run : s.run[i] = s.run[j] => i = j
      /\ s.passed = {s.run[i] : i \in {i \in DOMAIN s.run : outcome[s.run[i]] = "PASS"}}
      /\ Meets(policy, s.passed)
  BY <1>1, <1>3 DEF Standing
<1>5. PICK m \in 1 .. n : /\ Last(s.run) = Candidates[m]
                          /\ FailuresTooDear(policy, outcome, s, m - 1)
  BY <1>1, <1>3 DEF Standing
<1>6. passed = s.passed
  BY <1>2, <1>4 DEF ToSet
<1>7. ASSUME policy.stop, NEW v \in ActiveVerifiers, outcome[v] = "FAIL"
      PROVE  Cost[v] >= Cost[Last(s.run)] \/ s.cost + Cost[v] > policy.budget
  <2>1. PICK j \in 1 .. n : Candidates[j] = v
    BY <1>2
  <2>2. CASE j < m
    <3>1. j \in 1 .. m - 1
      BY <1>2, <2>2
    <3> QED BY <1>5, <1>7, <2>1, <3>1 DEF FailuresTooDear
  <2>3. CASE j = m
    <3>1. Cost[v] \in Nat
      BY <1>2, CascadeConstants
    <3> QED BY <1>5, <2>1, <2>3, <3>1
  <2>4. CASE j > m
    <3>1. Cheaper(Candidates[m], v)
      BY <1>2, <2>1, <2>4
    <3>2. Candidates[m] \in Verifiers /\ v \in Verifiers
      BY <1>2
    <3>3. Cost[Candidates[m]] <= Cost[v] /\ Cost[v] \in Nat /\ Cost[Candidates[m]] \in Nat
      BY <3>1, <3>2, CheaperOrders, CascadeConstants
    <3> QED BY <1>5, <3>3
  <2> QED BY <1>2, <2>2, <2>3, <2>4
<1>8. IsInjective(s.run)
  BY <1>4 DEF IsInjective
<1> HIDE DEF passed
<1>9. /\ Cardinality(passed) >= policy.passes
      /\ Cardinality({Group[v] : v \in passed}) >= policy.groups
      /\ policy.human => \E v \in passed : Human[v]
  BY <1>4, <1>6 DEF Meets
<1> QED BY <1>4, <1>7, <1>8, <1>9 DEF s, passed

RegisteredFinite == IsFiniteSet(registered) /\ registered \subseteq Verifiers

\* A satisfied claim has been paid for within the budget, each verifier asked once;
\* it has been passed as the policy asks, by a person if it asks for one, and a
\* cheaper verifier that would fail it was not left out (VerifierCascade.run).
THEOREM SatisfiedClaimsAreSound == CascadeSpec => []CascadeSound
<1>1. CascadeInit => RegisteredFinite
  BY FS_EmptySet DEF CascadeInit, RegisteredFinite
<1>2. RegisteredFinite /\ [CascadeNext]_cascadeVars => RegisteredFinite'
  <2> SUFFICES ASSUME RegisteredFinite, [CascadeNext]_cascadeVars PROVE RegisteredFinite'
    OBVIOUS
  <2>1. ASSUME NEW v \in Verifiers, RegisterVerifier(v) PROVE RegisteredFinite'
    BY <2>1, FS_AddElement DEF RegisterVerifier, RegisteredFinite
  <2>2. ASSUME NEW v \in Verifiers, NEW off \in BOOLEAN, SetMuted(v, off) PROVE RegisteredFinite'
    BY <2>2 DEF SetMuted, RegisteredFinite
  <2>3. CASE UNCHANGED cascadeVars
    BY <2>3 DEF cascadeVars, RegisteredFinite
  <2> QED BY <2>1, <2>2, <2>3 DEF CascadeNext
<1>3. RegisteredFinite => CascadeSound
  <2>1. RegisteredFinite => ActiveFinite
    BY FS_Difference DEF RegisteredFinite, ActiveFinite, ActiveVerifiers
  <2> QED BY <2>1, SoundByStanding
<1> QED BY <1>1, <1>2, <1>3, PTL DEF CascadeSpec

----------------------------------------------------------------------------
(* Sums *)

AddStep(p, n, x) == n + x

Adding == INSTANCE FoldTheorems WITH Step <- AddStep

\* A total is a fold of the fold theorems.
LEMMA TotalIsRun == \A values : TotalOfAll(values) = Adding!Run({}, 0, values)
BY DEF TotalOfAll, AddStep, FoldLeft, MapThenFoldSet, Max,
       Adding!Run, Adding!FoldLeft, Adding!MapThenFoldSet, Adding!Max

LEMMA TotalOfNone == TotalOfAll(<<>>) = 0
BY TotalIsRun, Adding!RunEmpty

LEMMA TotalOfEmpty ==
  ASSUME NEW s \in Seq(Int), Len(s) = 0
  PROVE  TotalOfAll(s) = 0
<1>1. s = <<>>
  BY EmptySeq
<1> QED BY <1>1, TotalOfNone, Zenon

LEMMA TotalAppend ==
  ASSUME NEW v \in Seq(Int), NEW x
  PROVE  TotalOfAll(Append(v, x)) = TotalOfAll(v) + x
BY TotalIsRun, Adding!RunAppend DEF AddStep

\* The sums of the prefixes of v.
SumsOf(P, v) ==
  /\ P \in [0 .. Len(v) -> Int] /\ P[0] = 0
  /\ \A k \in 1 .. Len(v) : P[k] = P[k - 1] + v[k]

\* A sequence has prefix sums, and every segment totals their difference.
LEMMA PrefixSums ==
  ASSUME NEW v \in Seq(Int)
  PROVE  \E P : /\ SumsOf(P, v)
                /\ \A j \in 1 .. Len(v) + 1 : \A k \in j - 1 .. Len(v) :
                     TotalOfAll(SubSeq(v, j, k)) = P[k] - P[j - 1]
<1> DEFINE n == Len(v)
<1>0. n \in Nat /\ DOMAIN v = 1 .. n /\ \A i \in 1 .. n : v[i] \in Int
  OBVIOUS
<1>1. ASSUME NEW j \in 1 .. n + 1, NEW k \in j .. n
      PROVE  /\ SubSeq(v, j, k - 1) \in Seq(Int)
             /\ SubSeq(v, j, k) = Append(SubSeq(v, j, k - 1), v[k])
  <2>1. /\ SubSeq(v, j, k - 1) \in Seq(Int) /\ Len(SubSeq(v, j, k - 1)) = k - j
        /\ \A i \in 1 .. k - j : SubSeq(v, j, k - 1)[i] = v[j + i - 1]
    BY <1>0, SubSeqProperties
  <2>2. /\ SubSeq(v, j, k) \in Seq(Int) /\ Len(SubSeq(v, j, k)) = k - j + 1
        /\ \A i \in 1 .. k - j + 1 : SubSeq(v, j, k)[i] = v[j + i - 1]
    BY <1>0, SubSeqProperties
  <2> DEFINE a == SubSeq(v, j, k - 1)
             b == SubSeq(v, j, k)
             m == k - j
  <2>3. m \in Nat /\ j \in Nat /\ k \in Nat /\ j + (m + 1) - 1 = k
    BY <1>0
  <2> HIDE DEF a, b, m
  <2>4. /\ a \in Seq(Int) /\ Len(a) = m /\ \A i \in 1 .. m : a[i] = v[j + i - 1]
        /\ b \in Seq(Int) /\ Len(b) = m + 1 /\ \A i \in 1 .. m + 1 : b[i] = v[j + i - 1]
    BY <2>1, <2>2 DEF a, b, m
  <2>5. b[m + 1] = v[k]
    <3>1. m + 1 \in 1 .. m + 1
      BY <2>3
    <3>2. b[m + 1] = v[j + (m + 1) - 1]
      BY <2>4, <3>1
    <3> QED BY <2>3, <3>2
  <2>6. ASSUME NEW i \in 1 .. m PROVE b[i] = a[i]
    <3>1. i \in 1 .. m + 1
      BY <2>3
    <3>2. b[i] = v[j + i - 1] /\ a[i] = v[j + i - 1]
      BY <2>4, <3>1
    <3> QED BY <3>2
  <2>7. b = Append(a, v[k])
    BY <2>3, <2>4, <2>5, <2>6
  <2> QED BY <2>1, <2>7 DEF a, b
<1> DEFINE P == [k \in 0 .. n |-> TotalOfAll(SubSeq(v, 1, k))]
<1>2. ASSUME NEW j \in 1 .. n + 1 PROVE TotalOfAll(SubSeq(v, j, j - 1)) = 0
  <2>1. SubSeq(v, j, j - 1) \in Seq(Int) /\ Len(SubSeq(v, j, j - 1)) = 0
    BY <1>0, SubSeqProperties
  <2> QED BY <2>1, TotalOfEmpty
<1>3. P[0] = 0
  <2>1. 1 \in 1 .. n + 1 /\ 1 - 1 = 0 /\ 0 \in 0 .. n
    BY <1>0
  <2>2. TotalOfAll(SubSeq(v, 1, 1 - 1)) = 0
    BY <1>2, <2>1
  <2> QED BY <2>1, <2>2
<1>4. \A k \in 1 .. n : P[k] = P[k - 1] + v[k]
  <2> SUFFICES ASSUME NEW k \in 1 .. n PROVE P[k] = P[k - 1] + v[k]
    OBVIOUS
  <2>1. P[k] = TotalOfAll(SubSeq(v, 1, k)) /\ P[k - 1] = TotalOfAll(SubSeq(v, 1, k - 1))
    BY <1>0
  <2>2. SubSeq(v, 1, k - 1) \in Seq(Int) /\ SubSeq(v, 1, k) = Append(SubSeq(v, 1, k - 1), v[k])
    BY <1>0, <1>1
  <2> QED BY <2>1, <2>2, TotalAppend
<1>5. \A k \in 0 .. n : P[k] \in Int
  <2> DEFINE T == {k \in 0 .. n : P[k] \notin Int}
  <2> HIDE DEF P
  <2> SUFFICES ASSUME T # {} PROVE FALSE
    OBVIOUS
  <2>1. PICK k \in T : \A j \in T : k <= j
    <3>1. T \in SUBSET Nat
      BY <1>0
    <3> HIDE DEF T
    <3> QED BY <3>1, Adding!LeastExists
  <2>2. k \in 1 .. n /\ k - 1 \notin T /\ k - 1 \in 0 .. n
    BY <1>0, <1>3, <2>1
  <2> QED BY <1>0, <1>4, <2>1, <2>2
<1>6. SumsOf(P, v)
  <2>1. P \in [0 .. n -> Int]
    <3>1. P = [k \in 0 .. n |-> P[k]]
      OBVIOUS
    <3> HIDE DEF P
    <3> QED BY <1>5, <3>1
  <2> HIDE DEF P
  <2> QED BY <1>3, <1>4, <2>1 DEF SumsOf
<1> HIDE DEF P
<1>7. ASSUME NEW j \in 1 .. n + 1
      PROVE  \A k \in j - 1 .. n : TotalOfAll(SubSeq(v, j, k)) = P[k] - P[j - 1]
  <2> DEFINE Good(k) == TotalOfAll(SubSeq(v, j, k)) = P[k] - P[j - 1]
             T == {k \in j - 1 .. n : ~Good(k)}
  <2> SUFFICES ASSUME T # {} PROVE FALSE
    OBVIOUS
  <2>1. PICK k \in T : \A i \in T : k <= i
    <3>1. T \in SUBSET Nat
      BY <1>0
    <3> HIDE DEF T
    <3> QED BY <3>1, Adding!LeastExists
  <2>2. Good(j - 1)
    <3>1. P[j - 1] \in Int
      BY <1>0, <1>5
    <3> QED BY <1>2, <3>1
  <2>3. k \in j - 1 .. n /\ ~Good(k)
    OBVIOUS
  <2>4. k \in j .. n /\ k - 1 \in j - 1 .. n
    <3> HIDE DEF Good
    <3>1. k # j - 1
      BY <2>2, <2>3
    <3> QED BY <1>0, <2>3, <3>1
  <2>5. Good(k - 1)
    <3>1. k - 1 \notin T
      <4> HIDE DEF T
      <4> QED BY <1>0, <2>1, <2>4
    <3> QED BY <2>4, <3>1
  <2>6. TotalOfAll(SubSeq(v, j, k)) = TotalOfAll(SubSeq(v, j, k - 1)) + v[k]
    BY <1>1, <2>4, TotalAppend
  <2>7. P[k] = P[k - 1] + v[k] /\ P[k - 1] \in Int /\ P[j - 1] \in Int /\ v[k] \in Int
    BY <1>0, <1>4, <1>5, <2>4
  <2>8. Good(k)
    BY <2>5, <2>6, <2>7
  <2> QED BY <2>3, <2>8
<1> QED BY <1>6, <1>7

----------------------------------------------------------------------------
(* Fractions *)

\* Products of integers, and what multiplying by a natural preserves.
LEMMA TimesKeeps ==
  ASSUME NEW a \in Int, NEW b \in Int, NEW c \in Nat, a <= b
  PROVE  a * c <= b * c /\ c * a <= c * b
OBVIOUS

LEMMA TimesCancels ==
  ASSUME NEW a \in Int, NEW b \in Int, NEW c \in Nat \ {0}, a * c <= b * c
  PROVE  a <= b
OBVIOUS

\* x/c is at most y/d and y/d at most z/e.
LEMMA FractionsTransitive ==
  ASSUME NEW x \in Int, NEW y \in Int, NEW z \in Int,
         NEW c \in Nat \ {0}, NEW d \in Nat \ {0}, NEW e \in Nat \ {0},
         x * d <= y * c, y * e <= z * d
  PROVE  x * e <= z * c
<1>1. (x * d) * e <= (y * c) * e /\ (y * e) * c <= (z * d) * c
  BY TimesKeeps
<1>2. (x * d) * e = (x * e) * d /\ (y * c) * e = (y * e) * c /\ (z * d) * c = (z * c) * d
  OBVIOUS
<1>3. (x * e) * d <= (z * c) * d
  BY <1>1, <1>2
<1> QED BY <1>3, TimesCancels

\* Right of a merge.
LEMMA MergeRight ==
  ASSUME NEW c \in Nat \ {0}, NEW d \in Nat \ {0}, NEW x \in Int, NEW y \in Int,
         NEW v \in Int, NEW u \in Nat, d * v >= -(y * u), x * d > y * c
  PROVE  (c + d) * v >= -((x + y) * u)
<1> DEFINE w == (c + d) * v + (x + y) * u
<1>1. w * d = (c + d) * (d * v) + ((x + y) * d) * u
  OBVIOUS
<1>2. (c + d) * (d * v) >= (c + d) * (-(y * u))
  BY TimesKeeps
<1>3. ((x + y) * d) * u >= (y * (c + d)) * u
  <2>1. (x + y) * d >= y * (c + d)
    OBVIOUS
  <2> QED BY <2>1, TimesKeeps
<1>4. (c + d) * (-(y * u)) + (y * (c + d)) * u = 0
  OBVIOUS
<1>5. w * d >= 0 * d
  BY <1>1, <1>2, <1>3, <1>4
<1>6. w >= 0
  BY <1>5, TimesCancels
<1> QED BY <1>6

\* Left of a merge.
LEMMA MergeLeft ==
  ASSUME NEW c \in Nat \ {0}, NEW d \in Nat \ {0}, NEW x \in Int, NEW y \in Int,
         NEW v \in Int, NEW u \in Nat, u <= c, c * v >= -(x * u), x * d > y * c
  PROVE  (c + d) * (v - y) >= -((x + y) * (u + d))
<1> DEFINE w == (c + d) * (v - y) + (x + y) * (u + d)
           g == x * d - y * c
<1>1. w = (c + d) * v + (x + y) * u + g
  OBVIOUS
<1>2. w * c = (c + d) * (c * v) + ((x + y) * u) * c + g * c
  BY <1>1
<1>3. (c + d) * (c * v) >= (c + d) * (-(x * u))
  BY TimesKeeps
<1>4. (c + d) * (-(x * u)) + ((x + y) * u) * c + g * c = g * (c - u)
  OBVIOUS
<1>5. g * (c - u) >= 0
  <2>1. g \in Nat /\ c - u \in Nat
    OBVIOUS
  <2> QED BY <2>1
<1>6. w * c >= 0 * c
  BY <1>2, <1>3, <1>4, <1>5
<1>7. w >= 0
  BY <1>6, TimesCancels
<1> QED BY <1>7
----------------------------------------------------------------------------
(* Isotonic fit: pooling *)

Blocks == [last : Nat, sum : Int, count : Nat]

\* Where the block before block b ends.
Low(blocks, b) == IF b = 1 THEN 0 ELSE blocks[b - 1].last

\* A block after position lo: its chord lies on or below the sums of the
\* prefixes P along it.
Chord(P, lo, x) ==
  /\ x \in Blocks /\ lo < x.last /\ x.count = x.last - lo
  /\ x.last \in DOMAIN P /\ x.sum = P[x.last] - P[lo]
  /\ \A t \in lo .. x.last : x.count * (P[t] - P[x.last]) >= x.sum * (t - x.last)

\* The blocks divide the observations, in order.
Divides(P, n, blocks) ==
  /\ blocks \in Seq(Blocks) /\ Len(blocks) \in 1 .. n
  /\ blocks[Len(blocks)].last = n
  /\ \A b \in 1 .. Len(blocks) : Low(blocks, b) \in Nat /\ Chord(P, Low(blocks, b), blocks[b])

\* Over three positions with sums p, q and r, of which the first two are a steeper
\* chord than the last two: what is above both chords is above the chord of all.
LEMMA ChordOfTwo ==
  ASSUME NEW i \in Int, NEW k \in Int, NEW l \in Int, i < k, k < l,
         NEW p \in Int, NEW q \in Int, NEW r \in Int, (q - p) * (l - k) > (r - q) * (k - i),
         NEW t \in i .. l, NEW w \in Int,
         t >= k => (l - k) * (w - r) >= (r - q) * (t - l),
         t <= k => (k - i) * (w - q) >= (q - p) * (t - k)
  PROVE  ((k - i) + (l - k)) * (w - r) >= ((q - p) + (r - q)) * (t - l)
<1> DEFINE c == k - i
           d == l - k
           x == q - p
           y == r - q
<1>1. c \in Nat \ {0} /\ d \in Nat \ {0} /\ x \in Int /\ y \in Int /\ x * d > y * c
  OBVIOUS
<1>2. CASE t >= k
  <2> DEFINE v == w - r
             u == l - t
  <2>1. d * v >= y * (t - l)
    BY <1>2
  <2>2. v \in Int /\ u \in Nat /\ t - l = -u
    OBVIOUS
  <2> HIDE DEF c, d, x, y, v, u
  <2>3. d * v >= -(y * u)
    BY <1>1, <2>1, <2>2
  <2>4. (c + d) * v >= -((x + y) * u)
    BY <1>1, <2>2, <2>3, MergeRight
  <2>5. (c + d) * v >= (x + y) * (t - l)
    BY <1>1, <2>2, <2>4
  <2> QED BY <2>5 DEF c, d, x, y, v
<1>3. CASE t < k
  <2> DEFINE v == w - q
             u == k - t
  <2>1. c * v >= x * (t - k)
    BY <1>3
  <2>2. v \in Int /\ u \in Nat /\ u <= c /\ t - k = -u /\ t - l = -(u + d) /\ v - y = w - r
    BY <1>3
  <2> HIDE DEF c, d, x, y, v, u
  <2>3. c * v >= -(x * u)
    BY <1>1, <2>1, <2>2
  <2>4. (c + d) * (v - y) >= -((x + y) * (u + d))
    BY <1>1, <2>2, <2>3, MergeLeft
  <2>5. (c + d) * (v - y) >= (x + y) * (t - l)
    BY <1>1, <2>2, <2>4
  <2>6. (c + d) * (w - r) >= (x + y) * (t - l)
    BY <2>2, <2>5
  <2> QED BY <2>6 DEF c, d, x, y
<1> QED BY <1>2, <1>3

\* Pooling two neighbours of which the first has the higher mean.
LEMMA MergedChord ==
  ASSUME NEW n \in Nat, NEW P \in [0 .. n -> Int], NEW lo \in Nat, NEW x, NEW y,
         Chord(P, lo, x), Chord(P, x.last, y), Above(x, y)
  PROVE  Chord(P, lo, Merged(x, y)) /\ Merged(x, y).last = y.last
<1>1. PICK k \in Nat : k = x.last
  BY DEF Chord, Blocks
<1>2. PICK l \in Nat : l = y.last
  BY DEF Chord, Blocks
<1>3. lo < k /\ k < l /\ k \in 0 .. n /\ l \in 0 .. n /\ lo \in 0 .. n
  <2>1. lo < k /\ k \in 0 .. n
    BY <1>1 DEF Chord
  <2>2. k < l /\ l \in 0 .. n
    BY <1>1, <1>2 DEF Chord
  <2> QED BY <2>1, <2>2
<1>4. PICK p \in Int, q \in Int, r \in Int : p = P[lo] /\ q = P[k] /\ r = P[l]
  BY <1>3
<1>5. /\ x \in Blocks /\ x.count = k - lo /\ x.sum = q - p
      /\ \A t \in lo .. k : (k - lo) * (P[t] - q) >= (q - p) * (t - k)
  BY <1>1, <1>4 DEF Chord
<1>6. /\ y \in Blocks /\ y.count = l - k /\ y.sum = r - q
      /\ \A t \in k .. l : (l - k) * (P[t] - r) >= (r - q) * (t - l)
  BY <1>1, <1>2, <1>4 DEF Chord
<1>7. (q - p) * (l - k) > (r - q) * (k - lo)
  BY <1>5, <1>6 DEF Above
<1> DEFINE c == (k - lo) + (l - k)
           s == (q - p) + (r - q)
           m == Merged(x, y)
<1>8. m = [last |-> l, sum |-> s, count |-> c]
  BY <1>2, <1>5, <1>6 DEF Merged
<1>9. c = l - lo /\ s = r - p /\ c \in Nat /\ s \in Int /\ lo < l
  BY <1>3
<1>10. ASSUME NEW t \in lo .. l PROVE c * (P[t] - r) >= s * (t - l)
  <2>1. t \in 0 .. n
    BY <1>3
  <2>2. PICK w \in Int : w = P[t]
    BY <2>1
  <2>3. t >= k => (l - k) * (w - r) >= (r - q) * (t - l)
    BY <1>3, <1>6, <2>1, <2>2
  <2>4. t <= k => (k - lo) * (w - q) >= (q - p) * (t - k)
    BY <1>3, <1>5, <2>1, <2>2
  <2>5. lo \in Int /\ k \in Int /\ l \in Int
    OBVIOUS
  <2>6. c * (w - r) >= s * (t - l)
    BY <1>3, <1>7, <2>3, <2>4, <2>5, ChordOfTwo, Zenon
  <2> QED BY <2>2, <2>6
<1> HIDE DEF c, s, m
<1>11. m \in Blocks /\ m.last = l /\ m.sum = s /\ m.count = c
  BY <1>8, <1>9 DEF Blocks
<1> QED BY <1>2, <1>3, <1>4, <1>9, <1>10, <1>11 DEF Chord, m

\* What replacing neighbours a and a + 1 by m makes of the blocks.
Replaced(blocks, a, m) ==
  SubSeq(blocks, 1, a - 1) \o <<m>> \o SubSeq(blocks, a + 2, Len(blocks))

LEMMA ReplacedIs ==
  ASSUME NEW B \in Seq(Blocks), NEW a \in 1 .. Len(B) - 1, NEW m \in Blocks
  PROVE  LET q == Replaced(B, a, m)
         IN  /\ q \in Seq(Blocks) /\ Len(q) = Len(B) - 1 /\ q[a] = m
             /\ \A b \in 1 .. a - 1 : q[b] = B[b]
             /\ \A b \in a + 1 .. Len(B) - 1 : q[b] = B[b + 1]
<1> DEFINE L == Len(B)
           l == SubSeq(B, 1, a - 1)
           r == SubSeq(B, a + 2, L)
           h == l \o <<m>>
           q == h \o r
<1>1. L \in Nat /\ a \in Nat /\ a + 1 <= L /\ a >= 1
  OBVIOUS
<1>2. l \in Seq(Blocks) /\ Len(l) = a - 1 /\ \A i \in 1 .. a - 1 : l[i] = B[i]
  <2>1. l \in Seq(Blocks) /\ Len(l) = a - 1 /\ \A i \in 1 .. a - 1 : l[i] = B[1 + i - 1]
    BY <1>1, SubSeqProperties
  <2> QED BY <1>1, <2>1
<1>3. r \in Seq(Blocks) /\ Len(r) = L - a - 1 /\ \A i \in 1 .. L - a - 1 : r[i] = B[a + 2 + i - 1]
  BY <1>1, SubSeqProperties
<1>4. <<m>> \in Seq(Blocks) /\ Len(<<m>>) = 1 /\ <<m>>[1] = m
  OBVIOUS
<1> HIDE DEF l, r
<1>5. h \in Seq(Blocks) /\ Len(h) = a /\ h[a] = m /\ \A i \in 1 .. a - 1 : h[i] = B[i]
  <2>1. /\ h \in Seq(Blocks) /\ Len(h) = Len(l) + 1
        /\ \A i \in 1 .. Len(l) + 1 : h[i] = IF i <= Len(l) THEN l[i] ELSE <<m>>[i - Len(l)]
    BY <1>2, <1>4, ConcatProperties
  <2>2. h[a] = m
    BY <1>1, <1>2, <1>4, <2>1
  <2>3. ASSUME NEW i \in 1 .. a - 1 PROVE h[i] = B[i]
    BY <1>1, <1>2, <2>1
  <2> QED BY <1>1, <1>2, <2>1, <2>2, <2>3
<1> HIDE DEF h
<1>6. /\ q \in Seq(Blocks) /\ Len(q) = L - 1
      /\ \A i \in 1 .. L - 1 : q[i] = IF i <= a THEN h[i] ELSE r[i - a]
  <2>1. /\ q \in Seq(Blocks) /\ Len(q) = Len(h) + Len(r)
        /\ \A i \in 1 .. Len(h) + Len(r) : q[i] = IF i <= Len(h) THEN h[i] ELSE r[i - Len(h)]
    BY <1>3, <1>5, ConcatProperties
  <2>2. Len(h) + Len(r) = L - 1
    BY <1>1, <1>3, <1>5
  <2> QED BY <1>5, <2>1, <2>2
<1> HIDE DEF q
<1>7. q[a] = m /\ \A b \in 1 .. a - 1 : q[b] = B[b]
  BY <1>1, <1>5, <1>6
<1>8. ASSUME NEW b \in a + 1 .. L - 1 PROVE q[b] = B[b + 1]
  <2>1. q[b] = r[b - a] /\ b - a \in 1 .. L - a - 1 /\ a + 2 + (b - a) - 1 = b + 1
    BY <1>1, <1>6
  <2>2. r[b - a] = B[a + 2 + (b - a) - 1]
    BY <1>3, <2>1
  <2> QED BY <2>1, <2>2
<1> QED BY <1>6, <1>7, <1>8 DEF Replaced, q, h, l, r

\* After k turns of the loop over n observations: the blocks divide them, those
\* before the one looked at increase, and the loop has ended or is that much nearer
\* to its end.
AfterTurns(P, n, k) ==
  {r \in [at : Nat, blocks : Seq(Blocks)] :
     /\ Divides(P, n, r.blocks)
     /\ r.at \in 1 .. Len(r.blocks)
     /\ \A b \in 1 .. r.at - 1 : ~Above(r.blocks[b], r.blocks[b + 1])
     /\ r.at >= Len(r.blocks) \/ 2 * Len(r.blocks) - r.at + k <= 2 * n - 1}

\* A pooling divides the observations again.
LEMMA ReplacedDivides ==
  ASSUME NEW n \in Nat, NEW P \in [0 .. n -> Int], NEW B, Divides(P, n, B),
         NEW a \in 1 .. Len(B) - 1, Above(B[a], B[a + 1])
  PROVE  LET q == Replaced(B, a, Merged(B[a], B[a + 1]))
         IN  /\ Divides(P, n, q) /\ Len(q) = Len(B) - 1
             /\ \A b \in 1 .. a - 1 : q[b] = B[b]
<1> DEFINE L == Len(B)
           m == Merged(B[a], B[a + 1])
           q == Replaced(B, a, m)
<1>1. /\ B \in Seq(Blocks) /\ L \in 1 .. n /\ B[L].last = n
      /\ \A b \in 1 .. L : Low(B, b) \in Nat /\ Chord(P, Low(B, b), B[b])
  BY DEF Divides
<1>2. a \in 1 .. L /\ a + 1 \in 1 .. L /\ Low(B, a + 1) = B[a].last
  BY <1>1 DEF Low
<1>3. Chord(P, Low(B, a), m) /\ m.last = B[a + 1].last
  <2>1. Low(B, a) \in Nat /\ Chord(P, Low(B, a), B[a])
    BY <1>1, <1>2
  <2>2. Chord(P, Low(B, a + 1), B[a + 1])
    BY <1>1, <1>2
  <2>3. Chord(P, B[a].last, B[a + 1])
    BY <1>2, <2>2
  <2> QED BY <2>1, <2>3, MergedChord
<1>4. m \in Blocks
  BY <1>3 DEF Chord
<1> HIDE DEF m
<1>5. /\ q \in Seq(Blocks) /\ Len(q) = L - 1 /\ q[a] = m
      /\ \A b \in 1 .. a - 1 : q[b] = B[b]
      /\ \A b \in a + 1 .. L - 1 : q[b] = B[b + 1]
  BY <1>1, <1>4, ReplacedIs
<1> HIDE DEF q
<1>6. ASSUME NEW b \in 1 .. a PROVE Low(q, b) = Low(B, b)
  <2>1. CASE b = 1
    BY <2>1 DEF Low
  <2>2. CASE b # 1
    <3>1. b - 1 \in 1 .. a - 1
      BY <2>2
    <3>2. q[b - 1] = B[b - 1]
      BY <1>5, <3>1
    <3> QED BY <2>2, <3>2 DEF Low
  <2> QED BY <2>1, <2>2
<1>7. ASSUME NEW b \in a + 1 .. L - 1 PROVE Low(q, b) = Low(B, b + 1)
  <2>0. Low(q, b) = q[b - 1].last /\ Low(B, b + 1) = B[b].last
    BY <1>1 DEF Low
  <2>1. CASE b = a + 1
    <3>1. b - 1 = a
      BY <2>1
    <3> QED BY <1>3, <1>5, <2>0, <2>1, <3>1
  <2>2. CASE b # a + 1
    <3>1. b - 1 \in a + 1 .. L - 1 /\ (b - 1) + 1 = b
      BY <1>1, <2>2
    <3>2. q[b - 1] = B[b]
      BY <1>5, <3>1
    <3> QED BY <2>0, <3>2
  <2> QED BY <2>1, <2>2
<1>8. ASSUME NEW b \in 1 .. L - 1 PROVE Low(q, b) \in Nat /\ Chord(P, Low(q, b), q[b])
  <2>1. CASE b < a
    <3>1. b \in 1 .. a - 1 /\ b \in 1 .. a /\ b \in 1 .. L
      BY <1>1, <2>1
    <3> QED BY <1>1, <1>5, <1>6, <3>1
  <2>2. CASE b = a
    <3>1. b \in 1 .. a
      BY <2>2
    <3> QED BY <1>1, <1>2, <1>3, <1>5, <1>6, <2>2, <3>1
  <2>3. CASE b > a
    <3>1. b \in a + 1 .. L - 1 /\ b + 1 \in 1 .. L
      BY <1>1, <2>3
    <3> QED BY <1>1, <1>5, <1>7, <3>1
  <2> QED BY <2>1, <2>2, <2>3
<1>9. q[L - 1].last = n
  <2>1. CASE a = L - 1
    <3>1. a + 1 = L
      BY <1>1, <2>1
    <3> QED BY <1>1, <1>3, <1>5, <2>1, <3>1
  <2>2. CASE a # L - 1
    <3>1. L - 1 \in a + 1 .. L - 1 /\ (L - 1) + 1 = L
      BY <1>1, <2>2
    <3>2. q[L - 1] = B[L]
      BY <1>5, <3>1
    <3> QED BY <1>1, <3>2
  <2> QED BY <2>1, <2>2
<1>10. L - 1 \in 1 .. n
  BY <1>1
<1>11. Divides(P, n, q)
  BY <1>5, <1>8, <1>9, <1>10 DEF Divides
<1> QED BY <1>5, <1>11 DEF q, m

\* A turn brings the loop nearer to its end.
LEMMA TurnKeeps ==
  ASSUME NEW n \in Nat, NEW P \in [0 .. n -> Int], NEW k \in Nat \ {0},
         NEW r \in AfterTurns(P, n, k - 1)
  PROVE  PoolTurn(r) \in AfterTurns(P, n, k)
<1> DEFINE a == r.at
           B == r.blocks
           L == Len(B)
<1>1. /\ r \in [at : Nat, blocks : Seq(Blocks)] /\ B \in Seq(Blocks) /\ L \in Nat /\ a \in Nat
      /\ Divides(P, n, B) /\ a \in 1 .. L
      /\ \A b \in 1 .. a - 1 : ~Above(B[b], B[b + 1])
      /\ a >= L \/ 2 * L - a + (k - 1) <= 2 * n - 1
  BY DEF AfterTurns
<1>2. CASE a >= L
  <2>1. PoolTurn(r) = r
    BY <1>2 DEF PoolTurn
  <2> QED BY <1>1, <1>2, <2>1 DEF AfterTurns
<1>3. CASE ~(a >= L) /\ Above(B[a], B[a + 1])
  <2> DEFINE q == Replaced(B, a, Merged(B[a], B[a + 1]))
             s == StepBack(a)
             z == [at |-> s, blocks |-> q]
  <2>1. PoolTurn(r) = z
    BY <1>3 DEF PoolTurn, Replaced
  <2>2. a \in 1 .. L - 1
    BY <1>1, <1>3
  <2>3. Divides(P, n, q) /\ Len(q) = L - 1 /\ \A b \in 1 .. a - 1 : q[b] = B[b]
    <3> HIDE DEF a, B
    <3>1. Divides(P, n, B) /\ a \in 1 .. Len(B) - 1 /\ Above(B[a], B[a + 1])
      BY <1>1, <1>3, <2>2
    <3> QED BY <3>1, ReplacedDivides
  <2> HIDE DEF q, a, B, L
  <2>4. s \in 1 .. L - 1 /\ s \in Nat /\ s <= a /\ (s = a => a = 1) /\ s >= a - 1
    BY <1>1, <2>2 DEF StepBack
  <2>5. \A b \in 1 .. s - 1 : ~Above(q[b], q[b + 1])
    <3> SUFFICES ASSUME NEW b \in 1 .. s - 1 PROVE ~Above(q[b], q[b + 1])
      OBVIOUS
    <3>1. b \in 1 .. a - 1 /\ b + 1 \in 1 .. a - 1
      BY <1>1, <2>2, <2>4
    <3> QED BY <1>1, <2>3, <3>1
  <2>6. 2 * (L - 1) - s + k <= 2 * n - 1
    BY <1>1, <1>3, <2>2, <2>4
  <2>7. q \in Seq(Blocks)
    BY <2>3 DEF Divides
  <2> HIDE DEF s
  <2>8. z.at = s /\ z.blocks = q /\ z \in [at : Nat, blocks : Seq(Blocks)]
    BY <2>4, <2>7
  <2> HIDE DEF z
  <2>9. z \in AfterTurns(P, n, k)
    BY <2>3, <2>4, <2>5, <2>6, <2>8 DEF AfterTurns
  <2> QED BY <2>1, <2>9
<1>4. CASE ~(a >= L) /\ ~Above(B[a], B[a + 1])
  <2> DEFINE c == a + 1
             z == [r EXCEPT !.at = c]
  <2>1. PoolTurn(r) = z
    BY <1>4 DEF PoolTurn
  <2>2. z.at = a + 1 /\ z.blocks = B /\ z \in [at : Nat, blocks : Seq(Blocks)]
    <3>1. c \in Nat
      BY <1>1
    <3> HIDE DEF c
    <3>2. z.at = c /\ z.blocks = B /\ z \in [at : Nat, blocks : Seq(Blocks)]
      BY <1>1, <3>1
    <3> QED BY <3>2 DEF c
  <2> HIDE DEF z, a, B, L
  <2>3. \A b \in 1 .. (a + 1) - 1 : ~Above(B[b], B[b + 1])
    <3> SUFFICES ASSUME NEW b \in 1 .. a PROVE ~Above(B[b], B[b + 1])
      BY <1>1
    <3>1. b = a \/ b \in 1 .. a - 1
      BY <1>1
    <3> QED BY <1>1, <1>4, <3>1
  <2>4. a + 1 \in 1 .. L /\ (a + 1 >= L \/ 2 * L - (a + 1) + k <= 2 * n - 1)
    BY <1>1, <1>4
  <2>5. z \in AfterTurns(P, n, k)
    BY <1>1, <2>2, <2>3, <2>4 DEF AfterTurns, L
  <2> QED BY <2>1, <2>5
<1> QED BY <1>2, <1>3, <1>4

TurnStep(p, r, turn) == PoolTurn(r)

Pooling == INSTANCE FoldTheorems WITH Step <- TurnStep

\* The loop is a fold of the fold theorems.
LEMMA PooledIsRun ==
  \A start : Pooled(start) = Pooling!Run({}, [at |-> 1, blocks |-> start],
                                         [turn \in 1 .. 2 * Len(start) |-> turn]).blocks
BY DEF Pooled, TurnStep, FoldLeft, MapThenFoldSet, Max,
       Pooling!Run, Pooling!FoldLeft, Pooling!MapThenFoldSet, Pooling!Max

Pairs == [score : 0 .. Scale, label : {0, 1}]

\* What the labels of the observations sum to.
LEMMA LabelsAre ==
  ASSUME NEW s \in Seq(Pairs)
  PROVE  /\ Labels(s) \in Seq(Int) /\ Len(Labels(s)) = Len(s)
         /\ \A i \in 1 .. Len(s) : Labels(s)[i] = s[i].label /\ s[i].label \in Int
<1>1. Len(s) \in Nat /\ DOMAIN s = 1 .. Len(s)
  OBVIOUS
<1>2. ASSUME NEW i \in 1 .. Len(s) PROVE s[i].label \in Int
  <2>1. s[i] \in Pairs
    OBVIOUS
  <2> QED BY <2>1 DEF Pairs
<1>3. Labels(s) = [i \in 1 .. Len(s) |-> s[i].label]
  BY <1>1 DEF Labels
<1> QED BY <1>1, <1>2, <1>3

\* One block for each observation, before the loop.
LEMMA StartIs ==
  ASSUME outcomes \in Seq(Pairs), outcomes # <<>>, NEW P, SumsOf(P, Labels(outcomes))
  PROVE  LET start == [i \in DOMAIN outcomes |-> [last |-> i, sum |-> outcomes[i].label, count |-> 1]]
         IN  /\ Len(start) = Len(outcomes)
             /\ [at |-> 1, blocks |-> start] \in AfterTurns(P, Len(outcomes), 0)
<1> DEFINE start == [i \in DOMAIN outcomes |-> [last |-> i, sum |-> outcomes[i].label, count |-> 1]]
           n == Len(outcomes)
           z == [at |-> 1, blocks |-> start]
<1>1. n \in Nat \ {0} /\ DOMAIN outcomes = 1 .. n
  BY EmptySeq
<1>2. /\ P \in [0 .. n -> Int] /\ P[0] = 0
      /\ \A k \in 1 .. n : P[k] = P[k - 1] + outcomes[k].label /\ outcomes[k].label \in Int
  <2>1. Len(Labels(outcomes)) = n
    BY LabelsAre
  <2> QED BY <2>1, LabelsAre DEF SumsOf
<1>3. /\ \A i \in 1 .. n : /\ start[i] \in Blocks /\ start[i].last = i /\ start[i].count = 1
                           /\ start[i].sum = outcomes[i].label
      /\ start \in Seq(Blocks) /\ Len(start) = n
  <2>1. start = [i \in 1 .. n |-> [last |-> i, sum |-> outcomes[i].label, count |-> 1]]
    BY <1>1
  <2>2. \A i \in 1 .. n : [last |-> i, sum |-> outcomes[i].label, count |-> 1] \in Blocks
    BY <1>1, <1>2 DEF Blocks
  <2>3. \A i \in 1 .. n : start[i] \in Blocks /\ start[i].last = i /\ start[i].count = 1
                          /\ start[i].sum = outcomes[i].label
    BY <2>1, <2>2
  <2> QED BY <1>1, <2>1, <2>2, <2>3
<1> HIDE DEF start
<1>4. ASSUME NEW b \in 1 .. n PROVE Low(start, b) = b - 1
  <2>1. CASE b = 1
    BY <2>1 DEF Low
  <2>2. CASE b # 1
    <3>1. b - 1 \in 1 .. n
      BY <1>1, <2>2
    <3> QED BY <1>3, <2>2, <3>1 DEF Low
  <2> QED BY <2>1, <2>2
<1>5. ASSUME NEW b \in 1 .. n PROVE Low(start, b) \in Nat /\ Chord(P, Low(start, b), start[b])
  <2>1. PICK p \in Int, q \in Int : p = P[b - 1] /\ q = P[b]
    <3>1. b - 1 \in 0 .. n /\ b \in 0 .. n
      BY <1>1
    <3> QED BY <1>2, <3>1
  <2>2. start[b].sum = q - p /\ start[b].count = 1 /\ start[b].last = b /\ start[b] \in Blocks
    <3>1. q = p + outcomes[b].label /\ outcomes[b].label \in Int
      BY <1>2, <2>1
    <3> QED BY <1>3, <3>1
  <2>3. \A t \in b - 1 .. b : start[b].count * (P[t] - P[b]) >= start[b].sum * (t - b)
    <3> SUFFICES ASSUME NEW t \in b - 1 .. b PROVE 1 * (P[t] - q) >= (q - p) * (t - b)
      BY <2>1, <2>2
    <3>1. CASE t = b
      BY <2>1, <3>1
    <3>2. CASE t = b - 1
      BY <2>1, <3>2
    <3> QED BY <1>1, <3>1, <3>2
  <2>4. Low(start, b) = b - 1 /\ b - 1 \in Nat /\ b \in DOMAIN P
    BY <1>1, <1>2, <1>4
  <2> QED BY <2>1, <2>2, <2>3, <2>4 DEF Chord
<1>6. Divides(P, n, start)
  BY <1>1, <1>3, <1>5 DEF Divides
<1>7. z.at = 1 /\ z.blocks = start /\ z \in [at : Nat, blocks : Seq(Blocks)]
  BY <1>3
<1> HIDE DEF z
<1>8. z \in AfterTurns(P, n, 0)
  BY <1>1, <1>3, <1>6, <1>7 DEF AfterTurns
<1> QED BY <1>3, <1>8 DEF z, start

\* fit_isotonic: the loop ends, with blocks that increase.
LEMMA IsotonicIs ==
  ASSUME outcomes \in Seq(Pairs), outcomes # <<>>, NEW P, SumsOf(P, Labels(outcomes))
  PROVE  /\ Divides(P, Len(outcomes), Isotonic)
         /\ \A b \in 1 .. Len(Isotonic) - 1 : ~Above(Isotonic[b], Isotonic[b + 1])
<1> DEFINE start == [i \in DOMAIN outcomes |-> [last |-> i, sum |-> outcomes[i].label, count |-> 1]]
           n == Len(outcomes)
           turns == [turn \in 1 .. 2 * Len(start) |-> turn]
           z == [at |-> 1, blocks |-> start]
           A == [k \in Nat |-> AfterTurns(P, n, k)]
           r == Pooling!Run({}, z, turns)
<1>1. Len(start) = n /\ z \in AfterTurns(P, n, 0)
  BY StartIs
<1>2. n \in Nat \ {0} /\ P \in [0 .. n -> Int]
  <2>1. Len(Labels(outcomes)) = n
    BY LabelsAre
  <2> QED BY <2>1, EmptySeq DEF SumsOf
<1>3. Isotonic = r.blocks
  BY PooledIsRun DEF Isotonic
<1> HIDE DEF start, z
<1>4. turns \in Seq(Nat) /\ Len(turns) = 2 * n
  <2>1. 2 * Len(start) \in Nat
    BY <1>1, <1>2
  <2> QED BY <1>1, <2>1
<1> HIDE DEF turns
<1>5. z \in A[0]
  BY <1>1
<1>6. \A k \in 1 .. Len(turns) : \A a \in A[k - 1] : TurnStep({}, a, turns[k]) \in A[k]
  <2> SUFFICES ASSUME NEW k \in 1 .. Len(turns), NEW a \in A[k - 1] PROVE PoolTurn(a) \in A[k]
    BY DEF TurnStep
  <2>1. k \in Nat \ {0} /\ k - 1 \in Nat
    BY <1>2, <1>4
  <2>2. a \in AfterTurns(P, n, k - 1)
    BY <2>1
  <2>3. PoolTurn(a) \in AfterTurns(P, n, k)
    BY <1>2, <2>1, <2>2, TurnKeeps
  <2> QED BY <2>1, <2>3
<1> HIDE DEF A
<1>7. r \in A[Len(turns)]
  BY <1>4, <1>5, <1>6, Pooling!RunAdvances
<1> HIDE DEF r
<1>8. r \in AfterTurns(P, n, 2 * n)
  BY <1>2, <1>4, <1>7 DEF A
<1> DEFINE B == r.blocks
<1>9. /\ Divides(P, n, B) /\ r.at \in 1 .. Len(B)
      /\ \A b \in 1 .. r.at - 1 : ~Above(B[b], B[b + 1])
      /\ r.at >= Len(B) \/ 2 * Len(B) - r.at + 2 * n <= 2 * n - 1
  BY <1>8 DEF AfterTurns
<1>10. Len(B) \in Nat
  BY <1>9, <1>2 DEF Divides
<1> HIDE DEF B
<1>11. r.at = Len(B)
  BY <1>2, <1>9, <1>10
<1>12. \A b \in 1 .. Len(B) - 1 : ~Above(B[b], B[b + 1])
  BY <1>9, <1>11
<1> QED BY <1>3, <1>9, <1>12 DEF B

----------------------------------------------------------------------------
(* Isotonic fit: the best one *)

\* What a sum and a count stand for is a fraction.
Fraction(x) == x.sum \in Int /\ x.count \in Nat \ {0}

\* Two fractions are comparable.
LEMMA AboveTotal ==
  ASSUME NEW x, NEW y, Fraction(x), Fraction(y)
  PROVE  ~Above(x, y) \/ ~Above(y, x)
<1>1. PICK s \in Int, t \in Int, c \in Nat, d \in Nat :
        s = x.sum /\ t = y.sum /\ c = x.count /\ d = y.count
  BY DEF Fraction
<1>2. s * d \in Int /\ t * c \in Int
  OBVIOUS
<1>3. ~(s * d > t * c) \/ ~(t * c > s * d)
  BY <1>2
<1> QED BY <1>1, <1>3 DEF Above

\* The order of fractions is transitive.
LEMMA AboveTransitive ==
  ASSUME NEW x, NEW y, NEW z, Fraction(x), Fraction(y), Fraction(z),
         ~Above(x, y), ~Above(y, z)
  PROVE  ~Above(x, z)
<1>1. PICK s \in Int, t \in Int, u \in Int : s = x.sum /\ t = y.sum /\ u = z.sum
  BY DEF Fraction
<1>2. PICK c \in Nat \ {0}, d \in Nat \ {0}, e \in Nat \ {0} :
        c = x.count /\ d = y.count /\ e = z.count
  BY DEF Fraction
<1>3. s * d <= t * c /\ t * e <= u * d
  <2>1. s * d \in Int /\ t * c \in Int /\ t * e \in Int /\ u * d \in Int
    OBVIOUS
  <2>2. ~(s * d > t * c) /\ ~(t * e > u * d)
    BY <1>1, <1>2 DEF Above
  <2> QED BY <2>1, <2>2
<1>4. s * e <= u * c
  BY <1>3, FractionsTransitive
<1>5. s * e \in Int /\ u * c \in Int
  OBVIOUS
<1>6. ~(s * e > u * c)
  BY <1>4, <1>5
<1> QED BY <1>1, <1>2, <1>6 DEF Above

\* A total and transitive relation has a least element on an interval.
LEMMA LeastOfInterval ==
  ASSUME NEW lo \in Nat, NEW hi \in Nat, lo <= hi, NEW R,
         \A k, l \in lo .. hi : <<k, l>> \in R \/ <<l, k>> \in R,
         \A k, l, m \in lo .. hi : <<k, l>> \in R /\ <<l, m>> \in R => <<k, m>> \in R
  PROVE  \E k \in lo .. hi : \A l \in lo .. hi : <<k, l>> \in R
<1> DEFINE Least(h) == \E k \in lo .. h : \A l \in lo .. h : <<k, l>> \in R
           T == {h \in lo .. hi : ~Least(h)}
<1> SUFFICES T = {}
  <2>1. hi \in lo .. hi
    OBVIOUS
  <2> QED BY <2>1
<1> SUFFICES ASSUME T # {} PROVE FALSE
  OBVIOUS
<1>1. PICK h \in T : \A j \in T : h <= j
  <2>1. T \in SUBSET Nat
    OBVIOUS
  <2> HIDE DEF T
  <2> QED BY <2>1, Adding!LeastExists
<1>2. h \in lo .. hi /\ ~Least(h)
  OBVIOUS
<1>3. h # lo
  <2> SUFFICES ASSUME h = lo PROVE FALSE
    OBVIOUS
  <2>1. lo \in lo .. h /\ \A l \in lo .. h : l = lo
    OBVIOUS
  <2>2. <<lo, lo>> \in R
    OBVIOUS
  <2> QED BY <1>2, <2>1, <2>2
<1>4. h - 1 \in lo .. hi /\ h - 1 < h
  BY <1>2, <1>3
<1>5. Least(h - 1)
  <2>1. h - 1 \notin T
    <3> HIDE DEF T
    <3> QED BY <1>1, <1>2, <1>4
  <2> QED BY <1>4, <2>1
<1>6. PICK k \in lo .. h - 1 : \A l \in lo .. h - 1 : <<k, l>> \in R
  BY <1>5
<1>7. k \in lo .. hi /\ k \in lo .. h /\ h \in lo .. h
  BY <1>2, <1>4
<1>8. ASSUME NEW l \in lo .. h PROVE l \in lo .. h - 1 \/ l = h
  BY <1>2
<1>9. <<k, k>> \in R /\ <<h, h>> \in R
  BY <1>2, <1>7
<1>10. CASE <<k, h>> \in R
  <2>1. \A l \in lo .. h : <<k, l>> \in R
    BY <1>6, <1>8, <1>10
  <2> QED BY <1>2, <1>7, <2>1
<1>11. CASE <<h, k>> \in R
  <2>1. ASSUME NEW l \in lo .. h PROVE <<h, l>> \in R
    <3>1. l \in lo .. hi
      BY <1>2
    <3> QED BY <1>2, <1>6, <1>7, <1>8, <1>9, <1>11, <3>1
  <2> QED BY <1>2, <1>7, <2>1
<1> QED BY <1>2, <1>7, <1>10, <1>11

\* The first of the blocks that reach as far as i holds it.
LEMMA BlockHolding ==
  ASSUME NEW n \in Nat, NEW P \in [0 .. n -> Int], NEW B, Divides(P, n, B), NEW i \in 0 .. n
  PROVE  LET S == {b \in DOMAIN B : B[b].last >= i}
         IN  /\ Min(S) \in 1 .. Len(B) /\ B[Min(S)].last >= i
             /\ i > 0 => Low(B, Min(S)) < i
             /\ Low(B, Min(S)) <= i
<1> DEFINE S == {b \in DOMAIN B : B[b].last >= i}
           L == Len(B)
<1>1. B \in Seq(Blocks) /\ L \in 1 .. n /\ B[L].last = n /\ DOMAIN B = 1 .. L
  BY DEF Divides
<1>2. S \in SUBSET Nat /\ L \in S
  BY <1>1
<1>3. PICK b \in S : \A d \in S : b <= d
  <2> HIDE DEF S
  <2> QED BY <1>2, Adding!LeastExists
<1>4. Min(S) = b
  <2>1. b \in S /\ b \in Nat /\ S \in SUBSET Nat /\ \A d \in S : b <= d
    BY <1>2, <1>3
  <2> HIDE DEF S
  <2>2. \A d \in S : (\A e \in S : d <= e) => d = b
    BY <2>1
  <2> QED BY <2>1, <2>2 DEF Min
<1>5. b \in 1 .. L /\ B[b].last >= i
  BY <1>1
<1>6. (i > 0 => Low(B, b) < i) /\ Low(B, b) <= i
  <2>1. CASE b = 1
    BY <2>1 DEF Low
  <2>2. CASE b # 1
    <3>1. b - 1 \in 1 .. L /\ b - 1 < b
      BY <1>5, <1>1, <2>2
    <3>2. b - 1 \notin S
      <4> HIDE DEF S
      <4> QED BY <1>2, <1>3, <1>5, <3>1
    <3>3. ~(B[b - 1].last >= i)
      BY <1>1, <3>1, <3>2
    <3>4. B[b - 1] \in Blocks
      BY <1>1, <3>1
    <3>5. B[b - 1].last \in Nat
      BY <3>4 DEF Blocks
    <3> QED BY <2>2, <3>3, <3>5 DEF Low
  <2> QED BY <2>1, <2>2
<1> QED BY <1>4, <1>5, <1>6

\* Blocks that increase from one to the next increase throughout.
LEMMA BlocksIncrease ==
  ASSUME NEW B \in Seq(Blocks), \A b \in 1 .. Len(B) : Fraction(B[b]),
         \A b \in 1 .. Len(B) - 1 : ~Above(B[b], B[b + 1])
  PROVE  \A b, d \in 1 .. Len(B) : b < d => ~Above(B[b], B[d])
<1> SUFFICES ASSUME NEW b \in 1 .. Len(B)
             PROVE  \A d \in 1 .. Len(B) : b < d => ~Above(B[b], B[d])
  OBVIOUS
<1> DEFINE T == {d \in 1 .. Len(B) : b < d /\ Above(B[b], B[d])}
<1> SUFFICES ASSUME T # {} PROVE FALSE
  OBVIOUS
<1>1. PICK d \in T : \A e \in T : d <= e
  <2>1. T \in SUBSET Nat
    OBVIOUS
  <2> HIDE DEF T
  <2> QED BY <2>1, Adding!LeastExists
<1>2. d \in 1 .. Len(B) /\ b < d /\ Above(B[b], B[d])
  OBVIOUS
<1>3. d - 1 \in 1 .. Len(B) - 1 /\ d - 1 \in 1 .. Len(B) /\ (d - 1) + 1 = d
  BY <1>2
<1>4. ~Above(B[d - 1], B[d])
  BY <1>3
<1>5. CASE b = d - 1
  BY <1>2, <1>4, <1>5
<1>6. CASE b # d - 1
  <2>1. b < d - 1
    BY <1>2, <1>6
  <2>2. d - 1 \notin T
    <3> HIDE DEF T
    <3> QED BY <1>1, <1>2, <1>3
  <2>3. ~Above(B[b], B[d - 1])
    BY <1>3, <2>1, <2>2
  <2> QED BY <1>2, <1>3, <1>4, <2>3, AboveTransitive
<1> QED BY <1>5, <1>6

\* What is above a steeper chord than x/c is above that of x/c.
LEMMA ChordChain ==
  ASSUME NEW c \in Nat \ {0}, NEW d \in Nat \ {0}, NEW x \in Int, NEW y \in Int,
         NEW v \in Int, NEW u \in Nat, d * v >= y * u, x * d <= y * c
  PROVE  c * v >= x * u
<1>1. (y * u) * c <= (d * v) * c
  <2>1. y * u \in Int /\ d * v \in Int /\ y * u <= d * v
    OBVIOUS
  <2> QED BY <2>1, TimesKeeps
<1>2. (x * d) * u <= (y * c) * u
  BY TimesKeeps
<1>3. (y * u) * c = (y * c) * u /\ (x * d) * u = (x * u) * d /\ (d * v) * c = (c * v) * d
  OBVIOUS
<1>4. (x * u) * d <= (c * v) * d
  BY <1>1, <1>2, <1>3
<1>5. x * u <= c * v
  <2>1. x * u \in Int /\ c * v \in Int
    OBVIOUS
  <2> QED BY <1>4, <2>1, TimesCancels
<1> QED BY <1>5

\* What lies above a chord to the right of a point on the line with slope x/c,
\* when the chord is at least as steep.
LEMMA ChordRight ==
  ASSUME NEW l \in Int, NEW h \in Int, NEW k \in Int, l < h, NEW t \in Int, l <= t,
         NEW p \in Int, NEW q \in Int, NEW r \in Int, NEW w \in Int,
         NEW x \in Int, NEW c \in Nat \ {0},
         (h - l) * (w - q) >= (q - p) * (t - h), c * (p - r) >= x * (l - k),
         ~(x * (h - l) > (q - p) * c)
  PROVE  c * (w - r) >= x * (t - k)
<1> DEFINE d == h - l
           y == q - p
           v == w - p
           u == t - l
<1>1. d \in Nat \ {0} /\ y \in Int /\ v \in Int /\ u \in Nat
  OBVIOUS
<1>2. d * v >= y * u
  <2>1. d * v = d * (w - q) + d * y /\ y * u = y * (t - h) + y * d
    OBVIOUS
  <2> QED BY <2>1
<1>3. x * d <= y * c
  OBVIOUS
<1>4. c * (w - r) = c * v + c * (p - r) /\ x * (t - k) = x * u + x * (l - k)
  OBVIOUS
<1>5. c * v >= x * u
  <2> HIDE DEF d, y, v, u
  <2> QED BY <1>1, <1>2, <1>3, ChordChain
<1> QED BY <1>4, <1>5

\* And to the left, when the chord is at most as steep.
LEMMA ChordLeft ==
  ASSUME NEW l \in Int, NEW h \in Int, NEW k \in Int, l < h, NEW t \in Int, t <= h,
         NEW p \in Int, NEW q \in Int, NEW r \in Int, NEW w \in Int,
         NEW x \in Int, NEW c \in Nat \ {0},
         (h - l) * (w - q) >= (q - p) * (t - h), c * (q - r) >= x * (h - k),
         ~((q - p) * c > x * (h - l))
  PROVE  c * (w - r) >= x * (t - k)
<1> DEFINE d == h - l
           y == p - q
           v == w - q
           u == h - t
           z == -x
<1>1. d \in Nat \ {0} /\ y \in Int /\ v \in Int /\ u \in Nat /\ z \in Int
  OBVIOUS
<1>2. d * v >= y * u
  <2>1. (q - p) * (t - h) = y * u
    OBVIOUS
  <2> QED BY <2>1
<1>3. z * d <= y * c
  <2>1. z * d = -(x * d) /\ y * c = -((q - p) * c)
    OBVIOUS
  <2>2. (q - p) * c <= x * d
    OBVIOUS
  <2> QED BY <2>1, <2>2
<1>4. c * (w - r) = c * v + c * (q - r) /\ x * (t - k) = z * u + x * (h - k)
  OBVIOUS
<1>5. c * v >= z * u
  <2> HIDE DEF d, y, v, u, z
  <2> QED BY <1>1, <1>2, <1>3, ChordChain
<1> QED BY <1>4, <1>5

\* What a division into increasing blocks says of block b.
LEMMA BlockFacts ==
  ASSUME NEW n \in Nat, NEW P \in [0 .. n -> Int], NEW B, Divides(P, n, B), NEW b \in 1 .. Len(B)
  PROVE  /\ B \in Seq(Blocks) /\ B[b] \in Blocks /\ Fraction(B[b])
         /\ Low(B, b) \in 0 .. n /\ B[b].last \in 0 .. n /\ Low(B, b) < B[b].last
         /\ B[b].count = B[b].last - Low(B, b)
         /\ B[b].sum = P[B[b].last] - P[Low(B, b)]
         /\ \A t \in Low(B, b) .. B[b].last :
              B[b].count * (P[t] - P[B[b].last]) >= B[b].sum * (t - B[b].last)
<1>1. B \in Seq(Blocks) /\ Low(B, b) \in Nat /\ Chord(P, Low(B, b), B[b])
  BY DEF Divides
<1>2. /\ B[b] \in Blocks /\ Low(B, b) < B[b].last /\ B[b].last \in 0 .. n
      /\ B[b].count = B[b].last - Low(B, b) /\ B[b].sum = P[B[b].last] - P[Low(B, b)]
      /\ \A t \in Low(B, b) .. B[b].last :
           B[b].count * (P[t] - P[B[b].last]) >= B[b].sum * (t - B[b].last)
  BY <1>1 DEF Chord
<1>3. B[b].last \in Nat /\ B[b].sum \in Int /\ B[b].count \in Nat
  BY <1>2 DEF Blocks
<1>4. Low(B, b) \in 0 .. n
  BY <1>1, <1>2, <1>3
<1>5. Fraction(B[b])
  BY <1>1, <1>2, <1>3 DEF Fraction
<1> QED BY <1>1, <1>2, <1>4, <1>5

\* Block b's chord, drawn on, lies on or below the sums.
LineAt(P, B, b, t) == B[b].count * (P[t] - P[B[b].last]) >= B[b].sum * (t - B[b].last)

\* Right of block b.
LEMMA LineRight ==
  ASSUME NEW n \in Nat, NEW P \in [0 .. n -> Int], NEW B, Divides(P, n, B),
         \A b \in 1 .. Len(B) - 1 : ~Above(B[b], B[b + 1]), NEW b \in 1 .. Len(B)
  PROVE  \A d \in b .. Len(B) : \A t \in Low(B, d) .. B[d].last : LineAt(P, B, b, t)
<1> DEFINE T == {d \in b .. Len(B) : \E t \in Low(B, d) .. B[d].last : ~LineAt(P, B, b, t)}
<1> SUFFICES ASSUME T # {} PROVE FALSE
  OBVIOUS
<1>0. Len(B) \in Nat /\ B \in Seq(Blocks)
  BY DEF Divides
<1>1. PICK d \in T : \A e \in T : d <= e
  <2>1. T \in SUBSET Nat
    BY <1>0
  <2> HIDE DEF T
  <2> QED BY <2>1, Adding!LeastExists
<1>2. d \in b .. Len(B) /\ d \in 1 .. Len(B)
  BY <1>0
<1>3. PICK t \in Low(B, d) .. B[d].last : ~LineAt(P, B, b, t)
  OBVIOUS
<1>4. d # b
  <2>1. \A u \in Low(B, b) .. B[b].last : LineAt(P, B, b, u)
    BY BlockFacts DEF LineAt
  <2> QED BY <1>3, <2>1
<1>5. d - 1 \in b .. Len(B) /\ d - 1 \in 1 .. Len(B) /\ d - 1 < d /\ b < d /\ d # 1
  BY <1>0, <1>2, <1>4
<1>6. d - 1 \notin T
  <2> HIDE DEF T
  <2> QED BY <1>0, <1>1, <1>2, <1>5
<1>7. Low(B, d) = B[d - 1].last
  BY <1>5 DEF Low
<1>8. LineAt(P, B, b, Low(B, d))
  <2>1. /\ Low(B, d - 1) \in 0 .. n /\ B[d - 1].last \in 0 .. n
        /\ Low(B, d - 1) < B[d - 1].last
    BY <1>5, BlockFacts
  <2>2. B[d - 1].last \in Low(B, d - 1) .. B[d - 1].last
    BY <2>1
  <2> QED BY <1>5, <1>6, <1>7, <2>2
<1>9. ~Above(B[b], B[d])
  <2>1. \A e \in 1 .. Len(B) : Fraction(B[e])
    BY BlockFacts
  <2> QED BY <1>0, <1>2, <1>5, <2>1, BlocksIncrease
<1>10. PICK l \in Int, h \in Int, k \in Int :
         /\ l = Low(B, d) /\ h = B[d].last /\ k = B[b].last
         /\ 0 <= l /\ l < h /\ h <= n /\ 0 <= k /\ k <= n
  <2>1. Low(B, d) \in 0 .. n /\ B[d].last \in 0 .. n /\ Low(B, d) < B[d].last
    BY <1>2, BlockFacts
  <2>2. B[b].last \in 0 .. n
    BY BlockFacts
  <2>3. \A v \in 0 .. n : v \in Int /\ 0 <= v /\ v <= n
    OBVIOUS
  <2> QED BY <2>1, <2>2, <2>3, Zenon
<1>11. /\ t \in Int /\ l <= t /\ t <= h
       /\ t \in 0 .. n /\ l \in 0 .. n /\ h \in 0 .. n /\ k \in 0 .. n
  <2>1. t \in l .. h
    BY <1>3, <1>10
  <2>2. t \in Int /\ l <= t /\ t <= h
    BY <2>1
  <2>3. n \in Int /\ 0 <= l /\ l < h /\ h <= n /\ 0 <= k /\ k <= n
    BY <1>10
  <2> QED BY <2>2, <2>3
<1>12. PICK p \in Int, q \in Int, r \in Int, w \in Int :
         p = P[l] /\ q = P[h] /\ r = P[k] /\ w = P[t]
  BY <1>10, <1>11
<1>13. B[d].count = h - l /\ B[d].sum = q - p /\ (h - l) * (w - q) >= (q - p) * (t - h)
  <2>1. B[d].count = h - l /\ B[d].sum = q - p
    BY <1>2, <1>10, <1>12, BlockFacts
  <2>2. B[d].count * (P[t] - P[B[d].last]) >= B[d].sum * (t - B[d].last)
    BY <1>2, <1>3, BlockFacts
  <2> QED BY <1>10, <1>12, <2>1, <2>2
<1>14. PICK c \in Nat \ {0}, x \in Int : c = B[b].count /\ x = B[b].sum
  <2>1. Fraction(B[b])
    BY BlockFacts
  <2> QED BY <2>1 DEF Fraction
<1>15. c * (p - r) >= x * (l - k)
  BY <1>8, <1>10, <1>12, <1>14 DEF LineAt
<1>16. ~(x * (h - l) > (q - p) * c)
  BY <1>9, <1>13, <1>14 DEF Above
<1>18. c * (w - r) >= x * (t - k)
  BY <1>10, <1>11, <1>13, <1>15, <1>16, ChordRight
<1> QED BY <1>3, <1>10, <1>12, <1>14, <1>18 DEF LineAt

\* Left of block b.
LEMMA LineLeft ==
  ASSUME NEW n \in Nat, NEW P \in [0 .. n -> Int], NEW B, Divides(P, n, B),
         \A b \in 1 .. Len(B) - 1 : ~Above(B[b], B[b + 1]), NEW b \in 1 .. Len(B)
  PROVE  \A d \in 1 .. b : \A t \in Low(B, d) .. B[d].last : LineAt(P, B, b, t)
<1> DEFINE T == {e \in 0 .. b - 1 : \E t \in Low(B, b - e) .. B[b - e].last : ~LineAt(P, B, b, t)}
<1>0. Len(B) \in Nat /\ B \in Seq(Blocks) /\ b \in Nat
  BY DEF Divides
<1> SUFFICES T = {}
  <2>1. ASSUME NEW d \in 1 .. b, NEW t \in Low(B, d) .. B[d].last PROVE LineAt(P, B, b, t)
    <3>1. b - d \in 0 .. b - 1 /\ b - (b - d) = d
      BY <1>0
    <3> QED BY <3>1
  <2> QED BY <2>1
<1> SUFFICES ASSUME T # {} PROVE FALSE
  OBVIOUS
<1>1. PICK e \in T : \A f \in T : e <= f
  <2>1. T \in SUBSET Nat
    BY <1>0
  <2> HIDE DEF T
  <2> QED BY <2>1, Adding!LeastExists
<1> DEFINE d == b - e
<1>2. e \in 0 .. b - 1 /\ d \in 1 .. b /\ d \in 1 .. Len(B)
  BY <1>0
<1>3. PICK t \in Low(B, d) .. B[d].last : ~LineAt(P, B, b, t)
  OBVIOUS
<1>4. e # 0
  <2>1. \A u \in Low(B, b) .. B[b].last : LineAt(P, B, b, u)
    BY BlockFacts DEF LineAt
  <2>2. SUFFICES ASSUME e = 0 PROVE FALSE
    OBVIOUS
  <2>3. d = b
    BY <1>0, <2>2
  <2> QED BY <1>3, <2>1, <2>3
<1>5. e - 1 \in 0 .. b - 1 /\ b - (e - 1) = d + 1 /\ d + 1 \in 1 .. Len(B) /\ d < b /\ e - 1 < e
  BY <1>0, <1>2, <1>4
<1>6. e - 1 \notin T
  <2> HIDE DEF T
  <2> QED BY <1>0, <1>1, <1>2, <1>5
<1>7. Low(B, d + 1) = B[d].last
  BY <1>2 DEF Low
<1>8. LineAt(P, B, b, B[d].last)
  <2>1. /\ Low(B, d + 1) \in 0 .. n /\ B[d + 1].last \in 0 .. n
        /\ Low(B, d + 1) < B[d + 1].last
    BY <1>5, BlockFacts
  <2>2. Low(B, d + 1) \in Low(B, b - (e - 1)) .. B[b - (e - 1)].last
    <3>1. b - (e - 1) = d + 1
      BY <1>5
    <3> HIDE DEF d
    <3>2. Low(B, d + 1) \in Low(B, d + 1) .. B[d + 1].last
      <4>1. \A v, u \in 0 .. n : v < u => v \in v .. u
        OBVIOUS
      <4> QED BY <2>1, <4>1, Zenon
    <3> QED BY <3>1, <3>2
  <2> QED BY <1>5, <1>6, <1>7, <2>2
<1> HIDE DEF d
<1>9. ~Above(B[d], B[b])
  <2>1. \A f \in 1 .. Len(B) : Fraction(B[f])
    BY BlockFacts
  <2> QED BY <1>0, <1>2, <1>5, <2>1, BlocksIncrease
<1>10. PICK l \in Int, h \in Int, k \in Int :
         /\ l = Low(B, d) /\ h = B[d].last /\ k = B[b].last
         /\ 0 <= l /\ l < h /\ h <= n /\ 0 <= k /\ k <= n
  <2>1. Low(B, d) \in 0 .. n /\ B[d].last \in 0 .. n /\ Low(B, d) < B[d].last
    BY <1>2, BlockFacts
  <2>2. B[b].last \in 0 .. n
    BY BlockFacts
  <2>3. \A v \in 0 .. n : v \in Int /\ 0 <= v /\ v <= n
    OBVIOUS
  <2> QED BY <2>1, <2>2, <2>3, Zenon
<1>11. /\ t \in Int /\ l <= t /\ t <= h
       /\ t \in 0 .. n /\ l \in 0 .. n /\ h \in 0 .. n /\ k \in 0 .. n
  <2>1. t \in l .. h
    BY <1>3, <1>10
  <2>2. t \in Int /\ l <= t /\ t <= h
    BY <2>1
  <2>3. n \in Int /\ 0 <= l /\ l < h /\ h <= n /\ 0 <= k /\ k <= n
    BY <1>10
  <2> QED BY <2>2, <2>3
<1>12. PICK p \in Int, q \in Int, r \in Int, w \in Int :
         p = P[l] /\ q = P[h] /\ r = P[k] /\ w = P[t]
  BY <1>10, <1>11
<1>13. B[d].count = h - l /\ B[d].sum = q - p /\ (h - l) * (w - q) >= (q - p) * (t - h)
  <2>1. B[d].count = h - l /\ B[d].sum = q - p
    BY <1>2, <1>10, <1>12, BlockFacts
  <2>2. B[d].count * (P[t] - P[B[d].last]) >= B[d].sum * (t - B[d].last)
    BY <1>2, <1>3, BlockFacts
  <2> QED BY <1>10, <1>12, <2>1, <2>2
<1>14. PICK c \in Nat \ {0}, x \in Int : c = B[b].count /\ x = B[b].sum
  <2>1. Fraction(B[b])
    BY BlockFacts
  <2> QED BY <2>1 DEF Fraction
<1>15. c * (q - r) >= x * (h - k)
  BY <1>8, <1>10, <1>12, <1>14 DEF LineAt
<1>16. ~((q - p) * c > x * (h - l))
  BY <1>9, <1>13, <1>14 DEF Above
<1>18. c * (w - r) >= x * (t - k)
  BY <1>10, <1>11, <1>13, <1>15, <1>16, ChordLeft
<1> QED BY <1>3, <1>10, <1>12, <1>14, <1>18 DEF LineAt

\* The chord of every block, drawn on, lies on or below all the sums.
LEMMA LineSupports ==
  ASSUME NEW n \in Nat, NEW P \in [0 .. n -> Int], NEW B, Divides(P, n, B),
         \A b \in 1 .. Len(B) - 1 : ~Above(B[b], B[b + 1]), NEW b \in 1 .. Len(B), NEW t \in 0 .. n
  PROVE  LineAt(P, B, b, t)
<1>1. PICK d \in 1 .. Len(B) : B[d].last >= t /\ Low(B, d) <= t
  BY BlockHolding
<1>2. t \in Low(B, d) .. B[d].last
  <2>1. Low(B, d) \in 0 .. n /\ B[d].last \in 0 .. n
    BY BlockFacts
  <2> QED BY <1>1, <2>1
<1>3. Len(B) \in Nat
  BY DEF Divides
<1>4. d \in b .. Len(B) \/ d \in 1 .. b
  BY <1>3
<1> QED BY <1>2, <1>4, LineLeft, LineRight

\* The labels of a segment total the difference of two prefixes.
Telescopes(P, n) ==
  \A j \in 1 .. n + 1 : \A k \in j - 1 .. n :
    TotalOfAll(SubSeq(Labels(outcomes), j, k)) = P[k] - P[j - 1]

\* What the mean of the labels from j to k is, in the sums of the prefixes.
LEMMA MeanIs ==
  ASSUME NEW P, NEW n \in Nat, Len(outcomes) = n, P \in [0 .. n -> Int],
         Telescopes(P, n),
         NEW j \in 1 .. n, NEW k \in j .. n
  PROVE  /\ Mean(j, k).sum = P[k] - P[j - 1] /\ Mean(j, k).count = k - (j - 1)
         /\ Fraction(Mean(j, k))
<1>1. j \in 1 .. n + 1 /\ k \in j - 1 .. n /\ j - 1 \in 0 .. n /\ k \in 0 .. n
  OBVIOUS
<1>2. PICK p \in Int, q \in Int : p = P[j - 1] /\ q = P[k]
  BY <1>1
<1>3. Mean(j, k).sum = q - p
  BY <1>1, <1>2 DEF Mean, Telescopes
<1>4. Mean(j, k).count = k - j + 1
  BY DEF Mean
<1>5. k - j + 1 = k - (j - 1) /\ k - j + 1 \in Nat \ {0}
  OBVIOUS
<1> QED BY <1>2, <1>3, <1>4, <1>5 DEF Fraction

\* The chord from a point above a line to a point of it is not steeper.
LEMMA LineEnds ==
  ASSUME NEW l \in Int, NEW h \in Int, NEW t \in Int,
         NEW p \in Int, NEW q \in Int, NEW w \in Int, (h - l) * (w - q) >= (q - p) * (t - h)
  PROVE  ~((q - w) * (h - l) > (q - p) * (h - t)) /\ ~((q - p) * (t - l) > (w - p) * (h - l))
<1> DEFINE c == h - l
           x == q - p
           v == w - q
           u == t - h
<1>1. c \in Int /\ x \in Int /\ v \in Int /\ u \in Int /\ c * v >= x * u
  OBVIOUS
<1>2. q - w = -v /\ h - t = -u /\ t - l = u + c /\ w - p = v + x
  OBVIOUS
<1> HIDE DEF c, x, v, u
<1>3. (-v) * c = -(c * v) /\ x * (-u) = -(x * u) /\ c * v \in Int /\ x * u \in Int
  BY <1>1
<1>4. x * (u + c) = x * u + x * c /\ (v + x) * c = c * v + x * c /\ x * c \in Int
  BY <1>1
<1>5. ~((-v) * c > x * (-u)) /\ ~(x * (u + c) > (v + x) * c)
  BY <1>1, <1>3, <1>4
<1>6. ~((q - w) * c > x * (h - t)) /\ ~(x * (t - l) > (w - p) * c)
  BY <1>2, <1>5
<1> QED BY <1>6 DEF c, x

\* From the line of a block: the means that end with it are not above it, and it is
\* not above those that start with it.
LEMMA MeansMeetBlock ==
  ASSUME NEW P, NEW n \in Nat, Len(outcomes) = n, P \in [0 .. n -> Int],
         Telescopes(P, n),
         NEW B, Divides(P, n, B),
         \A b \in 1 .. Len(B) - 1 : ~Above(B[b], B[b + 1]), NEW b \in 1 .. Len(B)
  PROVE  /\ B[b].last \in 1 .. n /\ Low(B, b) + 1 \in 1 .. n
         /\ \A j \in 1 .. B[b].last : ~Above(Mean(j, B[b].last), B[b])
         /\ \A k \in Low(B, b) + 1 .. n : ~Above(B[b], Mean(Low(B, b) + 1, k))
<1>1. PICK l \in Int, h \in Int : l = Low(B, b) /\ h = B[b].last /\ 0 <= l /\ l < h /\ h <= n
  <2>1. Low(B, b) \in 0 .. n /\ B[b].last \in 0 .. n /\ Low(B, b) < B[b].last
    BY BlockFacts
  <2>2. \A v \in 0 .. n : v \in Int /\ 0 <= v /\ v <= n
    OBVIOUS
  <2> QED BY <2>1, <2>2, Zenon
<1>2. PICK p \in Int, q \in Int : p = P[l] /\ q = P[h]
  <2>1. l \in 0 .. n /\ h \in 0 .. n
    BY <1>1
  <2> QED BY <2>1
<1>3. B[b].count = h - l /\ B[b].sum = q - p
  BY <1>1, <1>2, BlockFacts
<1>4. ASSUME NEW t \in 0 .. n, NEW w \in Int, w = P[t]
      PROVE  ~((q - w) * (h - l) > (q - p) * (h - t)) /\ ~((q - p) * (t - l) > (w - p) * (h - l))
  <2>1. LineAt(P, B, b, t)
    BY LineSupports
  <2>2. (h - l) * (w - q) >= (q - p) * (t - h)
    BY <1>1, <1>2, <1>3, <1>4, <2>1 DEF LineAt
  <2>3. t \in Int
    OBVIOUS
  <2> QED BY <2>2, <2>3, LineEnds
<1>5. h \in 1 .. n /\ l + 1 \in 1 .. n
  BY <1>1
<1>6. ASSUME NEW j \in 1 .. h PROVE ~Above(Mean(j, h), B[b])
  <2>1. j \in 1 .. n /\ h \in j .. n /\ j \in Int /\ j - 1 \in 0 .. n
    BY <1>1
  <2>2. PICK w \in Int, t \in 0 .. n : w = P[j - 1] /\ t = j - 1
    BY <2>1
  <2>3. Mean(j, h).sum = q - w /\ Mean(j, h).count = h - t
    <3>1. Mean(j, h).sum = P[h] - P[j - 1] /\ Mean(j, h).count = h - (j - 1)
      BY <2>1, MeanIs
    <3> QED BY <1>2, <2>2, <3>1
  <2>4. ~((q - w) * (h - l) > (q - p) * (h - t))
    BY <1>4, <2>2
  <2> QED BY <1>3, <2>3, <2>4 DEF Above
<1>7. ASSUME NEW k \in l + 1 .. n PROVE ~Above(B[b], Mean(l + 1, k))
  <2>1. k \in 0 .. n /\ k \in Int /\ (l + 1) - 1 = l
    BY <1>1
  <2>2. PICK w \in Int : w = P[k]
    BY <2>1
  <2>3. Mean(l + 1, k).sum = w - p /\ Mean(l + 1, k).count = k - l
    <3>1. Mean(l + 1, k).sum = P[k] - P[(l + 1) - 1] /\ Mean(l + 1, k).count = k - ((l + 1) - 1)
      BY <1>5, MeanIs
    <3> QED BY <1>2, <2>1, <2>2, <3>1
  <2>4. ~((q - p) * (k - l) > (w - p) * (h - l))
    BY <1>4, <2>1, <2>2
  <2> QED BY <1>3, <2>3, <2>4 DEF Above
<1> QED BY <1>1, <1>5, <1>6, <1>7

\* Among the fractions f gives an interval there is a smallest.
LEMMA SmallestExists ==
  ASSUME NEW lo \in Nat, NEW hi \in Nat, lo <= hi, NEW f,
         \A k \in lo .. hi : Fraction(f[k])
  PROVE  \E k \in lo .. hi : \A l \in lo .. hi : ~Above(f[k], f[l])
<1> DEFINE I == lo .. hi
           R == {e \in I \X I : ~Above(f[e[1]], f[e[2]])}
<1>1. \A k, l \in I : <<k, l>> \in R <=> ~Above(f[k], f[l])
  OBVIOUS
<1> HIDE DEF R
<1>2. \A k, l \in I : <<k, l>> \in R \/ <<l, k>> \in R
  BY <1>1, AboveTotal
<1>3. \A k, l, m \in I : <<k, l>> \in R /\ <<l, m>> \in R => <<k, m>> \in R
  <2> SUFFICES ASSUME NEW k \in I, NEW l \in I, NEW m \in I, <<k, l>> \in R, <<l, m>> \in R
               PROVE  <<k, m>> \in R
    OBVIOUS
  <2>1. ~Above(f[k], f[l]) /\ ~Above(f[l], f[m])
    BY <1>1
  <2>2. ~Above(f[k], f[m])
    BY <2>1, AboveTransitive
  <2> QED BY <1>1, <2>2
<1>4. \E k \in I : \A l \in I : <<k, l>> \in R
  BY <1>2, <1>3, LeastOfInterval
<1> QED BY <1>1, <1>4

\* And a largest.
LEMMA LargestExists ==
  ASSUME NEW lo \in Nat, NEW hi \in Nat, lo <= hi, NEW f,
         \A k \in lo .. hi : Fraction(f[k])
  PROVE  \E k \in lo .. hi : \A l \in lo .. hi : ~Above(f[l], f[k])
<1> DEFINE I == lo .. hi
           R == {e \in I \X I : ~Above(f[e[2]], f[e[1]])}
<1>1. \A k, l \in I : <<k, l>> \in R <=> ~Above(f[l], f[k])
  OBVIOUS
<1> HIDE DEF R
<1>2. \A k, l \in I : <<k, l>> \in R \/ <<l, k>> \in R
  BY <1>1, AboveTotal
<1>3. \A k, l, m \in I : <<k, l>> \in R /\ <<l, m>> \in R => <<k, m>> \in R
  <2> SUFFICES ASSUME NEW k \in I, NEW l \in I, NEW m \in I, <<k, l>> \in R, <<l, m>> \in R
               PROVE  <<k, m>> \in R
    OBVIOUS
  <2>1. ~Above(f[m], f[l]) /\ ~Above(f[l], f[k])
    BY <1>1
  <2>2. ~Above(f[m], f[k])
    BY <2>1, AboveTransitive
  <2> QED BY <1>1, <2>2
<1>4. \E k \in I : \A l \in I : <<k, l>> \in R
  BY <1>2, <1>3, LeastOfInterval
<1> QED BY <1>1, <1>4

\* fit_isotonic is the best fit, of any observations.
LEMMA IsotonicBest ==
  ASSUME outcomes \in Seq(Pairs)
  PROVE  IsotonicIsBest
<1>1. CASE outcomes = <<>>
  <2>1. Len(outcomes) = 0 /\ DOMAIN outcomes = {}
    BY <1>1
  <2>2. Len(Isotonic) = 0
    <3> DEFINE start == [i \in DOMAIN outcomes |-> [last |-> i, sum |-> outcomes[i].label, count |-> 1]]
    <3>1. start = <<>>
      BY <2>1
    <3>2. [turn \in 1 .. 2 * Len(start) |-> turn] = <<>>
      BY <3>1
    <3>3. Pooling!Run({}, [at |-> 1, blocks |-> start], <<>>) = [at |-> 1, blocks |-> start]
      BY Pooling!RunEmpty
    <3>4. Isotonic = [at |-> 1, blocks |-> start].blocks
      BY <3>2, <3>3, PooledIsRun DEF Isotonic
    <3> HIDE DEF start
    <3>5. Isotonic = start
      BY <3>4
    <3> QED BY <3>1, <3>5
  <2> QED BY <2>1, <2>2 DEF IsotonicIsBest
<1>2. CASE outcomes # <<>>
  <2> DEFINE n == Len(outcomes)
             B == Isotonic
  <2>0. n \in Nat \ {0} /\ DOMAIN outcomes = 1 .. n
    BY <1>2, EmptySeq
  <2>1. PICK P : SumsOf(P, Labels(outcomes)) /\ Telescopes(P, n)
    <3>1. Labels(outcomes) \in Seq(Int) /\ Len(Labels(outcomes)) = n
      BY LabelsAre
    <3> QED BY <3>1, PrefixSums DEF Telescopes
  <2>2. P \in [0 .. n -> Int]
    <3>1. Len(Labels(outcomes)) = n
      BY LabelsAre
    <3> QED BY <2>1, <3>1 DEF SumsOf
  <2>3. Divides(P, n, B) /\ \A b \in 1 .. Len(B) - 1 : ~Above(B[b], B[b + 1])
    BY <1>2, <2>1, IsotonicIs
  <2> HIDE DEF B, n
  <2>4. ASSUME NEW j \in 1 .. n, NEW k \in j .. n PROVE Fraction(Mean(j, k))
    BY <2>0, <2>1, <2>2, MeanIs DEF n
  <2>5. ASSUME NEW i \in 1 .. n
        PROVE  LET smallest(j) == CHOOSE m \in {Mean(j, k) : k \in i .. n} :
                                    \A k \in i .. n : ~Above(m, Mean(j, k))
                   best == CHOOSE m \in {smallest(j) : j \in 1 .. i} :
                             \A j \in 1 .. i : ~Above(smallest(j), m)
               IN  ~Above(best, BlockOf(i)) /\ ~Above(BlockOf(i), best)
    <3> DEFINE smallest(j) == CHOOSE m \in {Mean(j, k) : k \in i .. n} :
                                \A k \in i .. n : ~Above(m, Mean(j, k))
               best == CHOOSE m \in {smallest(j) : j \in 1 .. i} :
                         \A j \in 1 .. i : ~Above(smallest(j), m)
    <3>0. n \in Nat /\ i \in Nat /\ 1 <= i /\ i <= n /\ i \in 0 .. n /\ i > 0
      BY <2>0
    <3>1. PICK b \in 1 .. Len(B) : BlockOf(i) = B[b] /\ B[b].last >= i /\ Low(B, b) < i
      BY <2>2, <2>3, <3>0, BlockHolding DEF BlockOf, B
    <3>2. Fraction(B[b]) /\ B[b].last \in 0 .. n /\ Low(B, b) \in 0 .. n
      BY <2>2, <2>3, <3>0, BlockFacts
    <3>3. /\ \A j \in 1 .. B[b].last : ~Above(Mean(j, B[b].last), B[b])
          /\ \A k \in Low(B, b) + 1 .. n : ~Above(B[b], Mean(Low(B, b) + 1, k))
      BY <2>0, <2>1, <2>2, <2>3, <3>0, MeansMeetBlock DEF n
    <3>4. PICK h \in i .. n : h = B[b].last
      BY <3>0, <3>1, <3>2
    <3>5. PICK l \in 1 .. i : l = Low(B, b) + 1
      BY <3>0, <3>1, <3>2
    <3>6. ASSUME NEW j \in 1 .. i
          PROVE  /\ \E k \in i .. n : smallest(j) = Mean(j, k)
                 /\ \A k \in i .. n : ~Above(smallest(j), Mean(j, k))
                 /\ Fraction(smallest(j))
      <4> DEFINE f == [k \in i .. n |-> Mean(j, k)]
      <4>1. \A k \in i .. n : f[k] = Mean(j, k) /\ Fraction(Mean(j, k))
        <5> SUFFICES ASSUME NEW k \in i .. n PROVE Fraction(Mean(j, k))
          OBVIOUS
        <5>1. j \in 1 .. n /\ k \in j .. n
          BY <3>0
        <5> QED BY <2>4, <5>1
      <4>2. \A k \in i .. n : Fraction(f[k])
        BY <4>1
      <4> HIDE DEF f
      <4>3. PICK k \in i .. n : \A e \in i .. n : ~Above(f[k], f[e])
        BY <3>0, <4>2, SmallestExists
      <4>4. \E m \in {Mean(j, e) : e \in i .. n} : \A e \in i .. n : ~Above(m, Mean(j, e))
        BY <4>1, <4>3
      <4>5. /\ smallest(j) \in {Mean(j, e) : e \in i .. n}
            /\ \A e \in i .. n : ~Above(smallest(j), Mean(j, e))
        BY <4>4
      <4> QED BY <4>1, <4>5
    <3> HIDE DEF smallest
    <3>7. /\ best \in {smallest(j) : j \in 1 .. i}
          /\ \A j \in 1 .. i : ~Above(smallest(j), best)
      <4> DEFINE f == [j \in 1 .. i |-> smallest(j)]
      <4>1. \A j \in 1 .. i : f[j] = smallest(j) /\ Fraction(f[j])
        BY <3>6
      <4> HIDE DEF f
      <4>2. PICK j \in 1 .. i : \A e \in 1 .. i : ~Above(f[e], f[j])
        BY <3>0, <4>1, LargestExists
      <4>3. \E m \in {smallest(e) : e \in 1 .. i} : \A e \in 1 .. i : ~Above(smallest(e), m)
        BY <4>1, <4>2
      <4> QED BY <4>3
    <3> HIDE DEF best
    <3>8. PICK j \in 1 .. i : best = smallest(j)
      BY <3>7
    <3>9. ~Above(best, B[b])
      <4>1. ~Above(best, Mean(j, h))
        BY <3>6, <3>8
      <4>2. j \in 1 .. h /\ j \in 1 .. n /\ h \in j .. n
        BY <3>0
      <4>3. ~Above(Mean(j, h), B[b])
        BY <3>3, <3>4, <4>2
      <4>4. Fraction(best) /\ Fraction(Mean(j, h))
        BY <2>4, <3>6, <3>8, <4>2
      <4> QED BY <3>2, <4>1, <4>3, <4>4, AboveTransitive
    <3>10. ~Above(B[b], best)
      <4>1. PICK k \in i .. n : smallest(l) = Mean(l, k)
        BY <3>6
      <4>2. k \in l .. n
        BY <3>0
      <4>3. ~Above(B[b], smallest(l))
        BY <3>3, <3>5, <4>1, <4>2
      <4>4. ~Above(smallest(l), best) /\ Fraction(smallest(l)) /\ Fraction(best)
        BY <3>6, <3>7, <3>8
      <4> QED BY <3>2, <4>3, <4>4, AboveTransitive
    <3> QED BY <3>1, <3>9, <3>10 DEF best, smallest
  <2> QED BY <2>0, <2>3, <2>5 DEF IsotonicIsBest, B, n
<1> QED BY <1>1, <1>2

----------------------------------------------------------------------------
(* Calibration metrics *)

\* A total is the last of the sums of the prefixes.
LEMMA TotalIsLast ==
  ASSUME NEW v \in Seq(Int)
  PROVE  \E P : SumsOf(P, v) /\ TotalOfAll(v) = P[Len(v)]
<1> DEFINE n == Len(v)
<1>0. n \in Nat
  OBVIOUS
<1>1. PICK P : /\ SumsOf(P, v)
               /\ \A j \in 1 .. n + 1 : \A k \in j - 1 .. n :
                    TotalOfAll(SubSeq(v, j, k)) = P[k] - P[j - 1]
  BY PrefixSums
<1>2. SubSeq(v, 1, n) = v
  <2>1. /\ SubSeq(v, 1, n) \in Seq(Int) /\ Len(SubSeq(v, 1, n)) = n
        /\ \A i \in 1 .. n : SubSeq(v, 1, n)[i] = v[i]
    <3>1. /\ SubSeq(v, 1, n) \in Seq(Int) /\ Len(SubSeq(v, 1, n)) = n
          /\ \A i \in 1 .. n : SubSeq(v, 1, n)[i] = v[1 + i - 1]
      BY <1>0, SubSeqProperties
    <3> QED BY <3>1
  <2> QED BY <1>0, <2>1
<1>3. 1 \in 1 .. n + 1 /\ n \in 1 - 1 .. n /\ 1 - 1 = 0
  BY <1>0
<1>4. TotalOfAll(v) = P[n] - P[0]
  <2>1. TotalOfAll(SubSeq(v, 1, n)) = P[n] - P[1 - 1]
    BY <1>1, <1>3
  <2> QED BY <1>2, <1>3, <2>1
<1>5. P[0] = 0 /\ P[n] \in Int
  BY <1>0, <1>1 DEF SumsOf
<1>6. TotalOfAll(v) = P[n]
  BY <1>4, <1>5
<1> QED BY <1>1, <1>6

\* A total of integers is one.
LEMMA TotalIsInt ==
  ASSUME NEW v \in Seq(Int)
  PROVE  TotalOfAll(v) \in Int
<1>1. PICK P : SumsOf(P, v) /\ TotalOfAll(v) = P[Len(v)]
  BY TotalIsLast
<1>2. Len(v) \in 0 .. Len(v)
  OBVIOUS
<1> QED BY <1>1, <1>2 DEF SumsOf

\* Sums that are equal at 0 and grow alike are equal.
LEMMA GrowAlike ==
  ASSUME NEW n \in Nat, NEW P, NEW Q, P[0] = Q[0],
         \A k \in 1 .. n : P[k - 1] = Q[k - 1] => P[k] = Q[k]
  PROVE  P[n] = Q[n]
<1> DEFINE T == {k \in 0 .. n : P[k] # Q[k]}
<1>0. n \in 0 .. n
  OBVIOUS
<1> SUFFICES ASSUME T # {} PROVE FALSE
  BY <1>0
<1>1. PICK k \in T : \A j \in T : k <= j
  <2>1. T \in SUBSET Nat
    OBVIOUS
  <2> HIDE DEF T
  <2> QED BY <2>1, Adding!LeastExists
<1>2. k \in 0 .. n /\ P[k] # Q[k]
  OBVIOUS
<1>3. k # 0
  BY <1>2
<1>4. k \in 1 .. n /\ k - 1 \in 0 .. n /\ k - 1 < k
  BY <1>2, <1>3
<1>5. P[k - 1] = Q[k - 1]
  <2>1. k - 1 \notin T
    <3> HIDE DEF T
    <3> QED BY <1>1, <1>2, <1>4
  <2> QED BY <1>4, <2>1
<1> QED BY <1>2, <1>4, <1>5

\* The total of sums is the sum of the totals.
LEMMA TotalAdds ==
  ASSUME NEW u \in Seq(Int), NEW v \in Seq(Int), NEW w \in Seq(Int),
         Len(u) = Len(v), Len(w) = Len(v), \A i \in 1 .. Len(v) : u[i] = v[i] + w[i]
  PROVE  TotalOfAll(u) = TotalOfAll(v) + TotalOfAll(w)
<1> DEFINE n == Len(v)
<1>0. n \in Nat
  OBVIOUS
<1>1. PICK P : SumsOf(P, u) /\ TotalOfAll(u) = P[n]
  BY TotalIsLast
<1>2. PICK Q : SumsOf(Q, v) /\ TotalOfAll(v) = Q[n]
  BY TotalIsLast
<1>3. PICK R : SumsOf(R, w) /\ TotalOfAll(w) = R[n]
  BY TotalIsLast
<1>4. /\ P[0] = 0 /\ \A k \in 1 .. n : P[k] = P[k - 1] + u[k]
      /\ Q[0] = 0 /\ Q \in [0 .. n -> Int] /\ \A k \in 1 .. n : Q[k] = Q[k - 1] + v[k]
      /\ R[0] = 0 /\ R \in [0 .. n -> Int] /\ \A k \in 1 .. n : R[k] = R[k - 1] + w[k]
  BY <1>1, <1>2, <1>3 DEF SumsOf
<1> DEFINE S == [k \in 0 .. n |-> Q[k] + R[k]]
<1>5. P[0] = S[0]
  BY <1>0, <1>4
<1>6. ASSUME NEW k \in 1 .. n, P[k - 1] = S[k - 1] PROVE P[k] = S[k]
  <2>1. k \in 0 .. n /\ k - 1 \in 0 .. n
    BY <1>0
  <2>2. P[k - 1] = Q[k - 1] + R[k - 1] /\ S[k] = Q[k] + R[k]
    BY <1>6, <2>1
  <2>3. P[k] = P[k - 1] + u[k] /\ Q[k] = Q[k - 1] + v[k] /\ R[k] = R[k - 1] + w[k]
    BY <1>4
  <2>4. u[k] = v[k] + w[k] /\ v[k] \in Int /\ w[k] \in Int /\ Q[k - 1] \in Int /\ R[k - 1] \in Int
    <3>1. Q[k - 1] \in Int /\ R[k - 1] \in Int
      BY <1>4, <2>1
    <3>2. u[k] = v[k] + w[k] /\ v[k] \in Int /\ w[k] \in Int
      OBVIOUS
    <3> QED BY <3>1, <3>2
  <2>5. PICK a \in Int, b \in Int, c \in Int, d \in Int :
          a = Q[k - 1] /\ b = R[k - 1] /\ c = v[k] /\ d = w[k]
    BY <2>4
  <2>6. P[k] = (a + b) + (c + d) /\ S[k] = (a + c) + (b + d)
    BY <2>2, <2>3, <2>4, <2>5
  <2> QED BY <2>6
<1> HIDE DEF S
<1>7. P[n] = S[n]
  BY <1>0, <1>5, <1>6, GrowAlike
<1>8. S[n] = Q[n] + R[n]
  BY <1>0 DEF S
<1> QED BY <1>1, <1>2, <1>3, <1>7, <1>8

\* Reversing keeps a total.
LEMMA TotalReversed ==
  ASSUME NEW v \in Seq(Int)
  PROVE  Reverse(v) \in Seq(Int) /\ Len(Reverse(v)) = Len(v) /\ TotalOfAll(Reverse(v)) = TotalOfAll(v)
<1> DEFINE n == Len(v)
           r == Reverse(v)
<1>0. n \in Nat
  OBVIOUS
<1>1. r = [i \in 1 .. n |-> v[(n - i) + 1]]
  BY DEF Reverse
<1>2. ASSUME NEW i \in 1 .. n PROVE (n - i) + 1 \in 1 .. n /\ v[(n - i) + 1] \in Int
  <2>1. (n - i) + 1 \in 1 .. n
    BY <1>0
  <2> QED BY <2>1
<1>3. r \in Seq(Int) /\ Len(r) = n /\ \A i \in 1 .. n : r[i] = v[(n - i) + 1]
  BY <1>0, <1>1, <1>2
<1> HIDE DEF r
<1>4. PICK P : SumsOf(P, v) /\ TotalOfAll(v) = P[n]
  BY TotalIsLast
<1>5. PICK Q : SumsOf(Q, r) /\ TotalOfAll(r) = Q[n]
  BY <1>3, TotalIsLast
<1>6. /\ P[0] = 0 /\ P \in [0 .. n -> Int] /\ \A k \in 1 .. n : P[k] = P[k - 1] + v[k]
      /\ Q[0] = 0 /\ \A k \in 1 .. n : Q[k] = Q[k - 1] + r[k]
  BY <1>3, <1>4, <1>5 DEF SumsOf
<1> DEFINE S == [k \in 0 .. n |-> P[n] - P[n - k]]
<1>7. Q[0] = S[0]
  <2>1. P[n] \in Int /\ n - 0 = n
    BY <1>0, <1>6
  <2> QED BY <1>0, <1>6, <2>1
<1>8. ASSUME NEW k \in 1 .. n, Q[k - 1] = S[k - 1] PROVE Q[k] = S[k]
  <2> DEFINE j == (n - k) + 1
  <2>1. /\ k \in 0 .. n /\ k - 1 \in 0 .. n /\ n - (k - 1) = j /\ n - k = j - 1
        /\ j \in 1 .. n /\ j \in 0 .. n /\ j - 1 \in 0 .. n /\ n \in 0 .. n
    BY <1>0
  <2>2. Q[k - 1] = P[n] - P[j] /\ S[k] = P[n] - P[j - 1]
    BY <1>8, <2>1
  <2>3. Q[k] = Q[k - 1] + v[j]
    BY <1>3, <1>6
  <2> HIDE DEF j
  <2>4. P[j] = P[j - 1] + v[j] /\ v[j] \in Int /\ P[n] \in Int /\ P[j - 1] \in Int
    <3>1. P[n] \in Int /\ P[j - 1] \in Int
      BY <1>6, <2>1
    <3>2. v[j] \in Int
      BY <2>1
    <3>3. P[j] = P[j - 1] + v[j]
      BY <1>6, <2>1
    <3> QED BY <3>1, <3>2, <3>3
  <2> QED BY <2>2, <2>3, <2>4
<1> HIDE DEF S
<1>9. Q[n] = S[n]
  BY <1>0, <1>7, <1>8, GrowAlike
<1>10. S[n] = P[n]
  <2>1. P[n] \in Int /\ n - n = 0
    BY <1>0, <1>6
  <2> QED BY <1>0, <1>6, <2>1 DEF S
<1> QED BY <1>3, <1>4, <1>5, <1>9, <1>10 DEF r

\* Every score lies in one bin.
LEMMA InOneBin ==
  ASSUME NEW s \in 0 .. Scale
  PROVE  /\ \E bin \in 0 .. Bins - 1 : InBin(bin, s)
         /\ \A bin, other \in 0 .. Bins - 1 : InBin(bin, s) /\ InBin(other, s) => bin = other
<1>0. Scale \in Nat \ {0} /\ Bins \in Nat \ {0} /\ s \in Nat /\ s <= Scale
  BY CalibrationConstants
<1>1. \E bin \in 0 .. Bins - 1 : InBin(bin, s)
  <2>1. CASE s = Scale
    <3>1. Bins - 1 \in 0 .. Bins - 1
      BY <1>0
    <3> QED BY <2>1, <3>1 DEF InBin
  <2>2. CASE s # Scale
    <3> DEFINE T == {b \in Nat : s * Bins < (b + 1) * Scale}
    <3>1. Bins - 1 \in T
      <4>1. s < Scale /\ Bins - 1 \in Nat /\ (Bins - 1) + 1 = Bins
        BY <1>0, <2>2
      <4>2. s * Bins < Bins * Scale
        <5>1. (Scale - s) * Bins > 0
          <6>1. Scale - s \in Nat \ {0}
            BY <1>0, <4>1
          <6>2. \A x, y \in Nat \ {0} : x * y > 0
            OBVIOUS
          <6> QED BY <1>0, <6>1, <6>2
        <5>2. (Scale - s) * Bins = Bins * Scale - s * Bins
          BY <1>0
        <5>3. s * Bins \in Int /\ Bins * Scale \in Int
          BY <1>0
        <5> QED BY <5>1, <5>2, <5>3
      <4> QED BY <4>1, <4>2
    <3>2. PICK b \in T : \A c \in T : b <= c
      <4>1. T \in SUBSET Nat /\ T # {}
        BY <3>1
      <4> HIDE DEF T
      <4> QED BY <4>1, Adding!LeastExists
    <3>3. b \in Nat /\ s * Bins < (b + 1) * Scale /\ b <= Bins - 1
      BY <3>1, <3>2
    <3>4. b \in 0 .. Bins - 1
      BY <1>0, <3>3
    <3>5. b * Scale <= s * Bins
      <4>0. b * Scale \in Int /\ s * Bins \in Int
        BY <1>0, <3>3
      <4>1. CASE b = 0
        <5>1. b * Scale = 0 /\ s * Bins \in Nat
          BY <1>0, <4>1
        <5> QED BY <5>1
      <4>2. CASE b # 0
        <5>1. b - 1 \in Nat /\ b - 1 < b /\ (b - 1) + 1 = b
          BY <3>3, <4>2
        <5>2. b - 1 \notin T
          <6> HIDE DEF T
          <6> QED BY <3>2, <3>3, <5>1
        <5>3. ~(s * Bins < b * Scale)
          BY <5>1, <5>2
        <5> QED BY <4>0, <5>3
      <4> QED BY <4>1, <4>2
    <3> QED BY <3>3, <3>4, <3>5 DEF InBin, Within
  <2> QED BY <2>1, <2>2
<1>2. ASSUME NEW b \in 0 .. Bins - 1, NEW d \in 0 .. Bins - 1, b < d, Within(b, s), Within(d, s)
      PROVE  FALSE
  <2>1. b \in Nat /\ d \in Nat /\ b + 1 <= d
    BY <1>0, <1>2
  <2>2. (b + 1) * Scale <= d * Scale
    BY <1>0, <2>1, TimesKeeps
  <2>3. s * Bins < (b + 1) * Scale /\ d * Scale <= s * Bins
    BY <1>2 DEF Within
  <2>4. s * Bins \in Int /\ (b + 1) * Scale \in Int /\ d * Scale \in Int
    BY <1>0, <2>1
  <2> QED BY <2>2, <2>3, <2>4
<1>3. ASSUME NEW b \in 0 .. Bins - 1, s = Scale, Within(b, s) PROVE FALSE
  <2>1. b \in Nat /\ b + 1 <= Bins
    BY <1>0
  <2>2. (b + 1) * Scale <= Bins * Scale
    BY <1>0, <2>1, TimesKeeps
  <2>3. Scale * Bins < (b + 1) * Scale
    BY <1>3 DEF Within
  <2>4. Scale * Bins = Bins * Scale /\ Scale * Bins \in Int /\ (b + 1) * Scale \in Int
    BY <1>0, <2>1
  <2> QED BY <2>2, <2>3, <2>4
<1>4. ASSUME NEW b \in 0 .. Bins - 1, NEW d \in 0 .. Bins - 1, InBin(b, s), InBin(d, s)
      PROVE  b = d
  <2>1. CASE s = Scale
    BY <1>3, <1>4, <2>1 DEF InBin
  <2>2. CASE s # Scale
    <3>1. Within(b, s) /\ Within(d, s)
      BY <1>4, <2>2 DEF InBin
    <3>2. b < d \/ d < b \/ b = d
      BY <1>0
    <3> QED BY <1>2, <3>1, <3>2
  <2> QED BY <2>1, <2>2
<1> QED BY <1>1, <1>4

\* How much the scores of the observations of S exceed their labels.
Excess(S) ==
  [i \in DOMAIN outcomes |-> IF i \in S THEN outcomes[i].score - Scale * outcomes[i].label ELSE 0]

Size(x) == IF x < 0 THEN -x ELSE x

\* The size of a sum is at most the sum of the sizes.
LEMMA SizeOfSum ==
  ASSUME NEW a \in Int, NEW b \in Int, NEW c \in Int, Size(a) <= c
  PROVE  Size(a + b) <= c + Size(b)
BY DEF Size

\* The gap of a bucket is the size of the total of these.
LEMMA GapIs ==
  ASSUME outcomes \in Seq(Pairs), NEW S
  PROVE  /\ Excess(S) \in Seq(Int) /\ Len(Excess(S)) = Len(outcomes)
         /\ TotalOfAll(Excess(S)) \in Int
         /\ Gap(S) = Size(TotalOfAll(Excess(S))) /\ Gap(S) \in Int
<1> DEFINE n == Len(outcomes)
<1>1. n \in Nat /\ DOMAIN outcomes = 1 .. n
  OBVIOUS
<1>2. ASSUME NEW i \in 1 .. n PROVE outcomes[i].score - Scale * outcomes[i].label \in Int
  <2>1. outcomes[i] \in Pairs
    OBVIOUS
  <2>2. outcomes[i].score \in Int /\ outcomes[i].label \in Int /\ Scale \in Int
    BY <2>1, CalibrationConstants DEF Pairs
  <2>3. \A x, y, z \in Int : x - y * z \in Int
    OBVIOUS
  <2> QED BY <2>2, <2>3
<1>3. Excess(S) \in Seq(Int) /\ Len(Excess(S)) = n
  <2>1. Excess(S) = [i \in 1 .. n |-> IF i \in S THEN outcomes[i].score - Scale * outcomes[i].label ELSE 0]
    BY <1>1 DEF Excess
  <2>2. \A i \in 1 .. n : (IF i \in S THEN outcomes[i].score - Scale * outcomes[i].label ELSE 0) \in Int
    BY <1>2
  <2> QED BY <1>1, <2>1, <2>2
<1>4. TotalOfAll(Excess(S)) \in Int
  BY <1>3, TotalIsInt
<1>5. Gap(S) = Size(TotalOfAll(Excess(S)))
  BY DEF Gap, Size, Excess
<1>6. Gap(S) \in Int
  BY <1>4, <1>5 DEF Size
<1> QED BY <1>3, <1>4, <1>5, <1>6

\* What is in one of two disjoint buckets adds up.
LEMMA ExcessAdds ==
  ASSUME outcomes \in Seq(Pairs), NEW S, NEW T, S \cap T = {}
  PROVE  TotalOfAll(Excess(S \cup T)) = TotalOfAll(Excess(S)) + TotalOfAll(Excess(T))
<1> DEFINE n == Len(outcomes)
           e == [i \in 1 .. n |-> outcomes[i].score - Scale * outcomes[i].label]
<1>1. n \in Nat /\ DOMAIN outcomes = 1 .. n
  OBVIOUS
<1>2. ASSUME NEW i \in 1 .. n PROVE e[i] \in Int
  <2>1. outcomes[i] \in Pairs
    OBVIOUS
  <2>2. outcomes[i].score \in Int /\ outcomes[i].label \in Int /\ Scale \in Int
    BY <2>1, CalibrationConstants DEF Pairs
  <2>3. \A x, y, z \in Int : x - y * z \in Int
    OBVIOUS
  <2> QED BY <2>2, <2>3
<1>3. ASSUME NEW U, NEW i \in 1 .. n PROVE Excess(U)[i] = IF i \in U THEN e[i] ELSE 0
  BY <1>1 DEF Excess
<1> HIDE DEF e
<1>4. ASSUME NEW i \in 1 .. n PROVE Excess(S \cup T)[i] = Excess(S)[i] + Excess(T)[i]
  <2>1. /\ Excess(S \cup T)[i] = IF i \in S \cup T THEN e[i] ELSE 0
        /\ Excess(S)[i] = IF i \in S THEN e[i] ELSE 0
        /\ Excess(T)[i] = IF i \in T THEN e[i] ELSE 0
    BY <1>3
  <2>2. ~(i \in S /\ i \in T)
    OBVIOUS
  <2> QED BY <1>2, <2>1, <2>2
<1>5. /\ Excess(S \cup T) \in Seq(Int) /\ Len(Excess(S \cup T)) = n
      /\ Excess(S) \in Seq(Int) /\ Len(Excess(S)) = n
      /\ Excess(T) \in Seq(Int) /\ Len(Excess(T)) = n
  BY GapIs
<1> DEFINE u == Excess(S \cup T)
           v == Excess(S)
           w == Excess(T)
<1>6. /\ u \in Seq(Int) /\ v \in Seq(Int) /\ w \in Seq(Int) /\ Len(u) = Len(v) /\ Len(w) = Len(v)
      /\ \A i \in 1 .. Len(v) : u[i] = v[i] + w[i]
  BY <1>4, <1>5
<1> HIDE DEF u, v, w
<1>7. TotalOfAll(u) = TotalOfAll(v) + TotalOfAll(w)
  BY <1>6, TotalAdds
<1> QED BY <1>7 DEF u, v, w

\* The overall gap is at most the sum of the gaps of the bins.
LEMMA GapWithinError ==
  ASSUME outcomes \in Seq(Pairs)
  PROVE  Gap(DOMAIN outcomes) <= CalibrationError
<1> DEFINE n == Len(outcomes)
           g == [bin \in 1 .. Bins |-> Gap(InBucket(bin - 1))]
           U(k) == {i \in DOMAIN outcomes : \E bin \in 0 .. k - 1 : InBin(bin, outcomes[i].score)}
<1>0. n \in Nat /\ DOMAIN outcomes = 1 .. n /\ Bins \in Nat
  BY CalibrationConstants
<1>1. ASSUME NEW i \in 1 .. n PROVE outcomes[i].score \in 0 .. Scale
  <2>1. outcomes[i] \in Pairs
    OBVIOUS
  <2> QED BY <2>1 DEF Pairs
<1>2. g \in Seq(Int) /\ Len(g) = Bins /\ \A k \in 1 .. Bins : g[k] = Gap(InBucket(k - 1)) /\ g[k] \in Int
  <2>1. \A bin \in 1 .. Bins : Gap(InBucket(bin - 1)) \in Int
    BY GapIs
  <2> QED BY <1>0, <2>1
<1>3. CalibrationError = TotalOfAll(g)
  BY DEF CalibrationError
<1> HIDE DEF g
<1>4. PICK Q : SumsOf(Q, g) /\ TotalOfAll(g) = Q[Bins]
  BY <1>2, TotalIsLast
<1>5. Q \in [0 .. Bins -> Int] /\ Q[0] = 0 /\ \A k \in 1 .. Bins : Q[k] = Q[k - 1] + g[k]
  BY <1>2, <1>4 DEF SumsOf
<1>6. U(Bins) = DOMAIN outcomes
  BY <1>0, <1>1, InOneBin
<1>7. ASSUME NEW k \in 1 .. Bins
      PROVE  U(k) = U(k - 1) \cup InBucket(k - 1) /\ U(k - 1) \cap InBucket(k - 1) = {}
  <2>0. /\ k - 1 \in 0 .. Bins - 1 /\ k - 1 \in 0 .. k - 1
        /\ \A b \in 0 .. k - 1 : b \in 0 .. (k - 1) - 1 \/ b = k - 1
        /\ \A b \in 0 .. (k - 1) - 1 : b \in 0 .. k - 1 /\ b \in 0 .. Bins - 1 /\ b # k - 1
    BY <1>0
  <2>1. U(k) = U(k - 1) \cup InBucket(k - 1)
    BY <2>0 DEF InBucket
  <2>2. ASSUME NEW i \in U(k - 1), i \in InBucket(k - 1) PROVE FALSE
    <3>1. i \in 1 .. n /\ InBin(k - 1, outcomes[i].score)
      BY <1>0, <2>2 DEF InBucket
    <3>2. PICK b \in 0 .. (k - 1) - 1 : InBin(b, outcomes[i].score)
      OBVIOUS
    <3> QED BY <1>1, <2>0, <3>1, <3>2, InOneBin
  <2> QED BY <2>1, <2>2
<1> DEFINE E(k) == TotalOfAll(Excess(U(k)))
           T == {k \in 0 .. Bins : ~(Size(E(k)) <= Q[k])}
<1>8. \A k : E(k) \in Int
  BY GapIs
<1>9. T = {}
  <2> SUFFICES ASSUME T # {} PROVE FALSE
    OBVIOUS
  <2>1. PICK k \in T : \A j \in T : k <= j
    <3>1. T \in SUBSET Nat
      BY <1>0
    <3> HIDE DEF T
    <3> QED BY <3>1, Adding!LeastExists
  <2>2. k \in 0 .. Bins /\ ~(Size(E(k)) <= Q[k])
    OBVIOUS
  <2>3. k # 0
    <3> SUFFICES ASSUME k = 0 PROVE FALSE
      OBVIOUS
    <3>1. U(0) = {}
      OBVIOUS
    <3>2. E(0) = 0
      <4>1. TotalOfAll(Excess({} \cup {})) = TotalOfAll(Excess({})) + TotalOfAll(Excess({}))
        BY ExcessAdds
      <4>2. TotalOfAll(Excess({})) \in Int /\ {} \cup {} = {}
        BY GapIs
      <4>3. TotalOfAll(Excess({})) = 0
        BY <4>1, <4>2
      <4> QED BY <3>1, <4>3
    <3>3. Size(E(0)) = 0
      BY <3>2 DEF Size
    <3> QED BY <1>5, <2>2, <3>3
  <2>4. k \in 1 .. Bins /\ k - 1 \in 0 .. Bins /\ k - 1 < k
    BY <1>0, <2>2, <2>3
  <2>5. Size(E(k - 1)) <= Q[k - 1]
    <3>1. k - 1 \notin T
      <4> HIDE DEF T
      <4> QED BY <1>0, <2>1, <2>2, <2>4
    <3> QED BY <2>4, <3>1
  <2>6. E(k) = E(k - 1) + TotalOfAll(Excess(InBucket(k - 1)))
    <3>1. U(k) = U(k - 1) \cup InBucket(k - 1) /\ U(k - 1) \cap InBucket(k - 1) = {}
      BY <1>7, <2>4
    <3> HIDE DEF U
    <3> QED BY <3>1, ExcessAdds
  <2>7. g[k] = Size(TotalOfAll(Excess(InBucket(k - 1)))) /\ TotalOfAll(Excess(InBucket(k - 1))) \in Int
    BY <1>2, <2>4, GapIs
  <2>8. PICK a \in Int, b \in Int, c \in Int :
          /\ a = E(k - 1) /\ b = TotalOfAll(Excess(InBucket(k - 1))) /\ c = Q[k - 1]
          /\ E(k) = a + b /\ Size(a) <= c /\ Q[k] = c + Size(b)
    <3>1. Q[k] = Q[k - 1] + g[k] /\ Q[k - 1] \in Int
      BY <1>5, <2>4
    <3> HIDE DEF E
    <3> QED BY <1>8, <2>5, <2>6, <2>7, <3>1
  <2>9. Size(a + b) <= c + Size(b)
    BY <2>8, SizeOfSum
  <2> HIDE DEF E
  <2> QED BY <2>2, <2>8, <2>9
<1>10. Size(E(Bins)) <= Q[Bins]
  <2>1. Bins \in 0 .. Bins
    BY <1>0
  <2> QED BY <1>9, <2>1
<1>11. Gap(DOMAIN outcomes) = Size(E(Bins))
  <2>1. Gap(DOMAIN outcomes) = Size(TotalOfAll(Excess(DOMAIN outcomes)))
    BY GapIs
  <2> HIDE DEF U
  <2> QED BY <1>6, <2>1
<1> HIDE DEF E
<1> QED BY <1>3, <1>4, <1>10, <1>11

\* The conformal rank is one of the observations, and covers its share of the errors
\* unless it is the last of them.
LEMMA RankIs ==
  ASSUME NEW n \in Nat \ {0}, Len(outcomes) = n, NEW percent \in {2, 5, 10}
  PROVE  LET r == ConformalRank(percent)
         IN  r \in 1 .. n /\ (r # n => percent * r >= (percent - 1) * (n + 1))
<1> DEFINE c == ((n + 1) * (percent - 1) + percent - 1) \div percent
<1>1. c \in Nat \ {0} /\ percent * c >= (percent - 1) * (n + 1)
  <2>1. CASE percent = 2
    <3>1. c = (n + 2) \div 2
      BY <2>1
    <3> QED BY <2>1, <3>1
  <2>2. CASE percent = 5
    <3>1. c = (4 * n + 8) \div 5
      BY <2>2
    <3> QED BY <2>2, <3>1
  <2>3. CASE percent = 10
    <3>1. c = (9 * n + 18) \div 10
      BY <2>3
    <3> QED BY <2>3, <3>1
  <2> QED BY <2>1, <2>2, <2>3
<1>2. ConformalRank(percent) = Min({n, c})
  BY DEF ConformalRank
<1> HIDE DEF c
<1>3. Min({n, c}) = IF n <= c THEN n ELSE c
  BY <1>1 DEF Min
<1> QED BY <1>1, <1>2, <1>3

\* Of observations in order, as many as its rank are no larger than the bound.
LEMMA BoundCovers ==
  ASSUME outcomes \in Seq(Pairs), Ascending(outcomes), outcomes # <<>>, NEW percent \in {2, 5, 10}
  PROVE  LET bound == ConformalBound(percent)
             below == Cardinality({i \in DOMAIN outcomes : outcomes[i].score <= bound})
         IN  \/ percent * below >= (percent - 1) * (Len(outcomes) + 1)
             \/ bound = outcomes[Len(outcomes)].score
<1> DEFINE n == Len(outcomes)
           r == ConformalRank(percent)
           S == {i \in DOMAIN outcomes : outcomes[i].score <= outcomes[r].score}
<1>1. n \in Nat \ {0} /\ DOMAIN outcomes = 1 .. n
  BY EmptySeq
<1>2. r \in 1 .. n /\ (r # n => percent * r >= (percent - 1) * (n + 1))
  BY <1>1, RankIs
<1> HIDE DEF r
<1>10. r \in Nat /\ 1 <= r /\ r <= n
  <2>1. \A x \in 1 .. n : x \in Nat /\ 1 <= x /\ x <= n
    BY <1>1
  <2> QED BY <1>2, <2>1, Zenon
<1>3. ASSUME NEW i \in 1 .. n PROVE outcomes[i].score \in Int
  <2>1. outcomes[i] \in Pairs
    OBVIOUS
  <2>2. Scale \in Nat
    BY CalibrationConstants
  <2>3. outcomes[i].score \in 0 .. Scale
    BY <2>1 DEF Pairs
  <2> QED BY <2>2, <2>3
<1>4. 1 .. r \in SUBSET S
  <2> SUFFICES ASSUME NEW i \in 1 .. r PROVE i \in S
    OBVIOUS
  <2>1. i \in 1 .. n /\ (i < r \/ i = r)
    <3>1. i \in Int /\ 1 <= i /\ i <= r
      BY <1>10
    <3> QED BY <1>1, <1>10, <3>1
  <2>2. CASE i = r
    <3>1. outcomes[r].score \in Int
      BY <1>2, <1>3
    <3>2. \A x \in Int : x <= x
      OBVIOUS
    <3>3. outcomes[i].score <= outcomes[r].score
      BY <2>2, <3>1, <3>2
    <3> QED BY <1>1, <2>1, <3>3
  <2>3. CASE i < r
    <3>1. ~Before(outcomes[r], outcomes[i])
      BY <1>1, <1>2, <2>1, <2>3 DEF Ascending
    <3>2. ~(outcomes[r].score < outcomes[i].score)
      BY <3>1 DEF Before
    <3>3. outcomes[i].score <= outcomes[r].score
      BY <1>2, <1>3, <2>1, <3>2
    <3> QED BY <1>1, <2>1, <3>3
  <2> QED BY <2>1, <2>2, <2>3
<1>5. S \in SUBSET (1 .. n)
  BY <1>1
<1> DEFINE below == Cardinality(S)
<1> HIDE DEF S
<1>6. IsFiniteSet(S)
  <2>1. IsFiniteSet(1 .. n)
    BY <1>1, FS_Interval
  <2> QED BY <1>5, <2>1, FS_Subset
<1>7. below \in Nat /\ r <= below
  <2>1. Cardinality(1 .. r) = r
    <3>1. 1 \in Int /\ r \in Int /\ ~(1 > r) /\ r - 1 + 1 = r
      BY <1>10
    <3> QED BY <3>1, FS_Interval
  <2> QED BY <1>4, <1>6, <2>1, FS_Subset, FS_CardinalityType
<1> HIDE DEF below
<1>8. CASE r = n
  BY <1>8 DEF ConformalBound, r
<1>9. CASE r # n
  <2>1. percent * below >= (percent - 1) * (n + 1)
    <3>1. percent * r >= (percent - 1) * (n + 1)
      BY <1>2, <1>9
    <3>2. CASE percent = 2
      BY <1>1, <1>7, <1>10, <3>1, <3>2
    <3>3. CASE percent = 5
      BY <1>1, <1>7, <1>10, <3>1, <3>3
    <3>4. CASE percent = 10
      BY <1>1, <1>7, <1>10, <3>1, <3>4
    <3> QED BY <3>2, <3>3, <3>4
  <2> QED BY <2>1 DEF ConformalBound, r, S, below
<1> QED BY <1>8, <1>9

\* Accepting everything costs the overall error rate.
LEMMA RiskOfAll ==
  ASSUME outcomes \in Seq(Pairs), outcomes # <<>>
  PROVE  Last(RiskCurve) = Len(outcomes) - TotalOfAll(Labels(outcomes))
<1> DEFINE n == Len(outcomes)
           v == Labels(outcomes)
           r == Reverse(v)
<1>1. n \in Nat \ {0} /\ DOMAIN outcomes = 1 .. n
  BY EmptySeq
<1>2. v \in Seq(Int) /\ Len(v) = n
  BY LabelsAre
<1>3. r \in Seq(Int) /\ Len(r) = n /\ TotalOfAll(r) = TotalOfAll(v)
  BY <1>2, TotalReversed
<1>4. RiskCurve = [m \in 1 .. n |-> m - TotalOfAll(SubSeq(r, 1, m))]
  BY <1>1 DEF RiskCurve
<1> HIDE DEF r, v
<1>5. SubSeq(r, 1, n) = r
  <2>1. /\ SubSeq(r, 1, n) \in Seq(Int) /\ Len(SubSeq(r, 1, n)) = n
        /\ \A i \in 1 .. n : SubSeq(r, 1, n)[i] = r[i]
    <3>1. /\ SubSeq(r, 1, n) \in Seq(Int) /\ Len(SubSeq(r, 1, n)) = n
          /\ \A i \in 1 .. n : SubSeq(r, 1, n)[i] = r[1 + i - 1]
      BY <1>1, <1>3, SubSeqProperties
    <3> QED BY <3>1
  <2> QED BY <1>1, <1>3, <2>1
<1>6. Last(RiskCurve) = n - TotalOfAll(SubSeq(r, 1, n))
  <2>1. Len(RiskCurve) = n
    BY <1>1, <1>4
  <2>2. n \in 1 .. n
    BY <1>1
  <2>3. RiskCurve[n] = n - TotalOfAll(SubSeq(r, 1, n))
    BY <1>4, <2>2
  <2> QED BY <2>1, <2>3 DEF Last
<1> QED BY <1>3, <1>5, <1>6 DEF v

\* The metrics of observations in order.
LEMMA MetricsAccount ==
  ASSUME outcomes \in Seq(Pairs), Ascending(outcomes)
  PROVE  MetricsAccountForAll
BY GapWithinError, BoundCovers, RiskOfAll DEF MetricsAccountForAll

\* Observations are pairs of a score and a label, in order.
ObservedInv == outcomes \in Seq(Pairs) /\ Ascending(outcomes)

\* Collecting an observation keeps them so.
LEMMA ObserveKeeps ==
  ASSUME outcomes \in Seq(Pairs), FitsNext
  PROVE  ObservedInv'
<1>1. PICK pair \in Pairs : ObserveOutcome(pair)
  BY DEF FitsNext, Pairs
<1>2. PICK n \in 1 .. Len(outcomes) + 1 : outcomes' = InsertAt(outcomes, n, pair)
  BY <1>1 DEF ObserveOutcome
<1>3. outcomes' \in Seq(Pairs)
  <2>1. SubSeq(outcomes, 1, n - 1) \in Seq(Pairs)
    BY SubSeqProperties
  <2>2. SubSeq(outcomes, n, Len(outcomes)) \in Seq(Pairs)
    BY SubSeqProperties
  <2>3. <<pair>> \in Seq(Pairs)
    OBVIOUS
  <2> QED BY <1>2, <2>1, <2>2, <2>3, ConcatProperties DEF InsertAt
<1>4. Ascending(outcomes')
  BY <1>1 DEF ObserveOutcome
<1> QED BY <1>3, <1>4 DEF ObservedInv, Ascending

\* fit_isotonic and evaluate_calibration, for every scale, number of bins and
\* history of observations: the fit is the best non-decreasing one, and the metrics
\* count every observation once.
THEOREM FitsAreBest == FitsSpec => []FitsInvariant
<1>1. FitsInit => ObservedInv
  BY EmptySeq DEF FitsInit, ObservedInv, Ascending
<1>2. ObservedInv /\ [FitsNext]_outcomes => ObservedInv'
  <2> SUFFICES ASSUME ObservedInv, [FitsNext]_outcomes PROVE ObservedInv'
    OBVIOUS
  <2>1. CASE FitsNext
    BY <2>1, ObserveKeeps DEF ObservedInv
  <2>2. CASE UNCHANGED outcomes
    BY <2>2 DEF ObservedInv, Ascending
  <2> QED BY <2>1, <2>2
<1>3. ObservedInv => FitsInvariant
  BY IsotonicBest, MetricsAccount DEF ObservedInv, FitsInvariant
<1> QED BY <1>1, <1>2, <1>3, PTL DEF FitsSpec

----------------------------------------------------------------------------
(* LearnedPolicies: the log *)

ThoseStep(S, kept, x) == IF x \in S THEN Append(kept, x) ELSE kept
OutcomeStep(p, n, x) == n + Corrected(x)
WeightStep(target, n, x) == n + Weight(x, target)
WeightedStep(target, n, x) == n + Weight(x, target) * Corrected(x)
SquareStep(target, n, x) == n + Weight(x, target) * Weight(x, target)
PartStep(propensity, n, a) == n + propensity[a]

Choosing == INSTANCE FoldTheorems WITH Step <- ThoseStep
Rewarding == INSTANCE FoldTheorems WITH Step <- OutcomeStep
Weighing == INSTANCE FoldTheorems WITH Step <- WeightStep
Crediting == INSTANCE FoldTheorems WITH Step <- WeightedStep
Squaring == INSTANCE FoldTheorems WITH Step <- SquareStep
Parting == INSTANCE FoldTheorems WITH Step <- PartStep

\* The filter, as a fold of the fold theorems.
LEMMA ThoseIsRun == \A s, S : Those(s, S) = Choosing!Run(S, <<>>, s)
BY DEF Those, ThoseStep, FoldLeft, MapThenFoldSet, Max,
       Choosing!Run, Choosing!FoldLeft, Choosing!MapThenFoldSet, Choosing!Max

\* Its result is made of what it is given.
LEMMA ThoseAreSome ==
  ASSUME NEW T, NEW s \in Seq(T), NEW S
  PROVE  Those(s, S) \in Seq(T)
<1> DEFINE A == Seq(T)
<1>1. <<>> \in A
  OBVIOUS
<1>2. \A k \in DOMAIN s : \A a \in A : ThoseStep(S, a, s[k]) \in A
  BY DEF ThoseStep
<1> HIDE DEF A
<1>3. Choosing!Run(S, <<>>, s) \in A
  BY <1>1, <1>2, Choosing!RunStays
<1> QED BY <1>3, ThoseIsRun DEF A

\* So are the sums of the evaluation.
LEMMA SumsAreRuns ==
  /\ \A s : Total(Corrected, s) = Rewarding!Run({}, 0, s)
  /\ \A s, target : Total(LAMBDA x : Weight(x, target), s) = Weighing!Run(target, 0, s)
  /\ \A s, target : Total(LAMBDA x : Weight(x, target) * Corrected(x), s)
                      = Crediting!Run(target, 0, s)
  /\ \A s, target : Total(LAMBDA x : Weight(x, target) * Weight(x, target), s)
                      = Squaring!Run(target, 0, s)
  /\ \A s, propensity : Total(LAMBDA a : propensity[a], s) = Parting!Run(propensity, 0, s)
<1>1. \A s : Total(Corrected, s) = Rewarding!Run({}, 0, s)
  BY DEF Total, OutcomeStep, FoldLeft, MapThenFoldSet, Max,
         Rewarding!Run, Rewarding!FoldLeft, Rewarding!MapThenFoldSet, Rewarding!Max
<1>2. \A s, target : Total(LAMBDA x : Weight(x, target), s) = Weighing!Run(target, 0, s)
  BY DEF Total, WeightStep, FoldLeft, MapThenFoldSet, Max,
         Weighing!Run, Weighing!FoldLeft, Weighing!MapThenFoldSet, Weighing!Max
<1>3. \A s, target : Total(LAMBDA x : Weight(x, target) * Corrected(x), s)
                       = Crediting!Run(target, 0, s)
  BY DEF Total, WeightedStep, FoldLeft, MapThenFoldSet, Max,
         Crediting!Run, Crediting!FoldLeft, Crediting!MapThenFoldSet, Crediting!Max
<1>4. \A s, target : Total(LAMBDA x : Weight(x, target) * Weight(x, target), s)
                       = Squaring!Run(target, 0, s)
  BY DEF Total, SquareStep, FoldLeft, MapThenFoldSet, Max,
         Squaring!Run, Squaring!FoldLeft, Squaring!MapThenFoldSet, Squaring!Max
<1>5. \A s, propensity : Total(LAMBDA a : propensity[a], s) = Parting!Run(propensity, 0, s)
  BY DEF Total, PartStep, FoldLeft, MapThenFoldSet, Max,
         Parting!Run, Parting!FoldLeft, Parting!MapThenFoldSet, Parting!Max
<1> QED BY <1>1, <1>2, <1>3, <1>4, <1>5

\* Arithmetic of the weights.
LEMMA Cancels ==
  ASSUME NEW w \in Nat, NEW p \in Nat \ {0}
  PROVE  (w * p) \div p = w
OBVIOUS

LEMMA Distributes ==
  ASSUME NEW w \in Nat, NEW n \in Nat, NEW c \in {0, 1}
  PROVE  w * n + w * c = w * (n + c)
OBVIOUS

LEMMA Rescales ==
  ASSUME NEW w \in Nat, NEW t \in Nat, NEW n \in Nat
  PROVE  /\ Equal(<<w * t, w * n>>, <<t, n>>)
         /\ Equal(<<(w * n) * (w * n), (w * w) * n>>, <<n, 1>>)
<1>1. w * t \in Nat /\ w * n \in Nat /\ w * w \in Nat
  OBVIOUS
<1>2. (w * t) * n = t * (w * n)
  OBVIOUS
<1>3. ((w * n) * (w * n)) * 1 = n * ((w * w) * n)
  OBVIOUS
<1> QED BY <1>2, <1>3 DEF Equal

\* What an example is.
LEMMA ExampleType ==
  ASSUME NEW x \in Examples
  PROVE  /\ x.action \in DOMAIN x.propensity /\ x.propensity[x.action] \in Nat \ {0}
         /\ Corrected(x) \in {0, 1}
<1>1. x \in [action : Actions, propensity : UNION {[S -> 1..PropensityParts] : S \in SUBSET Actions},
             outcome : {0, 1}, correction : {PendingYet, 0, 1},
             censored : BOOLEAN, violated : BOOLEAN]
  BY DEF Examples
<1>2. x.action \in DOMAIN x.propensity
  BY DEF Examples, ValidExample
<1>3. Corrected(x) \in {0, 1}
  BY <1>1 DEF Corrected
<1>4. PICK S \in SUBSET Actions : x.propensity \in [S -> 1..PropensityParts]
  BY <1>1
<1>5. x.propensity[x.action] \in 1..PropensityParts
  BY <1>2, <1>4
<1> QED BY <1>2, <1>3, <1>5, UnitsAssumption

\* The target that keeps every propensity of the log.
OwnTarget == [x \in Range(log) |-> x.propensity]

\* Against itself every example weighs one unit, and none is left out.
LEMMA SelfWeights ==
  ASSUME log \in Seq(Examples)
  PROVE  /\ \A x \in Range(log) : x \in Examples /\ Weight(x, OwnTarget) = WeightUnit
         /\ Rows(OwnTarget) = Usable(log)
         /\ Usable(log) \in Seq(Range(log))
<1>1. \A x \in Range(log) : x \in Examples
  BY DEF Range
<1>2. \A x \in Range(log) : OwnTarget[x] = x.propensity
  BY DEF OwnTarget
<1>3. ASSUME NEW x \in Range(log) PROVE Weight(x, OwnTarget) = WeightUnit
  <2>1. x.propensity[x.action] \in Nat \ {0} /\ WeightUnit \in Nat
    BY <1>1, ExampleType, UnitsAssumption
  <2>2. Weight(x, OwnTarget) = (WeightUnit * x.propensity[x.action]) \div x.propensity[x.action]
    BY <1>2 DEF Weight
  <2> QED BY <2>1, <2>2, Cancels
<1>4. \A x \in Range(log) : Kept(x, OwnTarget[x][x.action]) <=> ~x.censored
  BY <1>1, <1>2, ExampleType DEF Kept
<1>5. {x \in Range(log) : Kept(x, OwnTarget[x][x.action])} = {x \in Range(log) : ~x.censored}
  BY <1>4
<1>6. Rows(OwnTarget) = Usable(log)
  BY <1>5 DEF Rows, Usable
<1>7. log \in Seq(Range(log))
  BY DEF Range
<1>8. Usable(log) \in Seq(Range(log))
  BY <1>7, ThoseAreSome DEF Usable
<1> QED BY <1>1, <1>3, <1>6, <1>8

\* The sums of the evaluation of a policy on rows that weigh one unit each.
LEMMA SelfSums ==
  ASSUME NEW target, NEW T, NEW rows \in Seq(T),
         \A x \in T : Corrected(x) \in {0, 1} /\ Weight(x, target) = WeightUnit
  PROVE  /\ Rewarding!Run({}, 0, rows) \in Nat
         /\ Crediting!Run(target, 0, rows) = WeightUnit * Rewarding!Run({}, 0, rows)
         /\ Weighing!Run(target, 0, rows) = WeightUnit * Len(rows)
         /\ Squaring!Run(target, 0, rows) = (WeightUnit * WeightUnit) * Len(rows)
<1> DEFINE n == Len(rows)
           f == Rewarding!Iter({}, 0, rows, n)
<1>1. /\ n \in Nat /\ DOMAIN rows = 1 .. n /\ n = Len(rows) /\ WeightUnit \in Nat
      /\ \A k \in 1 .. n : rows[k] \in T
  BY UnitsAssumption
<1>2. /\ f[{}] = 0
      /\ \A k \in 1 .. n : f[1 .. k] = OutcomeStep({}, f[1 .. k - 1], rows[k])
  BY Rewarding!IterIs
<1>3. Rewarding!Run({}, 0, rows) = f[1 .. n]
  BY <1>1, Rewarding!RunIsIter
<1> HIDE DEF n, f
<1>4. \A k \in 0 .. n : f[1 .. k] \in Nat
  <2> DEFINE U == {k \in 0 .. n : f[1 .. k] \notin Nat}
  <2> SUFFICES ASSUME U # {} PROVE FALSE
    OBVIOUS
  <2>1. PICK k \in U : \A j \in U : k <= j
    <3>1. U \in SUBSET Nat
      BY <1>1
    <3> HIDE DEF U
    <3> QED BY <3>1, Rewarding!LeastExists
  <2>2. k \in 0 .. n /\ f[1 .. k] \notin Nat
    OBVIOUS
  <2>3. k # 0
    <3>1. 1 .. 0 = {}
      OBVIOUS
    <3> QED BY <1>2, <2>2, <3>1
  <2>4. f[1 .. k - 1] \in Nat
    <3>1. k - 1 \in 0 .. n /\ k - 1 \notin U
      <4> HIDE DEF U
      <4> QED BY <1>1, <2>1, <2>2, <2>3
    <3> QED BY <3>1
  <2>5. k \in 1 .. n
    BY <1>1, <2>2, <2>3
  <2>6. Corrected(rows[k]) \in {0, 1}
    BY <1>1, <2>5
  <2> QED BY <1>2, <2>2, <2>4, <2>5, <2>6 DEF OutcomeStep
<1>5. Crediting!Run(target, 0, rows) \in {WeightUnit * f[1 .. n]}
  <2> DEFINE A == [k \in 0 .. n |-> {WeightUnit * f[1 .. k]}]
  <2>1. 0 \in A[0]
    <3>1. 1 .. 0 = {} /\ 0 \in 0 .. n
      BY <1>1
    <3> QED BY <1>1, <1>2, <3>1
  <2>2. ASSUME NEW k \in 1 .. n, NEW a \in A[k - 1]
        PROVE  WeightedStep(target, a, rows[k]) \in A[k]
    <3>1. k - 1 \in 0 .. n /\ k \in 0 .. n
      BY <1>1
    <3>2. a = WeightUnit * f[1 .. k - 1] /\ f[1 .. k - 1] \in Nat
      BY <1>4, <3>1
    <3>3. Corrected(rows[k]) \in {0, 1} /\ Weight(rows[k], target) = WeightUnit
      BY <1>1
    <3>4. WeightedStep(target, a, rows[k])
            = WeightUnit * (f[1 .. k - 1] + Corrected(rows[k]))
      BY <1>1, <3>2, <3>3, Distributes DEF WeightedStep
    <3>5. f[1 .. k] = f[1 .. k - 1] + Corrected(rows[k])
      BY <1>2 DEF OutcomeStep
    <3> QED BY <3>1, <3>4, <3>5
  <2> HIDE DEF A
  <2>3. Crediting!Run(target, 0, rows) \in A[Len(rows)]
    BY <1>1, <2>1, <2>2, Crediting!RunAdvances
  <2> QED BY <1>1, <2>3 DEF A
<1>6. Weighing!Run(target, 0, rows) \in {WeightUnit * n}
  <2> DEFINE A == [k \in 0 .. n |-> {WeightUnit * k}]
  <2>1. 0 \in A[0]
    BY <1>1
  <2>2. ASSUME NEW k \in 1 .. n, NEW a \in A[k - 1]
        PROVE  WeightStep(target, a, rows[k]) \in A[k]
    <3>1. k - 1 \in 0 .. n /\ k \in 0 .. n /\ k - 1 \in Nat /\ (k - 1) + 1 = k
      BY <1>1
    <3>2. a = WeightUnit * (k - 1) /\ Weight(rows[k], target) = WeightUnit
      BY <1>1, <3>1
    <3>3. WeightUnit * (k - 1) + WeightUnit * 1 = WeightUnit * ((k - 1) + 1)
      BY <1>1, <3>1, Distributes
    <3> QED BY <1>1, <3>1, <3>2, <3>3 DEF WeightStep
  <2> HIDE DEF A
  <2>3. Weighing!Run(target, 0, rows) \in A[Len(rows)]
    BY <1>1, <2>1, <2>2, Weighing!RunAdvances
  <2> QED BY <1>1, <2>3 DEF A
<1>7. Squaring!Run(target, 0, rows) \in {(WeightUnit * WeightUnit) * n}
  <2> DEFINE u == WeightUnit * WeightUnit
             A == [k \in 0 .. n |-> {u * k}]
  <2>1. 0 \in A[0] /\ u \in Nat
    BY <1>1
  <2>2. ASSUME NEW k \in 1 .. n, NEW a \in A[k - 1]
        PROVE  SquareStep(target, a, rows[k]) \in A[k]
    <3>1. k - 1 \in 0 .. n /\ k \in 0 .. n /\ k - 1 \in Nat /\ (k - 1) + 1 = k
      BY <1>1
    <3>2. a = u * (k - 1) /\ Weight(rows[k], target) = WeightUnit
      BY <1>1, <3>1
    <3>3. SquareStep(target, a, rows[k]) = u * (k - 1) + u
      BY <3>2 DEF SquareStep
    <3> HIDE DEF u
    <3>4. u * (k - 1) + u * 1 = u * ((k - 1) + 1)
      BY <2>1, <3>1, Distributes
    <3> QED BY <2>1, <3>1, <3>3, <3>4
  <2>3. Squaring!Run(target, 0, rows) \in A[Len(rows)]
    <3> HIDE DEF A
    <3> QED BY <1>1, <2>1, <2>2, Squaring!RunAdvances
  <2> QED BY <1>1, <2>3
<1> QED BY <1>1, <1>3, <1>4, <1>5, <1>6, <1>7

\* Evaluated on its own log a policy is given the mean it had there.
LEMMA SelfEvaluation ==
  ASSUME log \in Seq(Examples)
  PROVE  SelfEvaluationExact
<1> DEFINE known == Usable(log)
           n == Len(known)
           sum == Total(Corrected, known)
           credit == Total(LAMBDA x : Weight(x, OwnTarget) * Corrected(x), known)
           weights == Total(LAMBDA x : Weight(x, OwnTarget), known)
           squares == Total(LAMBDA x : Weight(x, OwnTarget) * Weight(x, OwnTarget), known)
<1>1. Rows(OwnTarget) = known /\ known \in Seq(Range(log)) /\ n \in Nat /\ WeightUnit \in Nat
  BY SelfWeights, UnitsAssumption
<1>2. \A x \in Range(log) : Corrected(x) \in {0, 1} /\ Weight(x, OwnTarget) = WeightUnit
  BY SelfWeights, ExampleType
<1>3. /\ sum \in Nat /\ credit = WeightUnit * sum /\ weights = WeightUnit * n
      /\ squares = (WeightUnit * WeightUnit) * n
  <2> HIDE DEF known
  <2>1. /\ sum = Rewarding!Run({}, 0, known) /\ credit = Crediting!Run(OwnTarget, 0, known)
        /\ weights = Weighing!Run(OwnTarget, 0, known) /\ squares = Squaring!Run(OwnTarget, 0, known)
    BY SumsAreRuns
  <2> HIDE DEF sum, credit, weights, squares
  <2> QED BY <1>1, <1>2, <2>1, SelfSums
<1>4. /\ Estimate(OwnTarget).ips = <<credit, WeightUnit * n>>
      /\ Estimate(OwnTarget).snips = <<credit, weights>>
      /\ Estimate(OwnTarget).ess = <<weights * weights, squares>>
  <2> HIDE DEF known
  <2> QED BY <1>1 DEF Estimate
<1>5. SelfEvaluationExact <=>
        LET estimate == Estimate(OwnTarget)
        IN  known # <<>> => /\ Equal(estimate.ips, <<sum, n>>)
                            /\ Equal(estimate.snips, estimate.ips)
                            /\ Equal(estimate.ess, <<n, 1>>)
  BY DEF SelfEvaluationExact, OwnTarget
<1> HIDE DEF known, n, sum, credit, weights, squares
<1>6. Equal(<<credit, weights>>, <<credit, WeightUnit * n>>)
  BY <1>3 DEF Equal
<1>7. /\ Equal(<<credit, WeightUnit * n>>, <<sum, n>>)
      /\ Equal(<<weights * weights, squares>>, <<n, 1>>)
  BY <1>1, <1>3, Rescales
<1> QED BY <1>4, <1>5, <1>6, <1>7

----------------------------------------------------------------------------
(* LearnedPolicies: the order of the candidates *)

\* SetToSeq lists a finite set, each member once.
LEMMA ListsAll ==
  ASSUME NEW S, IsFiniteSet(S)
  PROVE  /\ Cardinality(S) \in Nat
         /\ SetToSeq(S) \in [1 .. Cardinality(S) -> S]
         /\ \A i, j \in 1 .. Cardinality(S) : SetToSeq(S)[i] = SetToSeq(S)[j] => i = j
         /\ \A v \in S : \E i \in 1 .. Cardinality(S) : SetToSeq(S)[i] = v
<1> DEFINE n == Cardinality(S)
<1>1. n \in Nat /\ ExistsBijection(1 .. n, S)
  BY FS_CardinalityType
<1> HIDE DEF n
<1>2. PICK g \in [1 .. n -> S] : IsInjective(g)
  BY <1>1 DEF ExistsBijection, Bijection, Injection
<1>3. SetToSeq(S) = CHOOSE f \in [1 .. n -> S] : IsInjective(f)
  BY DEF SetToSeq, n
<1>4. SetToSeq(S) \in [1 .. n -> S] /\ IsInjective(SetToSeq(S))
  BY <1>2, <1>3
<1>5. SetToSeq(S) \in Surjection(1 .. n, S)
  <2>1. SetToSeq(S) \in Injection(1 .. n, S)
    BY <1>4 DEF Injection
  <2>2. IsFiniteSet(1 .. n) /\ Cardinality(1 .. n) = Cardinality(S)
    BY <1>1, FS_Interval DEF n
  <2> QED BY <2>1, <2>2, FS_Injection
<1> QED BY <1>1, <1>4, <1>5 DEF Surjection, IsInjective, n

\* What is predicted is a number, once there is a fit.
LEMMA PredictionType ==
  ASSUME fitted \in Seq(Examples), fitted # <<>>, NEW a
  PROVE  PredictedOutcome(a) \in Int
<1> DEFINE sample == Sample(a)
           sum == Total(Corrected, sample)
<1>1. sample \in Seq(Examples) /\ sample # <<>>
  BY ThoseAreSome DEF Sample, Bucket
<1> HIDE DEF sample
<1>2. sum \in Nat
  <2>1. \A x \in Examples : Corrected(x) \in {0, 1}
    BY ExampleType
  <2>2. \A k \in DOMAIN sample : \A n \in Nat : OutcomeStep({}, n, sample[k]) \in Nat
    BY <1>1, <2>1 DEF OutcomeStep
  <2> DEFINE N == Nat
  <2>3. 0 \in N
    OBVIOUS
  <2>4. \A k \in DOMAIN sample : \A n \in N : OutcomeStep({}, n, sample[k]) \in N
    BY <2>2
  <2> HIDE DEF N
  <2>5. Rewarding!Run({}, 0, sample) \in N
    BY <1>1, <2>3, <2>4, Rewarding!RunStays
  <2> QED BY <2>5, SumsAreRuns DEF N
<1>3. Len(sample) \in Nat \ {0}
  BY <1>1
<1>4. PredictedOutcome(a) = (MeanUnit * sum) \div Len(sample)
  BY DEF PredictedOutcome, sample
<1>5. MeanUnit * sum \in Nat
  BY <1>2, UnitsAssumption
<1> HIDE DEF sum
<1> QED BY <1>3, <1>4, <1>5

\* The candidates of a decision: actions, each once.
LEMMA RankedType ==
  ASSUME fitted \in Seq(Examples), NEW safe \in SUBSET Actions
  PROVE  LET n == Cardinality({a \in safe : WithinRisk(a)})
         IN  /\ n \in Nat
             /\ Ranked(safe) \in [1 .. n -> Actions]
             /\ \A i, j \in 1 .. n : Ranked(safe)[i] = Ranked(safe)[j] => i = j
<1> DEFINE E == {a \in safe : WithinRisk(a)}
           better(a, b) == \/ PredictedOutcome(a) > PredictedOutcome(b)
                           \/ PredictedOutcome(a) = PredictedOutcome(b) /\ a < b
           R == {r \in E \X E : better(r[1], r[2])}
           n == Cardinality(E)
<1>1. IsFiniteSet(E) /\ E \subseteq Actions /\ E \subseteq Nat
  <2>1. E \in SUBSET Actions
    OBVIOUS
  <2> QED BY <2>1, UnitsAssumption, FS_Subset
<1>2. \A a \in E : PredictedOutcome(a) \in Int
  BY PredictionType DEF WithinRisk
<1>3. \A a, b \in E : <<a, b>> \in R <=> better(a, b)
  OBVIOUS
<1> HIDE DEF E, R
<1>4. Ordered(E, R)
  <2>1. ASSUME NEW u \in E, NEW v \in E, NEW w \in E
        PROVE  /\ ~better(v, v)
               /\ better(u, v) /\ better(v, w) => better(u, w)
               /\ v = w \/ better(v, w) \/ better(w, v)
    BY <1>1, <1>2
  <2> HIDE DEF better
  <2> QED BY <1>3, <2>1 DEF Ordered
<1>5. \A v \in E : Preceding(E, R, v) = {b \in E : better(b, v)}
  BY <1>3 DEF Preceding
<1>6. Ranked(safe) = RankedBy(E, R)
  <2>1. Ranked(safe) = [i \in 1 .. n |->
                          CHOOSE a \in E : Cardinality({b \in E : better(b, a)}) = i - 1]
    BY DEF Ranked, E
  <2> HIDE DEF better
  <2>2. \A i : (CHOOSE a \in E : Cardinality({b \in E : better(b, a)}) = i - 1)
               = (CHOOSE a \in E : Cardinality(Preceding(E, R, a)) = i - 1)
    BY <1>5
  <2> QED BY <2>1, <2>2 DEF RankedBy
<1>7. /\ n \in Nat
      /\ Ranked(safe) \in [1 .. n -> E]
      /\ \A i, j \in 1 .. n : Ranked(safe)[i] = Ranked(safe)[j] => i = j
  BY <1>1, <1>4, <1>6, RanksList
<1> QED BY <1>1, <1>7 DEF E

----------------------------------------------------------------------------
(* LearnedPolicies: decisions *)

LEMMA Shares ==
  ASSUME NEW e \in Nat, NEW n \in Nat \ {0}
  PROVE  e \div n \in Nat /\ e \div n <= e /\ e \div n <= n * (e \div n)
<1>1. e \div n \in Nat
  OBVIOUS
<1>2. ASSUME NEW q \in Nat PROVE q <= n * q
  OBVIOUS
<1>3. n * (e \div n) <= e
  OBVIOUS
<1>4. n * (e \div n) \in Int
  BY <1>1
<1> QED BY <1>1, <1>2, <1>3, <1>4

\* Numbers at most PropensityParts; that they are positive is tested when logged.
Chances == {k \in Int : k <= PropensityParts}

IsOffer(d) ==
  /\ d.action \in Actions /\ d.action \in DOMAIN d.propensity
  /\ DOMAIN d.propensity \in SUBSET Actions
  /\ d.propensity \in [DOMAIN d.propensity -> Chances]
  /\ Total(LAMBDA a : d.propensity[a], SetToSeq(DOMAIN d.propensity)) = PropensityParts

Shared(S, best, share, rest, q) ==
  /\ IsFiniteSet(S) /\ best \in S /\ share \in Int /\ rest \in Int
  /\ q[best] = share + rest /\ \A a \in S \ {best} : q[a] = share

\* What is shared out evenly, and the rest given to one, sums to the whole.
LEMMA SharesSum ==
  ASSUME NEW S, NEW best, NEW share, NEW rest, NEW q, Shared(S, best, share, rest, q)
  PROVE  Parting!Run(q, 0, SetToSeq(S)) = Cardinality(S) * share + rest
<1> USE DEF Shared
<1> DEFINE n == Cardinality(S)
           s == SetToSeq(S)
           A == [k \in 0 .. n |-> {k * share + (IF \E i \in 1 .. k : s[i] = best THEN rest ELSE 0)}]
<1>1. /\ n \in Nat /\ s \in [1 .. n -> S]
      /\ \A i, j \in 1 .. n : s[i] = s[j] => i = j
      /\ \E i \in 1 .. n : s[i] = best
  BY ListsAll
<1> HIDE DEF s, n
<1>2. s \in Seq(S) /\ Len(s) = n
  BY <1>1
<1>3. 0 \in A[0]
  BY <1>1
<1>4. ASSUME NEW k \in 1 .. n, NEW v \in A[k - 1]
      PROVE  PartStep(q, v, s[k]) \in A[k]
  <2>1. k - 1 \in 0 .. n /\ k \in 0 .. n /\ k \in Int /\ s[k] \in S
    BY <1>1
  <2>2. v = (k - 1) * share + (IF \E i \in 1 .. k - 1 : s[i] = best THEN rest ELSE 0)
    BY <2>1
  <2>3. PartStep(q, v, s[k]) = v + (share + (IF s[k] = best THEN rest ELSE 0))
    BY <2>1 DEF PartStep
  <2>4. k * share \in Int /\ (k - 1) * share \in Int /\ (k - 1) * share + share = k * share
    BY <2>1
  <2>5. CASE s[k] = best
    <3>1. ~ \E i \in 1 .. k - 1 : s[i] = best
      BY <1>1, <2>1, <2>5
    <3>2. \E i \in 1 .. k : s[i] = best
      BY <2>1, <2>5
    <3>3. PartStep(q, v, s[k]) = k * share + rest
      BY <2>2, <2>3, <2>4, <2>5, <3>1
    <3> QED BY <2>1, <3>2, <3>3
  <2>6. CASE s[k] # best
    <3>1. (\E i \in 1 .. k : s[i] = best) <=> (\E i \in 1 .. k - 1 : s[i] = best)
      BY <2>1, <2>6
    <3> DEFINE bonus == IF \E i \in 1 .. k - 1 : s[i] = best THEN rest ELSE 0
    <3>2. bonus \in Int /\ v = (k - 1) * share + bonus
      BY <2>2
    <3>3. A[k] = {k * share + bonus}
      BY <2>1, <3>1
    <3> HIDE DEF bonus, A
    <3>4. PartStep(q, v, s[k]) = k * share + bonus
      BY <2>3, <2>4, <2>6, <3>2
    <3> QED BY <3>3, <3>4
  <2> QED BY <2>5, <2>6
<1>5. A[n] = {n * share + rest}
  BY <1>1
<1> HIDE DEF A
<1>6. Parting!Run(q, 0, s) \in A[Len(s)]
  BY <1>2, <1>3, <1>4, Parting!RunAdvances
<1>7. Parting!Run(q, 0, s) = n * share + rest
  BY <1>2, <1>5, <1>6
<1> QED BY <1>7 DEF s, n

\* A decision gives each candidate its share and the best one the rest.
LEMMA PropensitiesType ==
  ASSUME NEW n \in Nat \ {0}, NEW ranked \in [1 .. n -> Actions],
         \A i, j \in 1 .. n : ranked[i] = ranked[j] => i = j
  PROVE  /\ DOMAIN Propensities(ranked) = Range(ranked)
         /\ Range(ranked) \in SUBSET Actions
         /\ Propensities(ranked) \in [Range(ranked) -> Chances]
         /\ Total(LAMBDA a : Propensities(ranked)[a], SetToSeq(Range(ranked))) = PropensityParts
<1> DEFINE S == Range(ranked)
           share == ExplorationParts \div n
           rest == PropensityParts - n * share
           q == Propensities(ranked)
<1>1. /\ Len(ranked) = n /\ ranked \in [1 .. n -> S] /\ S \in SUBSET Actions
      /\ ranked[1] \in S
  BY DEF Range
<1>2. /\ PropensityParts \in Nat /\ ExplorationParts \in Nat
      /\ 10 * ExplorationParts <= PropensityParts
  BY UnitsAssumption
<1>3. share \in Nat /\ share <= ExplorationParts /\ share <= n * share
  BY <1>2, Shares
<1>4. n * share \in Int /\ rest \in Int /\ rest <= PropensityParts - share
  <2> HIDE DEF share
  <2>1. n * share \in Int
    BY <1>3
  <2> QED BY <1>2, <1>3, <2>1
<1>5. q = [a \in S |-> share + (IF a = ranked[1] THEN rest ELSE 0)]
  BY <1>1 DEF Propensities
<1>6. IsFiniteSet(S) /\ Cardinality(S) = n
  <2>1. ranked \in Bijection(1 .. n, S)
    BY <1>1 DEF Bijection, Injection, Surjection, IsInjective, Range
  <2>2. ExistsBijection(1 .. n, S)
    BY <2>1 DEF ExistsBijection
  <2>3. IsFiniteSet(1 .. n) /\ Cardinality(1 .. n) = n
    BY FS_Interval
  <2> HIDE DEF S
  <2> QED BY <2>2, <2>3, FS_Bijection
<1> HIDE DEF S, share, rest, q
<1>7. q \in [S -> Chances] /\ q \in [S -> Int]
  BY <1>2, <1>3, <1>4, <1>5 DEF Chances
<1>8. q[ranked[1]] = share + rest /\ \A a \in S \ {ranked[1]} : q[a] = share
  BY <1>1, <1>3, <1>5
<1>9. Total(LAMBDA a : q[a], SetToSeq(S)) = n * share + rest
  <2>1. share \in Int
    BY <1>3
  <2>2. Shared(S, ranked[1], share, rest, q)
    BY <1>1, <1>4, <1>6, <1>8, <2>1 DEF Shared
  <2>3. Parting!Run(q, 0, SetToSeq(S)) = Cardinality(S) * share + rest
    BY <2>2, SharesSum
  <2>4. Parting!Run(q, 0, SetToSeq(S)) = n * share + rest
    BY <1>6, <2>3
  <2> QED BY <2>4, SumsAreRuns
<1>10. n * share + rest = PropensityParts
  BY <1>2, <1>4 DEF rest
<1> QED BY <1>1, <1>5, <1>7, <1>9, <1>10 DEF S, q

\* So does the fallback, which has everything.
LEMMA FallbackType ==
  LET q == [a \in {Fallback} |-> PropensityParts]
  IN  IsOffer([action |-> Fallback, by |-> None, propensity |-> q])
<1> DEFINE q == [a \in {Fallback} |-> PropensityParts]
           S == {Fallback}
<1>1. PropensityParts \in Nat /\ Fallback \in Actions
  BY UnitsAssumption
<1>2. q \in [S -> Chances] /\ DOMAIN q = S /\ S \in SUBSET Actions /\ q \in [S -> Int]
  BY <1>1 DEF Chances
<1>3. IsFiniteSet(S) /\ Cardinality(S) = 1
  BY FS_Singleton
<1>4. Fallback \in S /\ q[Fallback] = 0 + PropensityParts /\ \A a \in S \ {Fallback} : q[a] = 0
  BY <1>1
<1> HIDE DEF S, q
<1>5. Shared(S, Fallback, 0, PropensityParts, q)
  BY <1>1, <1>3, <1>4 DEF Shared
<1>6. Parting!Run(q, 0, SetToSeq(S)) = Cardinality(S) * 0 + PropensityParts
  BY <1>5, SharesSum
<1>7. Total(LAMBDA a : q[a], SetToSeq(S)) = PropensityParts
  <2>1. Parting!Run(q, 0, SetToSeq(S)) = PropensityParts
    BY <1>1, <1>3, <1>6
  <2> QED BY <2>1, SumsAreRuns
<1> DEFINE d == [action |-> Fallback, by |-> None, propensity |-> q]
<1>8. d.action = Fallback /\ d.propensity = q
  OBVIOUS
<1> HIDE DEF d
<1>9. IsOffer(d)
  BY <1>1, <1>2, <1>4, <1>7, <1>8 DEF IsOffer
<1> QED BY <1>9 DEF d, q

\* Whatever is selected is one of the candidates.
LEMMA SelectionType ==
  ASSUME NEW n \in Nat \ {0}, NEW ranked \in [1 .. n -> Actions], NEW index \in Indices
  PROVE  Selected(ranked, index) \in Range(ranked)
<1>1. Len(ranked) = n /\ index \in Int
  BY UnitsAssumption
<1>2. (index % n) + 1 \in 1 .. n /\ 1 \in 1 .. n
  BY <1>1
<1>3. ranked[(index % n) + 1] \in Range(ranked) /\ ranked[1] \in Range(ranked)
  BY <1>2 DEF Range
<1> QED BY <1>1, <1>3 DEF Selected

----------------------------------------------------------------------------
(* LearnedPolicies: the specification *)

LearnedInv ==
  /\ DOMAIN policyLifecycle \subseteq Policies
  /\ policyLifecycle \in [DOMAIN policyLifecycle -> PolicyLifecycle]
  /\ DOMAIN evidence \subseteq DOMAIN policyLifecycle
  /\ killed \in BOOLEAN
  /\ log \in Seq(Examples)
  /\ fitted \in Seq(Examples)
  /\ pending = <<>> \/ IsOffer(pending[1])

\* Logging an offer whose actions could all be taken makes an example.
LEMMA OffersLog ==
  ASSUME NEW d, IsOffer(d), \A a \in DOMAIN d.propensity : d.propensity[a] > 0,
         NEW outcome \in {0, 1}, NEW censored \in BOOLEAN, NEW violated \in BOOLEAN
  PROVE  [action |-> d.action, propensity |-> d.propensity, outcome |-> outcome,
          correction |-> PendingYet, censored |-> censored, violated |-> violated] \in Examples
<1> DEFINE x == [action |-> d.action, propensity |-> d.propensity, outcome |-> outcome,
                 correction |-> PendingYet, censored |-> censored, violated |-> violated]
           S == DOMAIN d.propensity
<1>1. S \in SUBSET Actions /\ d.propensity \in [S -> Chances] /\ d.action \in Actions
  BY DEF IsOffer
<1>2. d.propensity \in [S -> 1..PropensityParts]
  BY <1>1, UnitsAssumption DEF Chances
<1>3. d.propensity \in UNION {[T -> 1..PropensityParts] : T \in SUBSET Actions}
  BY <1>1, <1>2
<1>4. x.action = d.action /\ x.propensity = d.propensity
  OBVIOUS
<1>5. ValidExample(x)
  <2> HIDE DEF x
  <2> QED BY <1>4 DEF ValidExample, IsOffer
<1>6. x \in [action : Actions, propensity : UNION {[T -> 1..PropensityParts] : T \in SUBSET Actions},
             outcome : {0, 1}, correction : {PendingYet, 0, 1},
             censored : BOOLEAN, violated : BOOLEAN]
  <2> DEFINE Q == UNION {[T -> 1..PropensityParts] : T \in SUBSET Actions}
  <2>1. d.propensity \in Q
    BY <1>3
  <2> HIDE DEF Q
  <2>2. x \in [action : Actions, propensity : Q, outcome : {0, 1}, correction : {PendingYet, 0, 1},
               censored : BOOLEAN, violated : BOOLEAN]
    BY <1>1, <2>1
  <2> QED BY <2>2 DEF Q
<1> HIDE DEF x
<1>7. x \in Examples
  BY <1>5, <1>6 DEF Examples
<1> QED BY <1>7 DEF x

\* A correction leaves an example one.
LEMMA CorrectionLogs ==
  ASSUME NEW x \in Examples, NEW c \in {0, 1}
  PROVE  [x EXCEPT !.correction = c] \in Examples
<1> DEFINE y == [x EXCEPT !.correction = c]
           Q == UNION {[T -> 1..PropensityParts] : T \in SUBSET Actions}
           R == [action : Actions, propensity : Q, outcome : {0, 1},
                 correction : {PendingYet, 0, 1}, censored : BOOLEAN, violated : BOOLEAN]
<1>1. x \in R /\ ValidExample(x)
  BY DEF Examples
<1> HIDE DEF Q
<1>2. y \in R /\ y.action = x.action /\ y.propensity = x.propensity
  BY <1>1
<1> HIDE DEF y, R
<1>3. ValidExample(y)
  BY <1>1, <1>2 DEF ValidExample
<1>4. y \in Examples
  BY <1>2, <1>3 DEF Examples, R, Q
<1> QED BY <1>4 DEF y

\* A decision is an offer, the learned one and the fallback.
LEMMA SelectPreserves ==
  ASSUME LearnedInv, NEW p, NEW risk, NEW safe \in SUBSET Actions, NEW index \in Indices,
         SelectByPolicy(p, risk, safe, index)
  PROVE  IsOffer(pending'[1])
<1> DEFINE ranked == Ranked(safe)
           n == Cardinality({a \in safe : WithinRisk(a)})
<1>1. CASE CanExecute(p, risk) /\ ranked # <<>>
  <2>1. pending'[1] = [action |-> Selected(ranked, index), by |-> p,
                       propensity |-> Propensities(ranked)]
    BY <1>1 DEF SelectByPolicy
  <2>2. /\ n \in Nat /\ ranked \in [1 .. n -> Actions]
        /\ \A i, j \in 1 .. n : ranked[i] = ranked[j] => i = j
    BY RankedType DEF LearnedInv
  <2> HIDE DEF ranked, n
  <2>3. n \in Nat \ {0}
    BY <1>1, <2>2
  <2>4. /\ DOMAIN Propensities(ranked) = Range(ranked) /\ Range(ranked) \in SUBSET Actions
        /\ Propensities(ranked) \in [Range(ranked) -> Chances]
        /\ Total(LAMBDA a : Propensities(ranked)[a], SetToSeq(Range(ranked))) = PropensityParts
    BY <2>2, <2>3, PropensitiesType
  <2>5. Selected(ranked, index) \in Range(ranked)
    BY <2>2, <2>3, SelectionType
  <2> DEFINE d == [action |-> Selected(ranked, index), by |-> p, propensity |-> Propensities(ranked)]
  <2>6. d.action = Selected(ranked, index) /\ d.propensity = Propensities(ranked)
    OBVIOUS
  <2> HIDE DEF d
  <2>7. IsOffer(d)
    BY <2>4, <2>5, <2>6 DEF IsOffer
  <2> QED BY <2>1, <2>7 DEF d
<1>2. CASE ~(CanExecute(p, risk) /\ ranked # <<>>)
  <2>1. pending'[1] = [action |-> Fallback, by |-> None,
                       propensity |-> [a \in {Fallback} |-> PropensityParts]]
    BY <1>2 DEF SelectByPolicy
  <2> QED BY <2>1, FallbackType
<1> QED BY <1>1, <1>2

\* Every step of the decisions, of their log and of the registry.
LEMMA LearnedStep ==
  ASSUME LearnedInv, [LearnedNext]_learnedVars
  PROVE  LearnedInv'
<1>1. CASE UNCHANGED learnedVars
  BY <1>1 DEF LearnedInv, learnedVars
<1>2. CASE Fit
  <2>1. Usable(log) \in Seq(Examples)
    BY ThoseAreSome DEF Usable, LearnedInv
  <2> QED BY <1>2, <2>1 DEF Fit, LearnedInv
<1>3. CASE SwitchKill
  BY <1>3 DEF SwitchKill, LearnedInv
<1>4. CASE Observe
  <2>1. log' \in Seq(Examples)
    <3>1. CASE UNCHANGED log
      BY <3>1 DEF LearnedInv
    <3>2. CASE ~UNCHANGED log
      <4>1. IsOffer(pending[1])
        BY <1>4 DEF Observe, LearnedInv
      <4>2. PICK outcome \in {0, 1}, censored \in BOOLEAN, violated \in BOOLEAN :
              log' = Append(log, [action |-> pending[1].action,
                propensity |-> pending[1].propensity, outcome |-> outcome,
                correction |-> PendingYet, censored |-> censored, violated |-> violated])
        BY <1>4, <3>2 DEF Observe
      <4>3. \A a \in DOMAIN pending[1].propensity : pending[1].propensity[a] > 0
        BY <1>4, <3>2 DEF Observe
      <4>4. [action |-> pending[1].action, propensity |-> pending[1].propensity, outcome |-> outcome,
             correction |-> PendingYet, censored |-> censored, violated |-> violated] \in Examples
        BY <4>1, <4>3, OffersLog
      <4> QED BY <4>2, <4>4 DEF LearnedInv
    <3> QED BY <3>1, <3>2
  <2> QED BY <1>4, <2>1 DEF Observe, LearnedInv
<1>5. CASE Correct
  <2>1. PICK i \in DOMAIN log : log' = [log EXCEPT ![i].correction = 1 - log[i].outcome]
    BY <1>5 DEF Correct
  <2>2. log \in Seq(Examples) /\ log[i] \in Examples
    BY <2>1 DEF LearnedInv
  <2>3. 1 - log[i].outcome \in {0, 1}
    BY <2>2 DEF Examples
  <2>4. [log[i] EXCEPT !.correction = 1 - log[i].outcome] \in Examples
    BY <2>2, <2>3, CorrectionLogs
  <2>5. log' = [log EXCEPT ![i] = [log[i] EXCEPT !.correction = 1 - log[i].outcome]]
    BY <2>1
  <2>6. log' \in Seq(Examples)
    BY <2>2, <2>4, <2>5
  <2> QED BY <1>5, <2>6 DEF Correct, LearnedInv
<1>6. ASSUME NEW p \in Policies, RegisterPolicy(p) PROVE LearnedInv'
  <2>1. /\ DOMAIN policyLifecycle' = DOMAIN policyLifecycle \cup {p}
        /\ policyLifecycle' \in [DOMAIN policyLifecycle \cup {p} -> PolicyLifecycle]
    BY <1>6 DEF RegisterPolicy, LearnedInv, PolicyLifecycle
  <2> QED BY <1>6, <2>1 DEF RegisterPolicy, LearnedInv
<1>7. ASSUME NEW p \in Policies, RecordEvidence(p) PROVE LearnedInv'
  <2>1. DOMAIN evidence' = DOMAIN evidence \cup {p} /\ p \in DOMAIN policyLifecycle
    BY <1>7 DEF RecordEvidence
  <2>2. UNCHANGED <<policyLifecycle, killed, log, fitted, pending>>
    BY <1>7 DEF RecordEvidence
  <2> QED BY <2>1, <2>2 DEF LearnedInv
<1>8. ASSUME NEW p \in Policies, PromoteCanary(p) PROVE LearnedInv'
  <2>1. /\ DOMAIN policyLifecycle' = DOMAIN policyLifecycle
        /\ policyLifecycle' \in [DOMAIN policyLifecycle -> PolicyLifecycle]
    BY <1>8 DEF PromoteCanary, LearnedInv, PolicyLifecycle
  <2> QED BY <1>8, <2>1 DEF PromoteCanary, LearnedInv
<1>9. ASSUME NEW p \in Policies, PromoteActive(p) PROVE LearnedInv'
  <2>1. /\ DOMAIN policyLifecycle' = DOMAIN policyLifecycle
        /\ policyLifecycle' \in [DOMAIN policyLifecycle -> PolicyLifecycle]
    BY <1>9 DEF PromoteActive, LearnedInv, PolicyLifecycle
  <2> QED BY <1>9, <2>1 DEF PromoteActive, LearnedInv
<1>10. ASSUME NEW p \in Policies, RollbackPolicy(p) PROVE LearnedInv'
  <2>1. /\ DOMAIN policyLifecycle' = DOMAIN policyLifecycle
        /\ policyLifecycle' \in [DOMAIN policyLifecycle -> PolicyLifecycle]
    BY <1>10 DEF RollbackPolicy, LearnedInv, PolicyLifecycle
  <2> QED BY <1>10, <2>1 DEF RollbackPolicy, LearnedInv
<1>11. ASSUME NEW p \in Policies, NEW risk, NEW safe \in SUBSET Actions, NEW index \in Indices,
              SelectByPolicy(p, risk, safe, index)
       PROVE  LearnedInv'
  <2>1. IsOffer(pending'[1])
    BY <1>11, SelectPreserves
  <2>2. UNCHANGED <<policyLifecycle, evidence, killed, log, fitted>>
    BY <1>11 DEF SelectByPolicy
  <2> QED BY <2>1, <2>2 DEF LearnedInv
<1> QED BY <1>1, <1>2, <1>3, <1>4, <1>5, <1>6, <1>7, <1>8, <1>9, <1>10, <1>11 DEF LearnedNext

\* For any policies, actions, propensities and log: a policy evaluated on its own
\* log is given the mean it had there (evaluate_off_policy), every row of the log
\* is valid, and a policy that was rolled back stays out (promote_canary).
THEOREM LearningIsSafe == LearnedSpec => LearnedSafety
<1>1. LearnedInit => LearnedInv
  <2> SUFFICES ASSUME LearnedInit PROVE LearnedInv
    OBVIOUS
  <2>1. log \in Seq(Examples)
    BY FirstLogAssumption DEF LearnedInit
  <2>2. DOMAIN <<>> = {} /\ <<>> \in [{} -> PolicyLifecycle] /\ <<>> \in Seq(Examples)
    OBVIOUS
  <2> QED BY <2>1, <2>2 DEF LearnedInit, LearnedInv
<1>2. LearnedInv /\ [LearnedNext]_learnedVars => LearnedInv'
  BY LearnedStep
<1>3. LearnedInv => LearnedTypeOK
  <2>1. ASSUME log \in Seq(Examples), NEW i \in DOMAIN log PROVE ValidExample(log[i])
    <3>1. log[i] \in Examples
      BY <2>1
    <3> QED BY <3>1 DEF Examples
  <2> QED BY <2>1 DEF LearnedInv, LearnedTypeOK
<1>4. LearnedInv => SelfEvaluationExact
  BY SelfEvaluation DEF LearnedInv
<1> QED BY <1>1, <1>2, <1>3, <1>4, RolledBackPoliciesStayOut, PTL DEF LearnedSpec, LearnedSafety
=============================================================================
