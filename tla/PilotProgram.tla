---------------------------- MODULE PilotProgram ----------------------------
(***************************************************************************)
(* dnc.pilot.governance: a workflow moves from offline replay to shadow to *)
(* a limited canary on observations recorded in the active stage, and to   *)
(* general availability by a review of the canary's evidence on which      *)
(* every required role has signed off.  Any change of the evidence or of   *)
(* the stage clears the approvals.                                         *)
(*                                                                         *)
(* A fingerprint is the evidence itself.  The workflow is frozen, so its   *)
(* own fingerprint never changes.  A call that raises is a stuttering step.*)
(***************************************************************************)
EXTENDS Integers, FiniteSets, FiniteSetsExt

CONSTANTS
  Observations,   \* the outcome observations operators may report
  Kinds,          \* ExerciseKind
  Packages,       \* complete operational readiness packages
  Roles,          \* ApprovalRole
  People,         \* approvers
  MinObservations, MinDays, MaxFailurePercent, MinValue, MaxLatency, MaxCost,
  NoApproval, NoPackage

Stages == {"offline_replay", "shadow", "limited_canary", "general_availability"}

Observation ==
  [id : Nat, stage : Stages, day : Nat, value : Int, failed : BOOLEAN, latency : Nat,
   cost : Nat, feedback : BOOLEAN, delayed : BOOLEAN, external : BOOLEAN]

ASSUME ObservationsAssumption == Observations \subseteq Observation
PilotCriteria ==
  /\ MinObservations \in Nat \ {0} /\ MinDays \in Nat \ {0}
  /\ MaxFailurePercent \in 0 .. 100 /\ MinValue \in Int
  /\ MaxLatency \in Nat \ {0} /\ MaxCost \in Nat \ {0}

ASSUME CriteriaAssumption == PilotCriteria

VARIABLES
  stage,         \* _stage
  observations,  \* _observations
  exercises,     \* _exercises: "none" where a kind has no record
  readiness,     \* _readiness
  approvals      \* _approvals

pilotVars == <<stage, observations, exercises, readiness, approvals>>

Evidence == [observations |-> observations, exercises |-> exercises, readiness |-> readiness]

Results == {"none", "passed", "failed"}
EvidenceType ==
  [observations : SUBSET Observations, exercises : [Kinds -> Results],
   readiness : Packages \cup {NoPackage}]
Approval == [approver : People, evidence : EvidenceType, approved : BOOLEAN]

ASSUME NoApprovalAssumption == NoApproval \notin Approval

NoApprovals == [r \in Roles |-> NoApproval]

PilotInit ==
  /\ stage = "offline_replay"
  /\ observations = {}
  /\ exercises = [k \in Kinds |-> "none"]
  /\ readiness = NoPackage
  /\ approvals = NoApprovals

----------------------------------------------------------------------------

RecordOutcome(o) ==
  /\ o.stage = stage
  /\ \A p \in observations : p.id # o.id
  /\ observations' = observations \cup {o}
  /\ approvals' = NoApprovals
  /\ UNCHANGED <<stage, exercises, readiness>>

\* A later record of a kind replaces the earlier one.
RecordExercise(k, result) ==
  /\ exercises' = [exercises EXCEPT ![k] = result]
  /\ approvals' = NoApprovals
  /\ UNCHANGED <<stage, observations, readiness>>

SetOperationalReadiness(package) ==
  /\ readiness' = package
  /\ approvals' = NoApprovals
  /\ UNCHANGED <<stage, observations, exercises>>

Following == [offline_replay |-> "shadow", shadow |-> "limited_canary"]

InStage(s) == {o \in observations : o.stage = s}

Promote ==
  /\ stage \in DOMAIN Following
  /\ InStage(stage) # {}
  /\ \A o \in InStage(stage) : ~o.failed
  /\ stage' = Following[stage]
  /\ approvals' = NoApprovals
  /\ UNCHANGED <<observations, exercises, readiness>>

\* From every stage, the first included, to shadow; the evidence stays.
RollbackPilot ==
  /\ stage' = "shadow"
  /\ approvals' = NoApprovals
  /\ UNCHANGED <<observations, exercises, readiness>>

Approve(role, person, verdict) ==
  /\ \A r \in Roles \ {role} : approvals[r] # NoApproval => approvals[r].approver # person
  /\ approvals' = [approvals EXCEPT ![role] =
                     [approver |-> person, evidence |-> Evidence, approved |-> verdict]]
  /\ UNCHANGED <<stage, observations, exercises, readiness>>

----------------------------------------------------------------------------
(* The review. *)

External == {o \in InStage("limited_canary") : o.external}

\* int(0.95 * n + 0.999999): the smallest integer not below 95 % of n.
P95Rank(n) == (95 * n + 99) \div 100

\* What _evidence_failures measures on the external canary observations; rates
\* and means are compared without dividing, and the latency of rank P95Rank is
\* within the limit when that many latencies are.
MeetsCriteria(seen) ==
  LET n == Cardinality(seen)
      total(f(_)) == MapThenSumSet(f, seen)
      value(o) == o.value
      cost(o) == o.cost
      days == {o.day : o \in seen}
  IN  /\ n >= MinObservations
      /\ Max(days) - Min(days) + 1 >= MinDays
      /\ 100 * Cardinality({o \in seen : o.failed}) <= MaxFailurePercent * n
      /\ total(value) >= MinValue * n
      /\ Cardinality({o \in seen : o.latency <= MaxLatency}) >= P95Rank(n)
      /\ total(cost) <= MaxCost * n
      /\ \A o \in seen : o.delayed /\ o.feedback

EvidenceComplete ==
  /\ stage \in {"limited_canary", "general_availability"}
  /\ MeetsCriteria(External)
  /\ \A k \in Kinds : exercises[k] = "passed"
  /\ readiness # NoPackage

\* Mutant: a denial counts as a signature.
SignedOrDenied(role) ==
  /\ approvals[role] # NoApproval
  /\ approvals[role].evidence = Evidence

SignedOff(role) ==
  /\ approvals[role] # NoApproval
  /\ approvals[role].approved
  /\ approvals[role].evidence = Evidence

\* A review that finds a reason against it changes nothing.
ReviewGeneralAvailability ==
  /\ EvidenceComplete
  /\ \A r \in Roles : SignedOff(r)
  /\ stage' = "general_availability"
  /\ UNCHANGED <<observations, exercises, readiness, approvals>>

PilotNext ==
  \/ \E o \in Observations : RecordOutcome(o)
  \/ \E k \in Kinds, result \in {"passed", "failed"} : RecordExercise(k, result)
  \/ \E package \in Packages : SetOperationalReadiness(package)
  \/ Promote
  \/ RollbackPilot
  \/ \E r \in Roles, person \in People, verdict \in BOOLEAN : Approve(r, person, verdict)
  \/ ReviewGeneralAvailability

PilotSpec == PilotInit /\ [][PilotNext]_pilotVars

----------------------------------------------------------------------------
(* Properties. *)

\* What the variables hold; two observations never share an id.
PilotTypeOK ==
  /\ stage \in Stages
  /\ Evidence \in EvidenceType
  /\ \A o, p \in observations : o.id = p.id => o = p
  /\ approvals \in [Roles -> Approval \cup {NoApproval}]

\* No approval survives a change of what was approved, so the review's own
\* test for stale approvals never has anything to find.
ApprovalsCurrent ==
  \A r \in Roles : approvals[r] # NoApproval => approvals[r].evidence = Evidence

\* No two roles are signed off by one person, in whichever order people
\* approve, deny and replace what they said.
IndependentApprovers ==
  \A r, s \in Roles :
    /\ approvals[r] # NoApproval
    /\ approvals[s] # NoApproval
    /\ approvals[r].approver = approvals[s].approver
    => r = s

\* Beyond shadow there is shadow evidence and none of it failed: also after
\* rollbacks and promotions in any number, and although evidence is kept.
CanaryEarned ==
  stage \in {"limited_canary", "general_availability"} =>
    InStage("shadow") # {} /\ \A o \in InStage("shadow") : ~o.failed

\* General availability rests on a canary whose measurements still meet the
\* criteria: nothing recorded or rolled back later takes that away.
AvailabilityMeasured == stage = "general_availability" => MeetsCriteria(External)

\* General availability is entered on the signatures of as many people as
\* there are roles, each given for exactly the evidence reviewed.
AvailabilitySigned ==
  [][ stage # "general_availability" /\ stage' = "general_availability" =>
        /\ stage = "limited_canary"
        /\ Cardinality({approvals[r].approver : r \in Roles}) = Cardinality(Roles)
        /\ \A r \in Roles : approvals[r].approved /\ approvals[r].evidence = Evidence' ]_pilotVars

----------------------------------------------------------------------------
(* The properties above are inductive together. *)

PilotInv ==
  /\ PilotTypeOK
  /\ ApprovalsCurrent
  /\ IndependentApprovers
  /\ CanaryEarned
  /\ AvailabilityMeasured

\* Of a pilot at every stage, whatever was recorded late, twice or after a
\* rollback: approvals name the evidence they were given on, a canary is
\* entered and general availability offered on outcomes that were measured,
\* and availability is signed by every role (PilotProgram).
PilotSafety ==
  /\ [](PilotTypeOK /\ ApprovalsCurrent /\ CanaryEarned /\ AvailabilityMeasured)
  /\ AvailabilitySigned
============================================================================
