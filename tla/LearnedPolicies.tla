-------------------------- MODULE LearnedPolicies --------------------------
(***************************************************************************)
(* Learned decision policies (policy_learning/): decisions are logged with *)
(* their propensities, a tabular predictor is fitted to the log, a policy  *)
(* is evaluated off-policy from the log, and the registry promotes it from *)
(* shadow to canary to active and rolls it back.  Its snapshot and restore *)
(* are those of SystemState.                                               *)
(*                                                                         *)
(* Propensities are counted in PropensityParts.  Predicted cost is left    *)
(* out: an outcome stands for outcome less cost, the risk bound for both   *)
(* bounds.  Fractions are compared by cross-multiplying; WeightUnit and    *)
(* MeanUnit are common denominators of importance weights and of means.    *)
(***************************************************************************)
EXTENDS Integers, Sequences, FiniteSets, SequencesExt

CONSTANTS
    Policies,         \* fingerprints of LearnedPolicyVersions
    Actions,          \* candidate actions: numbers, ordered as their ids are
    Fallback,         \* the deterministic controller's action
    PropensityParts,  \* propensities are counted in parts of this many
    ExplorationParts, \* exploration_epsilon
    ExplorationPeriod,\* round(1 / exploration_epsilon)
    WeightUnit,       \* importance weights are WeightUnit-ths
    MeanUnit,         \* predicted means are MeanUnit-ths
    MinimumSample,    \* the gate on effective_sample_size (10 in the code)
    FirstLog,         \* logs the history may start with
    MaxLog,           \* bound on the log
    Indices           \* exploration indices the caller passes

ASSUME UnitsAssumption ==
    /\ 10 * ExplorationParts <= PropensityParts
    /\ \A n \in 1..Cardinality(Actions) :
          /\ ExplorationParts % n = 0
          /\ LET share == ExplorationParts \div n
             IN  /\ share > 0 => WeightUnit % share = 0
                 /\ WeightUnit % (PropensityParts - (n - 1) * share) = 0
    /\ \A n \in 1..MaxLog : MeanUnit % n = 0
    /\ {PropensityParts, ExplorationParts, WeightUnit, MeanUnit} \subseteq Nat
    /\ IsFiniteSet(Actions) /\ Actions \subseteq Nat /\ Fallback \in Actions
    /\ Indices \subseteq Int

None == "none"
PendingYet == -1
PolicyLifecycle == {"SHADOW", "CANARY", "ACTIVE", "ROLLED_BACK"}

VARIABLES
    policyLifecycle,  \* _lifecycle; its domain is that of _policies
    evidence,         \* _evidence: whether what is recorded is Sufficient
    killed,           \* kill_switch
    log,              \* DecisionExamples
    fitted,           \* the examples the predictor was fitted to
    pending           \* a PolicyDecision whose outcome is not known: <<>> or <<it>>

learnedVars ==
    <<policyLifecycle, evidence, killed, log, fitted, pending>>

---------------------------------------------------------------------------
(* The log *)

\* outcome and correction are 0 or 1; correction is PendingYet until it arrives.
Corrected(x) == IF x.correction = PendingYet THEN x.outcome ELSE x.correction

\* The members of S that s holds, in its order.
Those(s, S) == FoldLeft(LAMBDA kept, x : IF x \in S THEN Append(kept, x) ELSE kept, <<>>, s)

Usable(s) == Those(s, {x \in Range(s) : ~x.censored})

Total(f(_), s) == FoldLeft(LAMBDA n, x : n + f(x), 0, s)

\* validate_decision_dataset: the selected action is a candidate, and the
\* propensities are positive and sum to one.  Decision and task ids are not
\* modelled, so no id repeats and no task is in two splits; an outcome that
\* is missing is a censored one.
ValidExample(x) ==
    /\ x.action \in DOMAIN x.propensity
    /\ \A a \in DOMAIN x.propensity : x.propensity[a] > 0
    /\ Total(LAMBDA a : x.propensity[a], SetToSeq(DOMAIN x.propensity)) = PropensityParts

\* The rows that LoggedCandidate, DecisionExample and the validation admit.
Examples ==
    {x \in [action : Actions, propensity : UNION {[S -> 1..PropensityParts] : S \in SUBSET Actions},
             outcome : {0, 1}, correction : {PendingYet, 0, 1},
             censored : BOOLEAN, violated : BOOLEAN] : ValidExample(x)}

ASSUME FirstLogAssumption ==
    \A s \in FirstLog : s \in Seq(Examples)

---------------------------------------------------------------------------
(* TabularShadowPredictor *)

Bucket(a) == Those(fitted, {x \in Range(fitted) : x.action = a})

\* predict: the action's bucket, or everything; before any fit, the default
\* prediction of no outcome at full risk.
Sample(a) == LET bucket == Bucket(a) IN IF bucket = <<>> THEN fitted ELSE bucket

PredictedOutcome(a) ==
    IF fitted = <<>> THEN 0
    ELSE LET sample == Sample(a)
         IN  (MeanUnit * Total(Corrected, sample)) \div Len(sample)

\* prediction.risk <= maximum_risk, for a policy that tolerates no risk
WithinRisk(a) ==
    fitted /= <<>> /\ \A x \in Range(Sample(a)) : ~x.violated

Fit ==
    /\ Usable(log) /= <<>>
    /\ fitted' = Usable(log)
    /\ UNCHANGED <<policyLifecycle, evidence, killed, log, pending>>

---------------------------------------------------------------------------
(* evaluate_off_policy, for a target policy given as a function from the  *)
(* logged examples to the target's propensities, in PropensityParts.      *)

\* Censored rows and rows the target would never produce are left out.
Kept(x, probability) == ~x.censored /\ probability > 0

Rows(target) == Those(log, {x \in Range(log) : Kept(x, target[x][x.action])})

\* The importance weight of a row.  With the units at hand the cap of
\* maximum_weight is never reached: a weight is at most PropensityParts.
Weight(x, target) ==
    (WeightUnit * target[x][x.action]) \div x.propensity[x.action]

\* target_model + weight * (outcome - logged_model), in
\* WeightUnit * PropensityParts * MeanUnit-ths
RobustRow(x, target) ==
    WeightUnit * Total(LAMBDA a : target[x][a] * PredictedOutcome(a),
                       SetToSeq(DOMAIN target[x]))
    + PropensityParts * Weight(x, target)
        * (MeanUnit * Corrected(x) - PredictedOutcome(x.action))

\* The estimates as fractions <<numerator, denominator>>; they need a row.
Estimate(target) ==
    LET rows == Rows(target)
        w(x) == Weight(x, target)
        weighted == Total(LAMBDA x : w(x) * Corrected(x), rows)
    IN  [ips   |-> <<weighted, WeightUnit * Len(rows)>>,
         snips |-> <<weighted, Total(w, rows)>>,
         dr    |-> <<Total(LAMBDA x : RobustRow(x, target), rows),
                     WeightUnit * PropensityParts * MeanUnit * Len(rows)>>,
         ess   |-> <<Total(w, rows) * Total(w, rows),
                     Total(LAMBDA x : w(x) * w(x), rows)>>,
         support |-> <<Len(rows), Len(log)>>]

Equal(q, r) == q[1] * r[2] = r[1] * q[2]
AtLeast(q, num, den) == q[1] * den >= num * q[2]

\* |q - r| <= 1/10, compared in hundredths
Close(q, r) ==
    (100 * q[1]) \div q[2] - (100 * r[1]) \div r[2] \in -10..10

\* The gate of promote_canary, which depends on the recorded numbers only.
\* clean stands for the numbers the caller supplies: the lower confidence
\* bound above the baseline, a calibration error within 0.05 and no
\* guardrail regression in shadow.
Sufficient(estimate, clean) ==
    /\ AtLeast(estimate.ess, MinimumSample, 1)
    /\ AtLeast(estimate.support, 4, 5)
    /\ Close(estimate.ips, estimate.snips)
    /\ Close(estimate.ips, estimate.dr)
    /\ Close(estimate.snips, estimate.dr)
    /\ clean

---------------------------------------------------------------------------
(* LearnedPolicyRegistry *)

Stage(p) == IF p \in DOMAIN policyLifecycle THEN policyLifecycle[p] ELSE None

RegisterPolicy(p) ==
    /\ p \notin DOMAIN policyLifecycle
    /\ policyLifecycle' = [q \in DOMAIN policyLifecycle \cup {p} |->
                        IF q = p THEN "SHADOW" ELSE policyLifecycle[q]]
    /\ UNCHANGED <<evidence, killed, log, fitted, pending>>

\* The target always takes one action, or keeps the logged propensities.
TargetOf(a, x) ==
    IF a \in DOMAIN x.propensity
    THEN [b \in DOMAIN x.propensity |-> IF b = a THEN PropensityParts ELSE 0]
    ELSE x.propensity

\* A dataset is validated, the policy evaluated on it, the evidence kept:
\* for a policy in any stage, replacing what was recorded before.
RecordEvidence(p) ==
    /\ p \in DOMAIN policyLifecycle
    /\ \A i \in DOMAIN log : ValidExample(log[i])
    /\ \E a \in Actions, clean \in BOOLEAN :
          LET target == [x \in Range(log) |-> TargetOf(a, x)]
          IN  /\ Rows(target) /= <<>>
              /\ evidence' = [q \in DOMAIN evidence \cup {p} |->
                    IF q = p THEN Sufficient(Estimate(target), clean)
                    ELSE evidence[q]]
    /\ UNCHANGED <<policyLifecycle, killed, log, fitted, pending>>

\* Mutant: a policy that was rolled back may be tried out once more.
MayTryOutAgain(p) == Stage(p) \in {"SHADOW", "ROLLED_BACK"}

MayTryOut(p) == Stage(p) = "SHADOW"

PromoteCanary(p) ==
    /\ MayTryOut(p)
    /\ p \in DOMAIN evidence
    /\ evidence[p]
    /\ policyLifecycle' = [policyLifecycle EXCEPT ![p] = "CANARY"]
    /\ UNCHANGED <<evidence, killed, log, fitted, pending>>

PromoteActive(p) ==
    /\ ~killed
    /\ Stage(p) = "CANARY"
    /\ policyLifecycle' = [q \in DOMAIN policyLifecycle |->
            IF q = p THEN "ACTIVE"
            ELSE IF policyLifecycle[q] = "ACTIVE" THEN "ROLLED_BACK"
            ELSE policyLifecycle[q]]
    /\ UNCHANGED <<evidence, killed, log, fitted, pending>>

RollbackPolicy(p) ==
    /\ p \in DOMAIN policyLifecycle
    /\ policyLifecycle' = [policyLifecycle EXCEPT ![p] = "ROLLED_BACK"]
    /\ UNCHANGED <<evidence, killed, log, fitted, pending>>

SwitchKill ==
    /\ killed' = ~killed
    /\ UNCHANGED <<policyLifecycle, evidence, log, fitted, pending>>

---------------------------------------------------------------------------
(* Decisions *)

CanExecute(p, risk) ==
    ~killed /\ risk = "LOW" /\ Stage(p) \in {"CANARY", "ACTIVE"}

\* The eligible actions, best first; ids break ties.
Ranked(safe) ==
    LET eligible == {a \in safe : WithinRisk(a)}
        better(a, b) == \/ PredictedOutcome(a) > PredictedOutcome(b)
                        \/ PredictedOutcome(a) = PredictedOutcome(b) /\ a < b
    IN  [i \in 1..Cardinality(eligible) |->
            CHOOSE a \in eligible : Cardinality({b \in eligible : better(b, a)}) = i - 1]

\* epsilon spread evenly over the n eligible actions, the rest to the best
\* one.  (Instances keep ExplorationParts divisible by n.)
Propensities(ranked) ==
    LET n == Len(ranked)
    IN  [a \in Range(ranked) |->
            ExplorationParts \div n
            + IF a = ranked[1] THEN PropensityParts - n * (ExplorationParts \div n) ELSE 0]

Selected(ranked, index) ==
    IF ExplorationParts > 0 /\ index % ExplorationPeriod = 0
    THEN ranked[(index % Len(ranked)) + 1]
    ELSE ranked[1]

SelectByPolicy(p, risk, safe, index) ==
    /\ pending = <<>>
    /\ LET ranked == Ranked(safe)
       IN  pending' = IF CanExecute(p, risk) /\ ranked /= <<>>
                      THEN <<[action |-> Selected(ranked, index), by |-> p,
                              propensity |-> Propensities(ranked)]>>
                      ELSE <<[action |-> Fallback, by |-> None,
                              propensity |-> [a \in {Fallback} |-> PropensityParts]]>>
    /\ UNCHANGED <<policyLifecycle, evidence, killed, log, fitted>>

\* The caller logs the decision once it knows, or gives up on, its outcome.
\* LoggedCandidate refuses an action that could not have been taken.
Observe ==
    /\ pending /= <<>>
    /\ pending' = <<>>
    /\ \/ UNCHANGED log
       \/ /\ Len(log) < MaxLog
          /\ \A a \in DOMAIN pending[1].propensity : pending[1].propensity[a] > 0
          /\ \E outcome \in {0, 1}, censored, violated \in BOOLEAN :
                log' = Append(log, [action |-> pending[1].action,
                    propensity |-> pending[1].propensity, outcome |-> outcome,
                    correction |-> PendingYet, censored |-> censored,
                    violated |-> violated])
    /\ UNCHANGED <<policyLifecycle, evidence, killed, fitted>>

\* A delayed correction replaces an outcome that was already logged.
Correct ==
    /\ \E i \in DOMAIN log :
          /\ log[i].correction = PendingYet
          /\ log' = [log EXCEPT ![i].correction = 1 - log[i].outcome]
    /\ UNCHANGED <<policyLifecycle, evidence, killed, fitted, pending>>

LearnedInit ==
    /\ policyLifecycle = <<>>
    /\ evidence = <<>>
    /\ killed = FALSE
    /\ log \in FirstLog
    /\ fitted = <<>>
    /\ pending = <<>>

LearnedNext ==
    \/ Fit \/ SwitchKill \/ Observe \/ Correct
    \/ \E p \in Policies :
          \/ RegisterPolicy(p) \/ RecordEvidence(p) \/ PromoteCanary(p)
          \/ PromoteActive(p) \/ RollbackPolicy(p)
          \/ \E risk \in {"LOW", "HIGH"}, safe \in SUBSET Actions,
                index \in Indices : SelectByPolicy(p, risk, safe, index)

LearnedSpec == LearnedInit /\ [][LearnedNext]_learnedVars

---------------------------------------------------------------------------
(* Properties *)

LearnedTypeOK ==
    /\ DOMAIN policyLifecycle \subseteq Policies
    /\ \A p \in DOMAIN policyLifecycle : policyLifecycle[p] \in PolicyLifecycle
    /\ DOMAIN evidence \subseteq DOMAIN policyLifecycle
    /\ killed \in BOOLEAN
    /\ \A i \in DOMAIN log : ValidExample(log[i])

\* Evaluating off-policy the very policy that logged the data gives the
\* mean of the corrected outcomes of the uncensored decisions, by importance
\* sampling and self-normalized, and an effective sample of exactly those
\* decisions (evaluate_off_policy), whatever mixture of deterministic and
\* exploring decisions, corrections and censored rows the log has become.
SelfEvaluationExact ==
    LET estimate == Estimate([x \in Range(log) |-> x.propensity])
        known == Usable(log)
    IN  known /= <<>> =>
            /\ Equal(estimate.ips, <<Total(Corrected, known), Len(known)>>)
            /\ Equal(estimate.snips, estimate.ips)
            /\ Equal(estimate.ess, <<Len(known), 1>>)

\* At most one policy is active, and a policy that was rolled back, by hand
\* or by its successor, never runs again, whatever evidence is recorded for
\* it later (promote_active, rollback, record_evidence, promote_canary).
RolledBackStaysOut ==
    [][/\ Cardinality({p \in DOMAIN policyLifecycle' : policyLifecycle'[p] = "ACTIVE"}) <= 1
       /\ \A p \in DOMAIN policyLifecycle :
            policyLifecycle[p] = "ROLLED_BACK" => policyLifecycle'[p] = "ROLLED_BACK"
      ]_learnedVars

\* A policy evaluated on its own log is given the mean it had there, at most one
\* policy is active, and a policy that was rolled back is not tried out again.
LearnedSafety == []LearnedTypeOK /\ []SelfEvaluationExact /\ RolledBackStaysOut
===========================================================================
