------------------------------ MODULE Halting ------------------------------
(***************************************************************************)
(* The attempt-level halting policies (halting/policy.py), asked again     *)
(* after every attempt, check, retrieval or clarification, and the         *)
(* clustering of attempts they rest on (assurance/semantic.py).            *)
(*                                                                         *)
(* A conclusion is a model value; Similar is the relation "text and claims *)
(* at least 0.88 alike", which need not be transitive.  An attempt's       *)
(* correlation group stands for its model, prompt, seed and retrieval      *)
(* fingerprints.  Tokens stand for every metered resource.  The facts of   *)
(* a HaltingContext that are not attempts are a set of named facts, and    *)
(* its confidence one of Confidences: "none", "shifting" (an estimate that *)
(* is not calibrated), "below" and "met" (calibrated, its lower bound      *)
(* against the threshold of the task's risk class).                        *)
(***************************************************************************)
EXTENDS Naturals, Sequences, FiniteSets, SequencesExt

CONSTANTS
    Conclusions,      \* what an attempt may conclude
    Similar,          \* pairs of conclusions cluster_attempts joins
    Groups,           \* correlation groups
    AttemptTokens,    \* what one attempt may use
    MaxAttempts,      \* InferenceBudget.max_attempts
    MaxTokens,        \* InferenceBudget.max_tokens
    TailTokens,       \* InferenceBudget.max_single_attempt_tokens
    FixedCount,       \* attempts or refinements of the fixed policies
    MinimumGroups,    \* minimum_independent_groups
    Exposures,        \* the sets available_actions is drawn from
    Estimates,        \* [value, cost]: functions from Asked
    InitialFacts      \* the facts a task may start with

ASSUME SimilarAssumption ==
    /\ Similar \subseteq Conclusions \X Conclusions
    /\ \A c \in Conclusions : <<c, c>> \in Similar

ASSUME BudgetAssumption ==
    AttemptTokens \cup {MaxAttempts, MaxTokens, TailTokens} \subseteq Nat

Asked == {"SAMPLE", "DIVERSIFY", "VERIFY", "RETRIEVE", "ASK"}
InferenceAction == Asked \cup {"STOP", "ABSTAIN"}
HaltingPolicyMode ==
    {"FIXED_ATTEMPT", "FIXED_REFINEMENT", "SELF_CONSISTENCY", "ADAPTIVE"}
Facts == {"checked", "contract", "contradiction", "missing", "ambiguous",
          "shifted"}
Confidences == {"none", "shifting", "below", "met"}

ASSUME FactsAssumption == InitialFacts \subseteq SUBSET Facts

VARIABLES
    attempts,         \* the AttemptRecords of the task, oldest first
    facts,            \* which of Facts hold
    confidence,
    mode,             \* the policy that decides
    exposed,          \* context.available_actions
    estimate,         \* expected_action_values and action_costs
    decision          \* the last InferenceDecision's action, or "none"

haltingVars ==
    <<attempts, facts, confidence, mode, exposed, estimate, decision>>

AttemptRecord ==
    [conclusion : Conclusions, group : Groups, tokens : AttemptTokens]

HaltingTypeOK ==
    /\ attempts \in Seq(AttemptRecord)
    /\ facts \subseteq Facts
    /\ confidence \in Confidences
    /\ mode \in HaltingPolicyMode
    /\ exposed \in Exposures
    /\ estimate \in Estimates
    /\ decision \in InferenceAction \cup {"none"}

---------------------------------------------------------------------------
(* Clusters *)

LastClusterIndex(groups, a) ==
    LET like == {i \in DOMAIN groups :
                    <<groups[i][1].conclusion, a.conclusion>> \in Similar}
    IN  IF like = {} THEN Len(groups) + 1
        ELSE CHOOSE i \in like : \A j \in like : i >= j

\* The first group whose first attempt is like a, or a new group.
ClusterIndex(groups, a) ==
    LET like == {i \in DOMAIN groups :
                    <<groups[i][1].conclusion, a.conclusion>> \in Similar}
    IN  IF like = {} THEN Len(groups) + 1
        ELSE CHOOSE i \in like : \A j \in like : i <= j

Place(groups, a) ==
    LET i == ClusterIndex(groups, a)
    IN  IF i > Len(groups) THEN Append(groups, <<a>>)
        ELSE [groups EXCEPT ![i] = Append(@, a)]

cluster_attempts(s) == FoldLeft(Place, <<>>, s)

CorrelationGroups(cluster) == {cluster[i].group : i \in DOMAIN cluster}

\* independent_weight: an attempt weighs 1, a correlation group as much as
\* its heaviest attempt.
IndependentWeight(cluster) == Cardinality(CorrelationGroups(cluster))

Weights(clusters) == [i \in DOMAIN clusters |-> IndependentWeight(clusters[i])]

\* clusters[0] of the sorted clusters: the heaviest, the oldest of equals.
Leading(weights) ==
    CHOOSE i \in DOMAIN weights : \A j \in DOMAIN weights :
        weights[i] > weights[j] \/ (weights[i] = weights[j] /\ i <= j)

TotalWeight(weights) == FoldLeft(LAMBDA n, w : n + w, 0, weights)

\* What a policy sees of the attempts: the leading cluster's weight (the
\* number of its independent groups) out of the total, <<0, 0>> without any.
Agreement(s) ==
    LET weights == Weights(cluster_attempts(s))
    IN  IF s = <<>> THEN <<0, 0>>
        ELSE <<weights[Leading(weights)], TotalWeight(weights)>>

\* leading fraction >= num / den
LeadsBy(num, den) ==
    /\ attempts /= <<>>
    /\ Agreement(attempts)[1] * den >= num * Agreement(attempts)[2]

---------------------------------------------------------------------------
(* The budget *)

TokensOf(s) == FoldLeft(LAMBDA n, a : n + a.tokens, 0, s)

Exhausted(s) ==
    \/ Len(s) >= MaxAttempts
    \/ TokensOf(s) >= MaxTokens
    \/ \E i \in DOMAIN s : s[i].tokens > TailTokens

---------------------------------------------------------------------------
(* The policies *)

Calibrated == confidence \in {"below", "met"}

MinimumStopChecks ==
    /\ {"checked", "contract"} \subseteq facts
    /\ facts \cap {"contradiction", "missing"} = {}
    /\ Calibrated

FixedAttemptPolicy ==
    IF Len(attempts) >= FixedCount
    THEN IF MinimumStopChecks THEN "STOP" ELSE "ABSTAIN"
    ELSE IF Exhausted(attempts) THEN "ABSTAIN" ELSE "SAMPLE"

FixedRefinementPolicy ==
    IF Len(attempts) > FixedCount
    THEN IF MinimumStopChecks THEN "STOP" ELSE "ABSTAIN"
    ELSE IF Exhausted(attempts) THEN "ABSTAIN" ELSE "SAMPLE"

SelfConsistencyPolicy ==
    IF Len(attempts) >= FixedCount
    THEN IF LeadsBy(1, 2) /\ MinimumStopChecks THEN "STOP" ELSE "ABSTAIN"
    ELSE IF Exhausted(attempts) THEN "ABSTAIN" ELSE "SAMPLE"

\* Enum values compare as strings; ties between estimates go to the last.
NameRank ==
    [ASK |-> 1, DIVERSIFY |-> 2, RETRIEVE |-> 3, SAMPLE |-> 4, VERIFY |-> 5]

\* The candidate with the greatest value less cost, ABSTAIN without one.
BestNextAction ==
    LET candidates == exposed \cap Asked
        beats(a, b) ==
            LET x == estimate.value[a] + estimate.cost[b]
                y == estimate.value[b] + estimate.cost[a]
            IN  x > y \/ (x = y /\ NameRank[a] >= NameRank[b])
    IN  IF candidates = {} THEN "ABSTAIN"
        ELSE CHOOSE a \in candidates : \A b \in candidates : beats(a, b)

NothingToGain ==
    BestNextAction = "ABSTAIN"
        \/ estimate.value[BestNextAction] <= estimate.cost[BestNextAction]

MayStop ==
    /\ {"checked", "contract"} \subseteq facts
    /\ confidence = "met"
    /\ LeadsBy(3, 5)
    /\ Agreement(attempts)[1] >= MinimumGroups
    /\ NothingToGain

\* What is left when stopping is not allowed.
KeepGoing ==
    LET next == IF ~Calibrated /\ "VERIFY" \in exposed THEN "VERIFY"
                ELSE BestNextAction
    IN  IF next \in exposed \cap Asked THEN next ELSE "SAMPLE"

\* The rules in order: the first that applies decides.
AdaptiveHaltingPolicy ==
    LET rules == <<
        <<"ambiguous" \in facts /\ "ASK" \in exposed, "ASK">>,
        <<"missing" \in facts /\ "RETRIEVE" \in exposed, "RETRIEVE">>,
        <<"contradiction" \in facts /\ "VERIFY" \in exposed, "VERIFY">>,
        <<"shifted" \in facts /\ "DIVERSIFY" \in exposed
              /\ ~Exhausted(attempts), "DIVERSIFY">>,
        <<"shifted" \in facts \/ Exhausted(attempts), "ABSTAIN">>,
        <<attempts /= <<>> /\ Agreement(attempts)[1] < MinimumGroups
              /\ "DIVERSIFY" \in exposed, "DIVERSIFY">>,
        <<MayStop /\ "STOP" \in exposed, "STOP">>,
        <<TRUE, KeepGoing>> >>
    IN  rules[CHOOSE i \in DOMAIN rules :
            rules[i][1] /\ \A j \in 1..(i - 1) : ~rules[j][1]][2]

---------------------------------------------------------------------------
(* A task: decide, do what was decided, decide again. *)

HaltingInit ==
    /\ attempts = <<>>
    /\ facts \in InitialFacts
    /\ confidence \in Confidences
    /\ mode \in HaltingPolicyMode
    /\ exposed \in Exposures
    /\ estimate \in Estimates
    /\ decision = "none"

Decide ==
    /\ decision = "none"
    /\ decision' = CASE mode = "FIXED_ATTEMPT" -> FixedAttemptPolicy
                     [] mode = "FIXED_REFINEMENT" -> FixedRefinementPolicy
                     [] mode = "SELF_CONSISTENCY" -> SelfConsistencyPolicy
                     [] mode = "ADAPTIVE" -> AdaptiveHaltingPolicy
    /\ UNCHANGED <<attempts, facts, confidence, mode, exposed, estimate>>

\* Another attempt; what it says may contradict what is known.
Attempt ==
    /\ decision \in {"SAMPLE", "DIVERSIFY"}
    /\ \E a \in AttemptRecord : attempts' = Append(attempts, a)
    /\ facts' \in {facts, facts \cup {"contradiction"}}
    /\ decision' = "none"
    /\ UNCHANGED <<confidence, mode, exposed, estimate>>

\* A verifier answers: checks may pass, contradictions be resolved or the
\* confidence change.
Verify ==
    /\ decision = "VERIFY"
    /\ \/ /\ facts' \in {facts \cup {"checked"}, facts \ {"contradiction"}}
          /\ UNCHANGED confidence
       \/ /\ confidence' \in Confidences
          /\ UNCHANGED facts
    /\ decision' = "none"
    /\ UNCHANGED <<attempts, mode, exposed, estimate>>

\* Information or a clarification arrives, or does not.
Learn ==
    /\ \/ decision = "RETRIEVE" /\ facts' \in {facts, facts \ {"missing"}}
       \/ decision = "ASK" /\ facts' \in {facts, facts \ {"ambiguous"}}
    /\ decision' = "none"
    /\ UNCHANGED <<attempts, confidence, mode, exposed, estimate>>

\* The caller turns to its next task.
NextTask ==
    /\ decision \in {"STOP", "ABSTAIN"}
    /\ attempts' = <<>>
    /\ facts' \in InitialFacts
    /\ confidence' \in Confidences
    /\ decision' = "none"
    /\ UNCHANGED <<mode, exposed, estimate>>

HaltingNext == Decide \/ Attempt \/ Verify \/ Learn \/ NextTask

HaltingSpec == HaltingInit /\ [][HaltingNext]_haltingVars

---------------------------------------------------------------------------
(* Properties *)

\* Every attempt of every policy was begun within the whole budget: fewer
\* attempts than max_attempts, fewer tokens than max_tokens and no attempt
\* past the single-attempt limit before it.  So a task overruns its budget
\* by its last attempt at most (budget_status and the policies' order of
\* rules).
BudgetOverrunByOne ==
    attempts /= <<>> =>
        /\ Len(attempts) <= MaxAttempts
        /\ TokensOf(Front(attempts)) < MaxTokens
        /\ \A i \in 1..(Len(attempts) - 1) : attempts[i].tokens <= TailTokens

\* Saying the same thing again from the same model, prompt, seed and
\* retrieval leaves the agreement the policies measure as it was, although
\* likeness is not transitive and clusters are filled first come, first
\* served (cluster_attempts).
DuplicatesAddNothing ==
    (/\ Len(attempts) > 1
     /\ \E i \in 1..(Len(attempts) - 1) :
          /\ attempts[i].conclusion = Last(attempts).conclusion
          /\ attempts[i].group = Last(attempts).group)
    => Agreement(attempts) = Agreement(Front(attempts))

\* Of the attempts of a task under any policy: the budget is overrun by the last
\* attempt at most, and a repetition of an attempt adds no agreement.
HaltingInvariant == HaltingTypeOK /\ BudgetOverrunByOne /\ DuplicatesAddNothing

---------------------------------------------------------------------------
(* The inductive invariant behind it. *)

\* No policy asks for another attempt out of an exhausted budget.
AttemptsAffordable ==
    decision \in {"SAMPLE", "DIVERSIFY"} => ~Exhausted(attempts)

\* The cluster an attempt would be placed in now is one that holds an attempt
\* of its group already: what clusters begin with never changes.
Clustered ==
    LET clusters == cluster_attempts(attempts)
    IN  \A i \in DOMAIN attempts :
            LET k == ClusterIndex(clusters, attempts[i])
            IN  /\ k \in DOMAIN clusters
                /\ attempts[i].group \in CorrelationGroups(clusters[k])

HaltingInv == HaltingInvariant /\ AttemptsAffordable /\ Clustered
===========================================================================
