----------------------------- MODULE Adaptation -----------------------------
(***************************************************************************)
(* The structural adaptation cycle: DNCSystem.run_cycle with the           *)
(* ComputationGenerator, the StructuralController, the assessment and the  *)
(* learning engine it calls (dnc.system, dnc.dcc), and the two other       *)
(* drivers of the same parts: LearnedStructuralAdaptation and the phase 6  *)
(* DCCLOrchestrator.                                                       *)
(*                                                                         *)
(* A utility is any whole number of parts, of which Precision * max_units  *)
(* make a ten-thousandth: so the weights of the code are exact, and with   *)
(* Precision large enough every rational utility is a number of parts.     *)
(* What floats add is that a sum just at one of the controller's limits    *)
(* may be rounded to either side of it (rounding).  Units are numbered in  *)
(* the order of the graph's dictionary; nothing in a cycle removes one.    *)
(* GraphTransaction models the transaction a cycle runs: here it is its    *)
(* outcome.                                                                *)
(***************************************************************************)
EXTENDS Integers, FiniteSets, Sequences, SequencesExt

CONSTANTS
  InitialStructures, \* graphs a system may be created with
  Objective,         \* GenerationObjective: limits, budget and the two flags
  SignalSets,        \* the necessity_signals callers pass
  Precision,         \* how fine utilities are measured
  Utilities,         \* what the execution core may measure, in parts
  EnableMutation,    \* config.enable_mutation
  EnableLearning,    \* config.enable_learning
  ChurnAfter,        \* recent_mutation_count above which churn is penalised
  LearningWindow,    \* outcomes that compute_generator_influence looks at
  NoAssessment,      \* None
  MaxCycles          \* bound: cycles of one behaviour

\* The DCCLOrchestrator knows no objective and makes one unit and one edge.
ASSUME ObjectiveAssumption ==
  Objective \in [max_units : Nat \ {0}, max_edges : Nat \ {0}, cost_budget : Nat,
                 require_specialization : BOOLEAN, allow_composition : BOOLEAN]
ASSUME StructuresAssumption ==
  \A g \in InitialStructures :
    /\ g = [units |-> g.units, edges |-> g.edges, version |-> 0]
    /\ g.units \in 0 .. Objective.max_units /\ g.edges \subseteq (1 .. g.units) \X (1 .. g.units)
    /\ Cardinality(g.edges) <= Objective.max_edges
ASSUME CycleBounds ==
  /\ MaxCycles \in Nat /\ LearningWindow \in Nat \ {0} /\ ChurnAfter \in Nat
  /\ Precision \in Nat \ {0} /\ Utilities \subseteq Int

VARIABLES
  driver,     \* which of the three classes runs the cycles
  structure,  \* the graph: its units, its edges and its version
  pacing,     \* cycles since the last mutation, mutations, harmed, last utility
  tally,      \* the counters of the driver, or what they would be
  knowledge,  \* the learning engine's outcomes: did the cycle improve?
  assessed,   \* the utility in the last assessment handed to the caller
  decided     \* history: what the last cycle authorized and what it executed

adaptationVars == <<driver, structure, pacing, tally, knowledge, assessed, decided>>

\* cycles_since_mutation starts at 999 and is only compared with 3.
Settled == 4

TenThousandth == Precision * Objective.max_units
Hundredth == 100 * TenThousandth

Kinds == <<"expand", "wire", "specialize", "compose">>
NoKind == "none"

Undecided == [authorized |-> NoKind, executed |-> NoKind, margin |-> 0, reordered |-> FALSE]

AdaptationInit ==
  /\ driver \in {"system", "learned", "control"}
  /\ structure \in InitialStructures
  /\ pacing = [since |-> Settled, recent |-> 0, harmed |-> FALSE, observed |-> 75 * Hundredth]
  /\ tally = [cycles |-> 0, generated |-> 0, authorized |-> 0, commits |-> 0, rollbacks |-> 0]
  /\ knowledge = <<>>
  /\ assessed = NoAssessment
  /\ decided = Undecided

----------------------------------------------------------------------------
(* ComputationGenerator.generate_proposals: x is the GenerationContext. *)

Urgent == {"objective_violation", "constraint_violation", "performance_degradation",
           "fault_recovery_requirement", "environment_shift"}

NeedsExpansion(x) ==
  /\ x.units < Objective.max_units
  /\ \/ x.units = 0
     \/ "capacity_insufficiency" \in x.signals
     \/ "composition_requirement" \in x.signals /\ x.units < 2
     \/ x.signals \cap Urgent # {}
     \/ x.units < Objective.max_units \div 2 /\ (x.utility < 70 * Hundredth \/ x.harmed)
  /\ x.units = 0 \/ x.edges < Objective.max_edges

NeedsWiring(x) ==
  /\ x.edges < Objective.max_edges
  /\ x.units >= 2
  /\ \/ x.edges = 0
     \/ /\ x.utility < 65 * Hundredth \/ x.signals \cap {"fault_recovery_requirement", "environment_shift"} # {}
        /\ ~x.harmed

NeedsSpecialization(x) ==
  /\ Objective.require_specialization \/ "objective_violation" \in x.signals
  /\ x.units > 0

NeedsComposition(x) ==
  /\ Objective.allow_composition
  /\ x.units >= 2
  /\ x.utility < 62 * Hundredth \/ x.harmed \/ "composition_requirement" \in x.signals
  /\ x.since > 3
  /\ x.edges < Objective.max_edges

Needed(kind, x) ==
  \/ kind = "expand" /\ NeedsExpansion(x)
  \/ kind = "wire" /\ NeedsWiring(x)
  \/ kind = "specialize" /\ NeedsSpecialization(x)
  \/ kind = "compose" /\ NeedsComposition(x)

\* The kinds of a sequence that are among those chosen, in order.
OnlyKinds(kinds, chosen) ==
  FoldLeft(LAMBDA only, kind : IF kind \in chosen THEN Append(only, kind) ELSE only, <<>>, kinds)

\* The four strategies, in the order generate_proposals tries them.
Proposals(x) == OnlyKinds(Kinds, {kind \in Range(Kinds) : Needed(kind, x)})

\* Expected utility, estimated cost and risk are constants of each strategy: in
\* hundredths, tenths and hundredths.
ExpectedUtility == [expand |-> 80, wire |-> 60, specialize |-> 50, compose |-> 70]
EstimatedCost == [expand |-> 10, wire |-> 3, specialize |-> 5, compose |-> 15]
RiskScore == [expand |-> 100, wire |-> 100, specialize |-> 60, compose |-> 60]

----------------------------------------------------------------------------
(* StructuralController: x also holds the baseline of the evaluation. *)

Least(a, b) == IF a <= b THEN a ELSE b
Most(a, b) == IF a >= b THEN a ELSE b

\* The limits a sum of floats may be rounded below where it is at them exactly.
\* No two kinds are at the same limit in one context.
FineLimits == {"bonus", "authorize"}
Below(a, limit, name, rounding) == a < limit \/ (a = limit /\ name \in rounding)

\* 0.3 for each unit beyond half of max_units, as a part of max_units.
ComplexityPenalty(x) == Most(0, 1500 * Precision * (2 * x.units - Objective.max_units))

ChurnPenalty(x) ==
  TenThousandth *
    (IF x.since < 3 THEN Most(0, 2000 - 700 * x.since)
     ELSE IF x.recent > ChurnAfter THEN Least(1000, 100 * (x.recent - ChurnAfter)) ELSE 0)

\* What a proposal is expected to gain over doing nothing.
Margin(kind, x) == ExpectedUtility[kind] * Hundredth - x.baseline

BonusRegardless(marginal, net, x) ==
  IF Below(net, 500 * TenThousandth, "bonus", x.rounding) THEN 1000 * TenThousandth
  ELSE Least(4000 * TenThousandth, net)

\* Twice what is added to the score of a proposal that beats that baseline: the
\* net gain whole when it is below 0.05, otherwise half of it, and at most 0.2.
TwiceBonus(marginal, net, x) ==
  IF marginal <= 0 THEN 0
  ELSE IF Below(net, 500 * TenThousandth, "bonus", x.rounding) THEN 2 * net
  ELSE Least(4000 * TenThousandth, net)

BaseScore(kind) == 60 * ExpectedUtility[kind] + 20 * (100 - EstimatedCost[kind]) + 20 * RiskScore[kind]

TwiceScore(kind, x) ==
  LET marginal == Margin(kind, x)
      net == Most(0, marginal - ComplexityPenalty(x) - ChurnPenalty(x))
  IN  Least(20000 * TenThousandth,
            2 * BaseScore(kind) * TenThousandth + TwiceBonus(marginal, net, x))

\* No proposal's risk exceeds the tolerance, its rationale is never empty, and
\* the least expected utility is above the least the callers ask for.
Authorizes(kind, x) ==
  /\ EstimatedCost[kind] <= Objective.cost_budget
  /\ ~Below(TwiceScore(kind, x), 16000 * TenThousandth, "authorize", x.rounding)

AuthorizedProposals(proposals, x) ==
  OnlyKinds(proposals, {kind \in Range(Kinds) : Authorizes(kind, x)})

\* authorize_top_scoring: of equal scores rounding makes one the greater.
TopScoring(evaluated, x) ==
  {kind \in Range(evaluated) :
     \A other \in Range(evaluated) : TwiceScore(kind, x) >= TwiceScore(other, x)}

----------------------------------------------------------------------------
(* TransactionManager.execute_transaction on a proposal's operations: the  *)
(* mutation engine supports neither SPECIALIZE_UNIT nor COMPOSE_UNITS, and *)
(* the validator refuses a second edge like the first.  A transaction that *)
(* may commit may also fail, as it does when the graph is not valid or     *)
(* another client has changed it.                                          *)

MayCommit(kind, g) ==
  \/ kind = "expand"
  \/ kind = "wire" /\ <<g.units, 1>> \notin g.edges

Mutated(kind, g) ==
  IF kind = "expand"
  THEN [units |-> g.units + 1,
        edges |-> g.edges \cup (IF g.units = 0 THEN {} ELSE {<<1, g.units + 1>>}),
        version |-> g.version + 1]
  ELSE [g EXCEPT !.edges = @ \cup {<<g.units, 1>>}, !.version = @ + 1]

Paused(p) == [p EXCEPT !.since = Least(Settled, @ + 1)]

\* assess_execution: improvement is measured against the utility before.
\* A loss of 0.02 may be rounded to more.
AssessedPacing(p, utility, before) ==
  {[p EXCEPT !.harmed = harmed, !.observed = utility] :
     harmed \in {utility - before < -2 * Hundredth, utility - before <= -2 * Hundredth}}

(* LearningEngine.learn_from_assessment *)
Learned(k, improved) == Append(k, improved)

----------------------------------------------------------------------------
(* DNCSystem.run_cycle *)

\* The caller passes the last assessment it was given, or none.
LastUtility(prior) == IF prior THEN assessed ELSE pacing.observed

Context(prior, signals, rounding) ==
  [units |-> structure.units, edges |-> Cardinality(structure.edges),
   utility |-> LastUtility(prior), since |-> pacing.since, recent |-> pacing.recent,
   harmed |-> pacing.harmed, signals |-> signals, baseline |-> pacing.observed,
   rounding |-> rounding]

MayCycle(d) == driver = d /\ tally.cycles < MaxCycles

\* The counters of a cycle that proposed n changes.
Counted(n) == [tally EXCEPT !.cycles = @ + 1, !.generated = @ + n]

\* The proposal executed: the first that was authorized, in proposal order.
Executed(evaluated, x) == evaluated[1]

\* The decisions that may follow the evaluation of some proposals.
Decisions(evaluated, x, reordered) ==
  {[authorized |-> top, executed |-> Executed(evaluated, x),
    margin |-> Margin(Executed(evaluated, x), x), reordered |-> reordered]
   : top \in TopScoring(evaluated, x)}

\* Nothing is proposed, or nothing proposed is authorized.
DeclinedCycle(prior, signals, rounding) ==
  LET x == Context(prior, signals, rounding) IN
  /\ MayCycle("system")
  /\ prior => assessed # NoAssessment
  /\ AuthorizedProposals(Proposals(x), x) = <<>>
  /\ tally' = Counted(Len(Proposals(x)))
  /\ pacing' = Paused(pacing)
  /\ decided' = Undecided
  /\ UNCHANGED <<driver, structure, knowledge, assessed>>

\* A proposal is authorized: the transaction rolls back, or commits (a system
\* without mutation skips it), and then the core runs the projected graph.
AuthorizedCycle(prior, signals, rounding) ==
  LET x == Context(prior, signals, rounding)
      evaluated == AuthorizedProposals(Proposals(x), x)
      kind == Executed(evaluated, x)
      counted == [Counted(Len(Proposals(x))) EXCEPT !.authorized = @ + 1]
      committed == IF EnableMutation THEN [pacing EXCEPT !.since = 0, !.recent = @ + 1]
                   ELSE Paused(pacing)
  IN  /\ MayCycle("system")
      /\ prior => assessed # NoAssessment
      /\ evaluated # <<>>
      /\ decided' \in Decisions(evaluated, x, FALSE)
      /\ \/ /\ EnableMutation
            /\ tally' = [counted EXCEPT !.rollbacks = @ + 1]
            /\ pacing' = Paused(pacing)
            /\ UNCHANGED <<structure, knowledge, assessed>>
         \/ /\ EnableMutation => MayCommit(kind, structure)
            /\ tally' = IF EnableMutation THEN [counted EXCEPT !.commits = @ + 1] ELSE counted
            /\ structure' = IF EnableMutation THEN Mutated(kind, structure) ELSE structure
            /\ \/ \E utility \in Utilities :
                    /\ assessed' = utility
                    /\ pacing' \in AssessedPacing(committed, utility, LastUtility(prior))
                    /\ knowledge' = IF EnableLearning /\ prior
                                    THEN Learned(knowledge, utility > LastUtility(prior))
                                    ELSE knowledge
               \* The core raises: the commit stands, nothing is assessed.
               \/ pacing' = committed /\ UNCHANGED <<assessed, knowledge>>
      /\ UNCHANGED driver

----------------------------------------------------------------------------
(* LearnedStructuralAdaptation.execute_adaptation_cycle *)

\* compute_generator_influence: the operation types it prefers and avoids.
Influence(k) ==
  LET recent == SubSeq(k, Most(1, Len(k) - LearningWindow + 1), Len(k))
      improved == Cardinality({i \in DOMAIN recent : recent[i]})
  IN  [preferred |-> IF 10 * improved > 7 * Len(recent)
                     THEN {"ADD_UNIT", "CONNECT_UNITS"} ELSE {},
       avoided |-> IF 10 * improved < 4 * Len(recent)
                   THEN {"COMPOSE_UNITS", "SPECIALIZE_UNIT"} ELSE {}]

Operations(kind, units) ==
  CASE kind = "expand"     -> {"ADD_UNIT"} \cup (IF units > 0 THEN {"CONNECT_UNITS"} ELSE {})
    [] kind = "wire"       -> {"CONNECT_UNITS"}
    [] kind = "specialize" -> {"SPECIALIZE_UNIT"}
    [] kind = "compose"    -> {"COMPOSE_UNITS"}

\* The key of the sort: the learned bias adds the same to every proposal.
RankScore(kind, units, influence) ==
  2 * Cardinality(Operations(kind, units) \cap influence.preferred)
  - 3 * Cardinality(Operations(kind, units) \cap influence.avoided)

\* A stable sort, best first.
RankedByLearning(proposals, units, influence) ==
  LET AtScore(s) ==
        OnlyKinds(proposals, {kind \in Range(Kinds) : RankScore(kind, units, influence) = s})
  IN  AtScore(4) \o AtScore(2) \o AtScore(0) \o AtScore(-3)

\* Influence is applied only when this cycle learned from a prior outcome.
\* The graph is not touched: what was authorized is executed elsewhere.
AdaptationCycle(improved, signals, utility, rounding) ==
  LET k == IF improved = NoAssessment THEN knowledge ELSE Learned(knowledge, improved)
      x == [units |-> structure.units, edges |-> Cardinality(structure.edges),
            utility |-> utility, since |-> Settled, recent |-> 0, harmed |-> FALSE,
            signals |-> signals, baseline |-> 70 * Hundredth, rounding |-> rounding]
      ranked == IF improved = NoAssessment THEN Proposals(x)
                ELSE RankedByLearning(Proposals(x), x.units, Influence(k))
      evaluated == AuthorizedProposals(ranked, x)
  IN  /\ MayCycle("learned")
      /\ knowledge' = k
      /\ IF evaluated = <<>>
         THEN /\ tally' = Counted(0)
              /\ decided' = [Undecided EXCEPT !.reordered = ranked # Proposals(x)]
         ELSE /\ tally' = [Counted(Len(ranked)) EXCEPT !.authorized = @ + 1]
              /\ decided' \in Decisions(evaluated, x, ranked # Proposals(x))
      /\ UNCHANGED <<driver, structure, pacing, assessed>>

----------------------------------------------------------------------------
(* DCCLOrchestrator.execute_control_cycle: every proposal of its generator *)
(* is within its controller's limits, and all are one transaction, which   *)
(* commits or leaves the graph as it was.                                  *)
ControlCycle ==
  LET fresh == structure.units = 0
      unwired == structure.units >= 2 /\ structure.edges = {}
      n == IF fresh \/ unwired THEN 1 ELSE 0
      counted == [Counted(n) EXCEPT !.authorized = @ + n]
  IN  /\ MayCycle("control")
      /\ \/ /\ structure' = IF fresh THEN [structure EXCEPT !.units = 1, !.version = @ + 1]
                            ELSE IF unwired THEN [structure EXCEPT !.edges = {<<1, 2>>}, !.version = @ + 1]
                            ELSE structure
            /\ tally' = [counted EXCEPT !.commits = @ + n]
         \/ /\ tally' = [counted EXCEPT !.rollbacks = @ + n]
            /\ UNCHANGED structure
      /\ UNCHANGED <<driver, pacing, knowledge, assessed, decided>>

AdaptationNext ==
  \/ \E prior \in BOOLEAN, signals \in SignalSets, rounding \in SUBSET FineLimits :
       \/ DeclinedCycle(prior, signals, rounding)
       \/ AuthorizedCycle(prior, signals, rounding)
  \/ \E improved \in BOOLEAN \cup {NoAssessment}, signals \in SignalSets,
        utility \in Utilities, rounding \in SUBSET FineLimits :
       AdaptationCycle(improved, signals, utility, rounding)
  \/ ControlCycle

AdaptationSpec == AdaptationInit /\ [][AdaptationNext]_adaptationVars

----------------------------------------------------------------------------
(* Properties *)

AdaptationTypeOK ==
  /\ structure.units \in Nat /\ structure.version \in Nat
  /\ structure.edges \subseteq (1 .. structure.units) \X (1 .. structure.units)
  /\ pacing.since \in 0 .. Settled /\ pacing.harmed \in BOOLEAN
  /\ knowledge \in Seq(BOOLEAN)
  /\ assessed \in Utilities \cup {NoAssessment}
  /\ {decided.authorized, decided.executed} \subseteq Range(Kinds) \cup {NoKind}

\* The structure grows within the objective's limits whatever the signals, the
\* utilities and the failures, every authorized cycle of a driver that mutates is
\* either a commit or a rollback, and the commits are the versions.
GrowthAccounted ==
  /\ structure.units <= Objective.max_units
  /\ Cardinality(structure.edges) <= Objective.max_edges
  /\ driver = "control" \/ (driver = "system" /\ EnableMutation)
       => tally.authorized = tally.commits + tally.rollbacks
  /\ structure.version = tally.commits

\* The marginal-value gate: a change other than an expansion is executed only
\* when it is expected to beat the utility last observed, by the ten-thousandths
\* its kind needs.  Wiring needs 460: what it gains is counted whole while it is
\* below 0.05, so that 0.046 carries it over the threshold, and by half above,
\* where it takes 0.092; penalties come on top.
MarginalGate ==
  LET needed == [wire |-> 460, specialize |-> 3800, compose |-> 1800]
  IN  decided.executed \notin {NoKind, "expand"}
        => decided.margin >= needed[decided.executed] * TenThousandth

\* The learned ranking never moves a proposal: the generator already emits the
\* operation types learning prefers before the ones it avoids.
LearningNeverReorders == ~decided.reordered

\* authorize_top_scoring authorizes "the highest-scoring proposal"; the cycle
\* should execute the one that was authorized.
ExecutedIsAuthorized == decided.executed = decided.authorized

\* Of a graph adapted cycle after cycle: its growth stays within the limits and
\* is accounted for, a change other than an expansion is executed only when it
\* is expected to pay by what its kind needs, and what was learned never reorders the proposals.
AdaptationInvariant == AdaptationTypeOK /\ GrowthAccounted /\ MarginalGate /\ LearningNeverReorders

\* The inductive invariant: also what the counters and the last decision are.
AdaptationRecords ==
  /\ driver \in {"system", "learned", "control"}
  /\ structure = [units |-> structure.units, edges |-> structure.edges,
                  version |-> structure.version]
  /\ pacing \in [since : 0 .. Settled, recent : Nat, harmed : BOOLEAN, observed : Int]
  /\ tally \in [cycles : Nat, generated : Nat, authorized : Nat, commits : Nat, rollbacks : Nat]
  /\ decided \in [authorized : Range(Kinds) \cup {NoKind}, executed : Range(Kinds) \cup {NoKind},
                  margin : Int, reordered : BOOLEAN]

AdaptationInv == AdaptationRecords /\ AdaptationInvariant
============================================================================
