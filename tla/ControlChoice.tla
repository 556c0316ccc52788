--------------------------- MODULE ControlChoice ---------------------------
(***************************************************************************)
(* Choosing a task's next cognitive action: the reference controller       *)
(* (cognition/controller.py), and the semantic controller with its         *)
(* candidate generators (control/), which deduplicates, authorizes, prunes *)
(* and picks, and then walks the chosen action's lifecycle up to           *)
(* AUTHORIZED.  Proposal ids name source and action, so a task that needs  *)
(* an action twice meets the same id twice.                                *)
(*                                                                         *)
(* What the controllers read of the cognitive state is a set of facts and  *)
(* a level of calibrated risk.  Gains, costs and risks are in tenths; the  *)
(* objectives no generator sets are left out; cost stands for cost and     *)
(* latency, own for "of this task and within its risk class".  An         *)
(* action's lifecycle is cut down to not begun, AUTHORIZED, under way      *)
(* (PREPARED to ASSESSED) and over (CLOSED and the alternative terminals). *)
(***************************************************************************)
EXTENDS Integers, Sequences, FiniteSets, SequencesExt

CONSTANTS
    Offers,           \* what callback generators return: [source, candidates]
    Budgets,          \* values of available_budget, in tenths
    Grants,           \* values of granted_permissions
    Permitted,        \* values of allowed_actions
    MaxActions        \* bound on the actions of a task

TaskFacts == {"answer", "verified", "contradiction", "missing", "hypothesis",
              "limit", "gain"}
RiskLevels == {"none", "low", "high"}

CandidateSource == {"RULE", "PLANNER", "MODEL", "SKILL", "VERIFIER", "HYPOTHESIS"}
CognitiveActionType ==
    {"REASON", "CONTINUE", "BRANCH", "VERIFY", "RETRIEVE", "OBSERVE_OR_TEST",
     "ASK", "REPAIR", "REUSE_SKILL", "RESTRUCTURE", "ESCALATE", "RESUME",
     "STOP", "ABSTAIN"}

ActionCandidate ==
    [action : CognitiveActionType, source : CandidateSource, quality : Nat,
     information : Nat, confidence : Nat, cost : Nat, safety : Nat,
     uncertainty : 0..10, needs : SUBSET STRING, ready : BOOLEAN,
     own : BOOLEAN, noop : BOOLEAN]

ASSUME OffersAssumption ==
    \A offer \in Offers : offer.candidates \in Seq(ActionCandidate)

VARIABLES
    known,            \* which of TaskFacts hold of the cognitive state
    answerRisk,       \* calibrated_risk against the task's threshold
    stages,           \* action_states: id -> "AUTHORIZED", "UNDERWAY", "OVER"
    context,          \* the ControllerContext of the call to come
    outcome           \* what the last call gave

controlVars == <<known, answerRisk, stages, context, outcome>>

---------------------------------------------------------------------------
(* ReferenceCognitiveController *)

\* has_mandatory_verification: a verified answer, by every verifier asked
CanStop ==
    /\ {"answer", "verified"} \subseteq known
    /\ known \cap {"contradiction", "missing", "gain"} = {}
    /\ answerRisk = "low"

\* propose_next: the first rule that applies
ProposeNext ==
    IF "contradiction" \in known THEN "VERIFY"
    ELSE IF "missing" \in known THEN "ASK"
    ELSE IF CanStop THEN "STOP"
    ELSE IF "answer" \in known THEN "VERIFY"
    ELSE "REASON"

\* authorize: the proposal is for the task at the task's own risk, so only
\* STOP is in question.
AuthorizeProposal(action) == action = "STOP" => CanStop

Halt ==
    IF CanStop THEN "STOP"
    ELSE IF "contradiction" \in known THEN "VERIFY"
    ELSE IF "missing" \in known THEN "ASK"
    ELSE "VERIFY"

---------------------------------------------------------------------------
(* Candidates *)

\* _candidate: cost and safety risk of 0.1 unless said otherwise
Candidate(action, source, quality, information, confidence) ==
    [action |-> action, source |-> source, quality |-> quality,
     information |-> information, confidence |-> confidence, cost |-> 1,
     safety |-> 1, uncertainty |-> 0, needs |-> {}, ready |-> TRUE,
     own |-> TRUE, noop |-> FALSE]

Id(c) == <<c.source, c.action>>

\* RuleCandidateGenerator.generate
RuleCandidates ==
    LET When(fact, s) == IF fact \in known THEN s ELSE <<>>
        Rule(action, q, i) == Candidate(action, "RULE", q, i, 0)
        Free(c) == [c EXCEPT !.safety = 0]
    IN  When("contradiction", <<Rule("VERIFY", 0, 8), Rule("REPAIR", 5, 0)>>)
        \o When("missing", <<Rule("RETRIEVE", 0, 7), Rule("ASK", 0, 9)>>)
        \o When("hypothesis",
                <<Candidate("OBSERVE_OR_TEST", "HYPOTHESIS", 0, 9, 0),
                  Candidate("BRANCH", "HYPOTHESIS", 0, 5, 0)>>)
        \o (IF "answer" \in known
            THEN <<Candidate("VERIFY", "VERIFIER", 0, 0, 8),
                   [Free(Rule("STOP", 10, 0)) EXCEPT !.cost = 0]>>
            ELSE <<Rule("REASON", 6, 0), Rule("CONTINUE", 4, 0)>>)
        \o When("limit", <<Free(Rule("ESCALATE", 0, 0)),
                           Free(Rule("ABSTAIN", 0, 0))>>)

\* CallbackCandidateGenerator.generate raises on a source it did not declare.
WellSourced(offer) ==
    \A i \in DOMAIN offer.candidates :
        offer.candidates[i].source = offer.source

---------------------------------------------------------------------------
(* SemanticCognitiveController.select *)

\* The key leaves out prediction, cost and whether preconditions hold.
SemanticKey(c) == <<c.own, c.action, c.needs>>

AddUnlessSeen(unique, c) ==
    IF \E i \in DOMAIN unique : \/ Id(unique[i]) = Id(c)
                                \/ SemanticKey(unique[i]) = SemanticKey(c)
    THEN unique ELSE Append(unique, c)

Deduplicate(s) == FoldLeft(AddUnlessSeen, <<>>, s)

\* No reason of _authorization_reasons applies.
Authorized(c) ==
    /\ c.own
    /\ c.action \in context.allowed
    /\ c.cost <= context.budget
    /\ c.needs \subseteq context.granted
    /\ c.ready
    /\ c.action = "STOP" => context.stop /\ ~c.noop

\* _objectives, all to be maximised
Objectives(c) ==
    <<c.quality, c.information, c.confidence, -c.cost, -c.safety>>

CostlierDominates(c, d) ==
    LET x == [Objectives(c) EXCEPT ![4] = -@]
        y == [Objectives(d) EXCEPT ![4] = -@]
    IN  (\A i \in DOMAIN x : x[i] >= y[i]) /\ (\E i \in DOMAIN x : x[i] > y[i])

Dominates(c, d) ==
    LET x == Objectives(c)
        y == Objectives(d)
    IN  (\A i \in DOMAIN x : x[i] >= y[i]) /\ (\E i \in DOMAIN x : x[i] > y[i])

ParetoPrune(cs) == {c \in cs : ~\E d \in cs : Dominates(d, c)}

\* _lexicographic_key up to its last part, to be minimised
LexicographicKey(c) ==
    <<c.safety, c.uncertainty, -(c.quality + c.information + c.confidence),
      c.cost>>

\* Ids compare as text: source first, then action.
Words ==
    <<"HYPOTHESIS", "MODEL", "PLANNER", "RULE", "SKILL", "VERIFIER",
      "ABSTAIN", "ASK", "BRANCH", "CONTINUE", "ESCALATE", "OBSERVE_OR_TEST",
      "REASON", "REPAIR", "RESTRUCTURE", "RESUME", "RETRIEVE", "REUSE_SKILL",
      "STOP", "VERIFY">>

TextRank(word) == CHOOSE i \in 1..20 : Words[i] = word

Key(c) == LexicographicKey(c) \o <<TextRank(c.source), TextRank(c.action)>>

Precedes(k, l) ==
    \E i \in DOMAIN k : k[i] < l[i] /\ \A j \in 1..(i - 1) : k[j] = l[j]

LexicographicMin(cs) == CHOOSE c \in cs : \A d \in cs \ {c} : Precedes(Key(c), Key(d))

\* Everything offered, in the order the caller joins the generators.
Candidates(offer) == RuleCandidates \o offer.candidates

AuthorizedOf(offer) ==
    {c \in Range(Deduplicate(Candidates(offer))) : Authorized(c)}

Select(offer) == LexicographicMin(ParetoPrune(AuthorizedOf(offer)))

---------------------------------------------------------------------------
(* One call of select_cognitive_action, and what happens around it. *)

Stage(id) == IF id \in DOMAIN stages THEN stages[id] ELSE "NONE"

Put(id, stage) ==
    stages' = [x \in DOMAIN stages \cup {id} |->
                  IF x = id THEN stage ELSE stages[x]]

NoCandidate ==
    /\ \E offer \in Offers :
          /\ WellSourced(offer)
          /\ AuthorizedOf(offer) = {}
          /\ outcome' = "nothing"
    /\ UNCHANGED <<known, answerRisk, stages, context>>

\* authorize_lifecycle starts over at PROPOSED for an action that is past
\* AUTHORIZED, which no transition allows: the call raises.
SelectCognitiveAction ==
    /\ \E offer \in Offers :
          /\ WellSourced(offer)
          /\ AuthorizedOf(offer) /= {}
          /\ LET id == Id(Select(offer))
             IN  IF Stage(id) \in {"UNDERWAY", "OVER"}
                 THEN /\ outcome' = "raised"
                      /\ UNCHANGED stages
                 ELSE /\ Cardinality(DOMAIN stages \cup {id}) <= MaxActions
                      /\ outcome' = "selected"
                      /\ Put(id, "AUTHORIZED")
    /\ UNCHANGED <<known, answerRisk, context>>

\* The action is carried out, step by step, or ends early.
Advance ==
    /\ \E id \in DOMAIN stages :
          \/ stages[id] = "AUTHORIZED" /\ Put(id, "UNDERWAY")
          \/ stages[id] \in {"AUTHORIZED", "UNDERWAY"} /\ Put(id, "OVER")
    /\ outcome' = "none"
    /\ UNCHANGED <<known, answerRisk, context>>

\* The cognitive state changes, as the actions carried out make it.
Update ==
    /\ \/ \E fact \in TaskFacts :
             /\ known' = IF fact \in known THEN known \ {fact}
                         ELSE known \cup {fact}
             /\ "verified" \in known' => "answer" \in known'
             /\ UNCHANGED answerRisk
       \/ /\ answerRisk' \in RiskLevels
          /\ UNCHANGED known
    /\ outcome' = "none"
    /\ UNCHANGED <<stages, context>>

Contexts == [allowed : Permitted, budget : Budgets, granted : Grants,
             stop : BOOLEAN]

Recontext ==
    /\ context' \in Contexts
    /\ outcome' = "none"
    /\ UNCHANGED <<known, answerRisk, stages>>

ControlInit ==
    /\ known = {}
    /\ answerRisk = "none"
    /\ stages = <<>>
    /\ context \in Contexts
    /\ outcome = "none"

ControlNext ==
    NoCandidate \/ SelectCognitiveAction \/ Advance \/ Update \/ Recontext

ControlSpec == ControlInit /\ [][ControlNext]_controlVars

---------------------------------------------------------------------------
(* Properties *)

\* The reference controller's two answers agree in every state: halt() says
\* STOP exactly when the action propose_next() proposes is STOP, which is
\* then authorized, and otherwise they ask for the same thing, except that
\* halt() has no word for reasoning towards a first answer.
HaltAgreesWithNext ==
    /\ AuthorizeProposal(ProposeNext)
    /\ \/ Halt = ProposeNext
       \/ Halt = "VERIFY" /\ ProposeNext = "REASON" /\ "answer" \notin known

\* Pruning never changes the choice among equally uncertain candidates: the
\* one the lexicographic order prefers among all authorized candidates
\* survives (pareto_prune, _objectives and _lexicographic_key pull the same
\* way).
PruningKeepsTheBest ==
    \A offer \in Offers :
        LET cs == AuthorizedOf(offer)
        IN  (cs /= {} /\ \A c, d \in cs : c.uncertainty = d.uncertainty)
            => Select(offer) = LexicographicMin(cs)

\* The documented invariant that repeated authorization is idempotent:
\* choosing an action whose lifecycle has moved on does not fail.
AuthorizationRepeatable == outcome /= "raised"

\* In every state of a task the reference controller's two answers agree, and
\* pruning does not change the choice among equally uncertain candidates.
ChoiceInvariant == HaltAgreesWithNext /\ PruningKeepsTheBest
===========================================================================
