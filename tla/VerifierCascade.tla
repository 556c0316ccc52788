-------------------------- MODULE VerifierCascade --------------------------
(***************************************************************************)
(* VerifierRegistry and VerifierCascade of dnc.assurance.registry: which   *)
(* verifiers a claim is put to, in which order, and when the cascade stops.*)
(***************************************************************************)
EXTENDS Integers, FiniteSets, FiniteSetsExt, Sequences, SequencesExt

CONSTANTS
  Verifiers,       \* verifier ids, numbered in the order of their names
  Cost,            \* Cost[v], Group[v], Human[v]: of the descriptor of v
  Group,
  Human,
  CascadePolicies  \* policies a claim is verified under

ASSUME CascadeConstants ==
  /\ Verifiers \subseteq Nat /\ Cost \in [Verifiers -> Nat]
  /\ \A policy \in CascadePolicies : policy.budget \in Nat

VARIABLES
  registered,  \* _verifiers
  muted        \* _disabled

cascadeVars == <<registered, muted>>

CascadeInit == registered = {} /\ muted = {}

\* Registering again replaces the verifier and leaves it disabled if it was.
RegisterVerifier(v) == registered' = registered \cup {v} /\ UNCHANGED muted

SetMuted(v, off) ==
  /\ v \in registered
  /\ muted' = IF off THEN muted \cup {v} ELSE muted \ {v}
  /\ UNCHANGED registered

ActiveVerifiers == registered \ muted

Cheaper(v, w) == Cost[v] < Cost[w] \/ (Cost[v] = Cost[w] /\ v < w)

\* candidates: by cost, then by id.
Candidates ==
  [i \in 1 .. Cardinality(ActiveVerifiers) |->
     CHOOSE v \in ActiveVerifiers :
       Cardinality({w \in ActiveVerifiers : Cheaper(w, v)}) = i - 1]

CountsPasses(policy, passed) == Cardinality(passed) >= policy.passes

Meets(policy, passed) ==
  /\ Cardinality(passed) >= policy.passes
  /\ Cardinality({Group[v] : v \in passed}) >= policy.groups
  /\ policy.human => \E v \in passed : Human[v]

\* The cascade comes to verifier v, which would answer outcome[v].  One that
\* does not fit the budget is skipped; a failure stops the cascade.
PutTo(policy, outcome, s, v) ==
  IF s.reason # "UNMET" \/ s.cost + Cost[v] > policy.budget THEN s
  ELSE LET passed == IF outcome[v] = "PASS" THEN s.passed \cup {v} ELSE s.passed
       IN  [run |-> Append(s.run, v), cost |-> s.cost + Cost[v], passed |-> passed,
            reason |-> IF outcome[v] = "FAIL" /\ policy.stop THEN "FAILED"
                       ELSE IF Meets(policy, passed) THEN "SATISFIED"
                       ELSE "UNMET"]

\* VerifierCascade.run, which raises when there is no candidate.
Cascade(policy, outcome) ==
  FoldLeft(LAMBDA s, v : PutTo(policy, outcome, s, v),
           [run |-> <<>>, cost |-> 0, passed |-> {}, reason |-> "UNMET"], Candidates)

CascadeNext ==
  \E v \in Verifiers : RegisterVerifier(v) \/ (\E off \in BOOLEAN : SetMuted(v, off))

CascadeSpec == CascadeInit /\ [][CascadeNext]_cascadeVars

----------------------------------------------------------------------------
(* Properties *)

Answers == {"PASS", "FAIL", "UNKNOWN"}

CostOf(run) == FoldLeft(LAMBDA n, v : n + Cost[v], 0, run)

\* A satisfied claim has been paid for within the budget, each verifier asked
\* once; it has been passed by verifiers of as many independence groups as the
\* policy asks for, by a person if it asks for one, and under stop_on_failure
\* no active verifier that the budget allowed, and that is cheaper than the
\* last one run, would fail it.
CascadeSound == ActiveVerifiers # {} =>
  \A policy \in CascadePolicies, outcome \in [Verifiers -> Answers] :
    LET s == Cascade(policy, outcome)
        passed == {v \in ActiveVerifiers \cap ToSet(s.run) : outcome[v] = "PASS"}
    IN  s.reason = "SATISFIED" =>
          /\ CostOf(s.run) <= policy.budget
          /\ IsInjective(s.run)
          /\ Cardinality(passed) >= policy.passes
          /\ Cardinality({Group[v] : v \in passed}) >= policy.groups
          /\ policy.human => \E v \in passed : Human[v]
          /\ policy.stop => \A v \in ActiveVerifiers :
               outcome[v] = "FAIL" => \/ Cost[v] >= Cost[Last(s.run)]
                                      \/ s.cost + Cost[v] > policy.budget
============================================================================
