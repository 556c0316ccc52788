---------------------------- MODULE MCCognition ----------------------------
(***************************************************************************)
(* The components that decide, learn and remember, each in a small         *)
(* instance: part names the one a behaviour is of, and the others stay as  *)
(* they begin.                                                             *)
(***************************************************************************)
EXTENDS MCCognitiveState, MCControlChoice, MCAdaptation, Halting, DriftSample,
        GovernedMemory

\* Halting: x is like p and like q, which are not alike.
MCSimilar == {<<"p", "p">>, <<"q", "q">>, <<"x", "x">>, <<"p", "x">>, <<"x", "p">>,
              <<"q", "x">>, <<"x", "q">>}
MCExposures == {InferenceAction, {"STOP", "SAMPLE", "DIVERSIFY"}}
MCEstimates ==
  { [value |-> [d \in Asked |-> IF d = "SAMPLE" THEN 1 ELSE 0], cost |-> [d \in Asked |-> 1]] }
MCFacts == {{"contract", "missing", "ambiguous"}}

----------------------------------------------------------------------------

VARIABLE part

\* A component that is not the one running begins in one way.
OneOf(S) == CHOOSE x \in S : TRUE

Init ==
  /\ part \in {"mind", "halting", "choice", "adaptation", "drift", "memory"}
  /\ DriftInit /\ MemoryInit
  /\ IF part = "mind" THEN CognitiveInit
     ELSE CognitiveInit /\ cog.items = OneOf(Origins).items
                        /\ cog.depends = OneOf(Origins).depends
  /\ IF part = "halting" THEN HaltingInit
     ELSE /\ HaltingInit
          /\ facts = OneOf(InitialFacts) /\ confidence = OneOf(Confidences)
          /\ mode = OneOf(HaltingPolicyMode) /\ exposed = OneOf(Exposures)
          /\ estimate = OneOf(Estimates)
  /\ IF part = "choice" THEN ControlInit ELSE ControlInit /\ context = OneOf(Contexts)
  /\ IF part = "adaptation" THEN AdaptationInit
     ELSE AdaptationInit /\ driver = "system" /\ structure = OneOf(InitialStructures)

Next ==
  \/ /\ part = "mind" /\ CognitiveNext
     /\ UNCHANGED <<part, haltingVars, controlVars, adaptationVars, driftVars, memoryVars>>
  \/ /\ part = "halting" /\ HaltingNext
     /\ UNCHANGED <<part, cognitiveVars, controlVars, adaptationVars, driftVars, memoryVars>>
  \/ /\ part = "choice" /\ ControlNext
     /\ UNCHANGED <<part, cognitiveVars, haltingVars, adaptationVars, driftVars, memoryVars>>
  \/ /\ part = "adaptation" /\ AdaptationNext
     /\ UNCHANGED <<part, cognitiveVars, haltingVars, controlVars, driftVars, memoryVars>>
  \/ /\ part = "drift" /\ DriftNext
     /\ UNCHANGED <<part, cognitiveVars, haltingVars, controlVars, adaptationVars, memoryVars>>
  \/ /\ part = "memory" /\ MemoryNext
     /\ UNCHANGED <<part, cognitiveVars, haltingVars, controlVars, adaptationVars, driftVars>>

Spec ==
  Init /\ [][Next]_<<part, cognitiveVars, haltingVars, controlVars, adaptationVars,
                     driftVars, memoryVars>>
============================================================================
