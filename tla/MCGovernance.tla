---------------------------- MODULE MCGovernance ----------------------------
(***************************************************************************)
(* The components that govern what is trusted, promoted and withdrawn,     *)
(* each in a small instance: part names the one a behaviour is of, and the *)
(* others stay as they begin.                                              *)
(***************************************************************************)
EXTENDS PilotProgram, MCSkillRegistry, Assurance, VerifierCascade, Outcomes, LearnedPolicies

\* PilotProgram: two days of canary are required; one of the canary observations
\* failed and was slow, one is internal, and two reports carry the same id.
Seen(id, s, day, failed, external) ==
  [id |-> id, stage |-> s, day |-> day, value |-> IF failed THEN 0 ELSE 8,
   failed |-> failed, latency |-> IF failed THEN 90 ELSE 10, cost |-> 1,
   feedback |-> TRUE, delayed |-> TRUE, external |-> external]

MCObservations ==
  { Seen(1, "offline_replay", 0, FALSE, FALSE),
    Seen(2, "shadow", 1, FALSE, FALSE),
    Seen(2, "shadow", 1, TRUE, FALSE),
    Seen(3, "shadow", 2, TRUE, FALSE),
    Seen(4, "limited_canary", 3, FALSE, TRUE),
    Seen(5, "limited_canary", 4, FALSE, TRUE),
    Seen(6, "limited_canary", 4, TRUE, TRUE),
    Seen(7, "limited_canary", 5, FALSE, FALSE),
    Seen(8, "general_availability", 9, TRUE, TRUE) }

\* Assurance: the artifact is about the model of the better capability.
MCCompetence == <<2, 1>>
MCAbout == [x |-> [model |-> "m1", verifiers |-> {"p"}]]
MCEdition == [x |-> 1]

\* VerifierCascade: the two cheapest share a group; the dearest is a person.
MCCost == <<1, 1, 2, 3>>
MCGroup == <<"g", "g", "h", "k">>
MCHuman == <<FALSE, FALSE, FALSE, TRUE>>
MCCascadePolicies ==
  { [passes |-> 2, groups |-> 2, human |-> FALSE, stop |-> stop, budget |-> budget] :
      stop \in BOOLEAN, budget \in {4, 9} }
  \cup { [passes |-> 1, groups |-> 1, human |-> TRUE, stop |-> TRUE, budget |-> 9] }

MCLabelTexts == [target : {"t", "u"}, status : {"PROVISIONAL", "CORRECTED"},
                 at : {1, 2}, supersedes : {"l1", "l2", NoLabel}]

\* LearnedPolicies: one decision, made by a fair coin, that went well.
MCFirstLog ==
  { << [action |-> 1, propensity |-> <<10, 10>>, outcome |-> 1, correction |-> PendingYet,
        censored |-> FALSE, violated |-> FALSE] >> }

----------------------------------------------------------------------------

VARIABLE part

Init ==
  /\ part \in {"pilot", "skills", "assurance", "cascade", "labels", "fits", "learned"}
  /\ PilotInit /\ SkillInit /\ AssuranceInit /\ CascadeInit /\ LabelsInit /\ FitsInit
  /\ LearnedInit

Next ==
  \/ /\ part = "pilot" /\ PilotNext
     /\ UNCHANGED <<part, skillVars, assuranceVars, cascadeVars, labelVars, outcomes,
                    learnedVars>>
  \/ /\ part = "skills" /\ SkillNext
     /\ UNCHANGED <<part, pilotVars, assuranceVars, cascadeVars, labelVars, outcomes,
                    learnedVars>>
  \/ /\ part = "assurance" /\ AssuranceNext
     /\ UNCHANGED <<part, pilotVars, skillVars, cascadeVars, labelVars, outcomes,
                    learnedVars>>
  \/ /\ part = "cascade" /\ CascadeNext
     /\ UNCHANGED <<part, pilotVars, skillVars, assuranceVars, labelVars, outcomes,
                    learnedVars>>
  \/ /\ part = "labels" /\ LabelsNext
     /\ UNCHANGED <<part, pilotVars, skillVars, assuranceVars, cascadeVars, outcomes,
                    learnedVars>>
  \/ /\ part = "fits" /\ FitsNext
     /\ UNCHANGED <<part, pilotVars, skillVars, assuranceVars, cascadeVars, labelVars,
                    learnedVars>>
  \/ /\ part = "learned" /\ LearnedNext
     /\ UNCHANGED <<part, pilotVars, skillVars, assuranceVars, cascadeVars, labelVars,
                    outcomes>>

Spec ==
  Init /\ [][Next]_<<part, pilotVars, skillVars, assuranceVars, cascadeVars, labelVars,
                     outcomes, learnedVars>>
=============================================================================
