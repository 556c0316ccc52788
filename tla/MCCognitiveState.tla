-------------------------- MODULE MCCognitiveState --------------------------
(***************************************************************************)
(* Three claims that may rest on one another in cycles, by what they       *)
(* declare and by relations, one view, one action and one note.            *)
(***************************************************************************)
EXTENDS CognitiveState

CONSTANTS a, b, c

MCItems == {a, b, c}
MCDependencyChoices == {{a}}
MCViewChoices == {{a, c}}
MCRelationChoices == {<<c, b>>}

\* b rests on a, and c is still to come; c rests on b by a relation; or a and b
\* rest on each other.
MCOrigins ==
  LET none == [i \in MCItems |-> {}]
      chain == [none EXCEPT ![b] = {a}]
  IN  { [items |-> {a, b}, depends |-> chain, relations |-> {}],
        [items |-> MCItems, depends |-> chain, relations |-> {<<c, b>>}],
        [items |-> MCItems, depends |-> [chain EXCEPT ![a] = {b}], relations |-> {}] }
=============================================================================
