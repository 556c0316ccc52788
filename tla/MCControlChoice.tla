-------------------------- MODULE MCControlChoice --------------------------
(***************************************************************************)
(* Small instances of ControlChoice: a generator that is silent, a model   *)
(* that offers a free step and a costly one that needs a permission, and a *)
(* generator that answers under another source than its own.               *)
(***************************************************************************)
EXTENDS ControlChoice

Costing(candidate, cost) == [candidate EXCEPT !.cost = cost]

MCOffers ==
  { [source |-> "MODEL", candidates |-> <<>>],
    [source |-> "MODEL",
     candidates |-> << Costing(Candidate("REASON", "MODEL", 6, 0, 0), 0),
                       [Costing(Candidate("VERIFY", "MODEL", 0, 8, 0), 3)
                          EXCEPT !.needs = {"tool"}] >>],
    [source |-> "SKILL", candidates |-> << Costing(Candidate("ASK", "RULE", 6, 0, 0), 0) >>] }

MCPermitted == { {"ASK", "VERIFY", "STOP", "REASON", "REPAIR", "ABSTAIN",
                  "OBSERVE_OR_TEST", "CONTINUE"} }
============================================================================
