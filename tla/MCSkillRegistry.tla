-------------------------- MODULE MCSkillRegistry --------------------------
(***************************************************************************)
(* Three versions of one skill in a line of descent.  The first two are of *)
(* one tenant and depend on one model; the third is another tenant's, with *)
(* another model, and names a version of the first tenant as its parent.   *)
(* In a second instance the first version names itself.                    *)
(***************************************************************************)
EXTENDS SkillRegistry

MCVersions == {"v1", "v2", "v3"}
MCSkill == [v \in MCVersions |-> "pay"]
MCTenant == [v \in MCVersions |-> IF v = "v3" THEN "u" ELSE "t"]
MCParent == [v1 |-> NoParent, v2 |-> "v1", v3 |-> "v2"]
MCOwnParent == [MCParent EXCEPT !.v1 = "v1"]
MCDependencies == [v1 |-> {"m1"}, v2 |-> {"m1"}, v3 |-> {"m2"}]
============================================================================
