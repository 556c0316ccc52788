--------------------------- MODULE CognitiveState ---------------------------
(***************************************************************************)
(* dnc.cognition.state and dnc.repair: the claims of a task, what they     *)
(* rest on, the views materialised from them, and the life cycle of the    *)
(* task's actions, with invalidation along dependencies and localised      *)
(* repair of what was invalidated.                                         *)
(*                                                                         *)
(* The state is immutable and replaced as a whole, so it is one record.    *)
(* A repair reads it, calls recompute() and verify() for every affected    *)
(* claim, and then replaces it: those calls, and other threads, may        *)
(* replace it in between.  Of the event log, `log` keeps the invalidations *)
(* and the repairs.  A call that raises is a stuttering step.  Claims are  *)
(* appended CURRENT; nothing in the package makes one STALE or SUPERSEDED. *)
(***************************************************************************)
EXTENDS Integers, FiniteSets, Sequences

CONSTANTS
  Items, Views, Actions, Notes,   \* ids of claims, views, actions, evidence and hypotheses
  DependencyChoices,   \* what a claim may declare in depends_on
  RelationChoices,     \* <<source, target>> of DEPENDS_ON relations that may be added
  ViewChoices,         \* the claims a view may be registered on
  Requests,            \* the states asked for in action transitions
  Origins,             \* items, depends, relations of the state the system starts with
  MaxEvents,           \* bound on the log
  MaxDuring,           \* bound on the updates made while a repair runs
  NoView, NoRepair

ASSUME ChoicesAssumption ==
  /\ DependencyChoices \subseteq SUBSET Items
  /\ RelationChoices \subseteq Items \X Items
  /\ ViewChoices \subseteq SUBSET Items
  /\ Items \cap Views = {}
  /\ Origins \subseteq [items : SUBSET Items, depends : [Items -> SUBSET Items],
                        relations : SUBSET (Items \X Items)]
  /\ \A o \in Origins : IsFiniteSet(o.items) /\ o.relations \subseteq o.items \X o.items
  /\ NoView \notin ViewChoices /\ MaxEvents \in Nat

VARIABLES
  cog,      \* DNCSystem.cognitive_state
  repair    \* the repair in progress: its root and the state it started from

cognitiveVars == <<cog, repair>>

ActionSequence ==
  <<"PROPOSED", "VALIDATED", "POLICY_CHECKED", "AUTHORIZED", "PREPARED",
    "EXECUTING", "OBSERVED", "VERIFIED", "ASSESSED", "CLOSED">>
AlternativeTerminals ==
  {"REJECTED", "CANCELLED", "TIMED_OUT", "FAILED", "COMPENSATION_REQUIRED", "QUARANTINED"}
ActionStates == {ActionSequence[n] : n \in 1 .. 10} \cup AlternativeTerminals \cup {"none"}

\* history[i] counts the superseded revisions kept of i.  registered[v] is not
\* in the code: how long the log was when the view was last registered.
CognitiveInit ==
  /\ \E o \in Origins :
       cog = [items |-> o.items, depends |-> o.depends, relations |-> o.relations,
              invalid |-> {}, history |-> [i \in Items |-> 0], notes |-> {},
              actions |-> [x \in Actions |-> "none"],
              views |-> [v \in Views |-> NoView], marked |-> {},
              registered |-> [v \in Views |-> 0], log |-> <<>>]
  /\ repair = NoRepair

Event(kind, root, affected) == [kind |-> kind, root |-> root, affected |-> affected]

UpdateCognitiveState(state) ==
  /\ repair # NoRepair => repair.updates < MaxDuring
  /\ cog' = state
  /\ repair' = IF repair = NoRepair THEN NoRepair
               ELSE [repair EXCEPT !.updates = @ + 1]

----------------------------------------------------------------------------
(* Appending. *)

WithEpistemicItem(i, deps) ==
  /\ i \notin cog.items
  /\ UpdateCognitiveState([cog EXCEPT !.items = @ \cup {i}, !.depends[i] = deps])

\* with_evidence() and with_hypothesis().
WithNote(n) ==
  /\ n \notin cog.notes
  /\ UpdateCognitiveState([cog EXCEPT !.notes = @ \cup {n}])

\* Relations of the other types change nothing that is modelled here.
WithRelation(r) ==
  /\ {r[1], r[2]} \subseteq cog.items
  /\ r \notin cog.relations
  /\ UpdateCognitiveState([cog EXCEPT !.relations = @ \cup {r}])

\* A view may be registered again; the mark on it stays, and so does its
\* absence when the view is registered on claims that are invalid already.
WithMaterializedView(v, deps) ==
  /\ deps \subseteq cog.items
  /\ UpdateCognitiveState([cog EXCEPT !.views[v] = deps, !.registered[v] = Len(cog.log)])

----------------------------------------------------------------------------
(* Actions of the task. *)

\* What validate_action_transition() allows after `current`.
Allowed(current) ==
  IF current = "none" THEN {"PROPOSED"}
  ELSE IF current \in AlternativeTerminals \cup {"CLOSED"} THEN {}
  ELSE LET n == CHOOSE n \in 1 .. 10 : ActionSequence[n] = current
       IN  {ActionSequence[n + 1]} \cup AlternativeTerminals

WithActionTransition(x, next) ==
  /\ next \in Allowed(cog.actions[x])
  /\ UpdateCognitiveState([cog EXCEPT !.actions[x] = next])

\* authorize_lifecycle(): the remaining transitions up to AUTHORIZED, at once.
AuthorizeLifecycle(x) ==
  /\ cog.actions[x] \in {"none", "PROPOSED", "VALIDATED", "POLICY_CHECKED"}
  /\ UpdateCognitiveState([cog EXCEPT !.actions[x] = "AUTHORIZED"])

----------------------------------------------------------------------------
(* Invalidation. *)

\* What claims rest on: by what they declare, and by relations too.
Declared(state) == {p \in state.items \X state.items : p[2] \in state.depends[p[1]]}
Dependencies(state) == state.relations \cup Declared(state)

Widened(S, rests) == S \cup {p[1] : p \in {q \in rests : q[2] \in S}}

\* The loop of invalidate_from() and of dependency_cut(): rounds until nothing is
\* added, which no more rounds than there are claims can do.
Dependents(root, rests, rounds) ==
  LET spread[n \in 0 .. rounds] ==
        IF n = 0 THEN {root} ELSE Widened(spread[n - 1], rests)
  IN  spread[rounds]

\* Mutant: relations are not followed.
InvalidatedByFieldOnly(root) == Dependents(root, Declared(cog), Cardinality(cog.items))

InvalidatedBy(root) == Dependents(root, Dependencies(cog), Cardinality(cog.items))

InvalidateFrom(root) ==
  LET affected == InvalidatedBy(root) IN
  /\ root \in cog.items
  /\ Len(cog.log) < MaxEvents
  /\ UpdateCognitiveState([cog EXCEPT
       !.invalid = @ \cup affected,
       !.marked = @ \cup {v \in Views : cog.views[v] # NoView /\ cog.views[v] \cap affected # {}},
       !.log = Append(@, Event("invalidation", root, affected))])

----------------------------------------------------------------------------
(* Localised repair. *)

\* dependency_cut() over the claims and views of a state: what rests on the
\* root through depends_on and through the views' dependencies; relations are
\* not among the artifacts.
Cut(state, root) ==
  LET claims == Dependents(root, Declared(state), Cardinality(state.items))
  IN  claims \cup {v \in Views : state.views[v] # NoView /\ state.views[v] \cap claims # {}}

\* _topological_order() raises on a cycle within the cut.
Acyclic(state, cut) ==
  \A S \in SUBSET (cut \cap Items) :
    S # {} => \E i \in S : state.depends[i] \cap S = {}

BeginRepair(root) ==
  /\ repair = NoRepair
  /\ root \in cog.items \cup {v \in Views : cog.views[v] # NoView}
  /\ \A i \in cog.items : i \notin cog.depends[i]
  /\ Acyclic(cog, Cut(cog, root))
  /\ repair' = [root |-> root, original |-> cog, updates |-> 0]
  /\ UNCHANGED cog

\* The state with every claim of the cut recomputed, perhaps resting on other
\* claims than before, and current; its former revisions kept as history.
Repaired(original, root, depends) ==
  LET cut == Cut(original, root) IN
  [original EXCEPT
     !.depends = depends,
     !.invalid = @ \ cut,
     !.history = [i \in Items |-> IF i \in cut THEN @[i] + 1 ELSE @[i]],
     !.marked = @ \ cut,
     !.log = Append(@, Event("repair", root, cut))]

\* Only the claims a view names itself must be current.
ClosureComplete(state, cut) ==
  \A v \in cut \cap Views : state.views[v] \cap state.invalid = {}

FinishRepair(depends) ==
  LET original == repair.original
      result == Repaired(original, repair.root, depends)
  IN  /\ repair # NoRepair
      /\ ClosureComplete(result, Cut(original, repair.root))
      /\ Len(original.log) < MaxEvents
      /\ cog' = result
      /\ repair' = NoRepair

\* recompute() raises or changes an identity, verify() refuses, or the closure
\* is incomplete: the snapshot taken at the start is restored.
FailRepair ==
  /\ repair # NoRepair
  /\ cog' = repair.original
  /\ repair' = NoRepair

\* What recompute() returns for the claims of the cut: they rest on what they
\* rested on, except perhaps one.
Recomputations ==
  IF repair = NoRepair THEN {}
  ELSE LET depends == repair.original.depends
       IN  {[depends EXCEPT ![i] = d] :
              i \in Cut(repair.original, repair.root) \cap Items,
              d \in DependencyChoices} \cup {depends}

CognitiveNext ==
  \/ \E i \in Items, deps \in DependencyChoices : WithEpistemicItem(i, deps)
  \/ \E n \in Notes : WithNote(n)
  \/ \E r \in RelationChoices : WithRelation(r)
  \/ \E v \in Views, deps \in ViewChoices : WithMaterializedView(v, deps)
  \/ \E x \in Actions :
       \/ \E next \in Requests : WithActionTransition(x, next)
       \/ AuthorizeLifecycle(x)
  \/ \E root \in Items : InvalidateFrom(root)
  \/ \E root \in Items \cup Views : BeginRepair(root)
  \/ \E depends \in Recomputations : FinishRepair(depends)
  \/ FailRepair

CognitiveSpec == CognitiveInit /\ [][CognitiveNext]_cognitiveVars

----------------------------------------------------------------------------
(* Properties. *)

\* What the variables hold; relations, marks and views speak of what is there.
CognitiveTypeOK ==
  /\ cog.items \subseteq Items
  /\ cog.depends \in [Items -> SUBSET Items]
  /\ cog.invalid \subseteq cog.items
  /\ cog.history \in [Items -> Nat]
  /\ \A r \in cog.relations : {r[1], r[2]} \subseteq cog.items
  /\ cog.notes \subseteq Notes
  /\ cog.actions \in [Actions -> ActionStates]
  /\ \A v \in Views : cog.views[v] # NoView => cog.views[v] \subseteq cog.items
  /\ cog.marked \subseteq {v \in Views : cog.views[v] # NoView}
  /\ Len(cog.log) <= MaxEvents
  /\ repair # NoRepair => repair.root \in repair.original.items \cup Views

\* i rests on root, directly or not, by what claims declare or by relations: it is in
\* every set of claims that has the root and, with a claim, whatever depends on it.
RestsOn(state, i, root) ==
  \A S \in SUBSET state.items :
    root \in S /\ (\A p \in Dependencies(state) : p[2] \in S => p[1] \in S) => i \in S

\* An invalidation takes down exactly the claims that rest on its root, through
\* dependencies of either kind and through cycles too.
InvalidationReaches ==
  [][ Len(cog'.log) > Len(cog.log) =>
        LET e == cog'.log[Len(cog'.log)]
        IN  e.kind = "invalidation" =>
              \A i \in cog.items : i \in e.affected <=> RestsOn(cog, i, e.root) ]_cognitiveVars

Events(state, kind) == {k \in 1 .. Len(state.log) : state.log[k].kind = kind}
SettledBy(state, x, k) == \E l \in Events(state, "repair") : l > k /\ x \in state.log[l].affected

\* A claim is invalid just when the log shows an invalidation of it that no
\* repair has settled since: whatever a repair overwrites when it replaces the
\* state by one it read earlier, statuses and log go back together.
StatusExplained ==
  \A i \in cog.items :
    i \in cog.invalid <=>
      \E k \in Events(cog, "invalidation") :
        i \in cog.log[k].affected /\ ~SettledBy(cog, i, k)

\* A view that is not marked rests on no claim invalidated after the view was
\* registered, unless a repair has gone over the view since.
ViewsExplained ==
  \A v \in Views : cog.views[v] # NoView /\ v \notin cog.marked =>
    \A k \in Events(cog, "invalidation") :
      k > cog.registered[v] /\ cog.views[v] \cap cog.log[k].affected # {} => SettledBy(cog, v, k)

\* Every revision a repair superseded is kept, once.
RevisionsKept ==
  \A i \in Items :
    cog.history[i] = Cardinality({k \in Events(cog, "repair") : i \in cog.log[k].affected})

\* What the documentation says of repair: a materialised output is considered
\* repaired only when every dependency in its closure is current.
OutputsRepairedWhole ==
  [][ Len(cog'.log) > Len(cog.log) =>
        \A v \in cog.marked \ cog'.marked :
          \A i \in cog'.views[v], j \in cog'.items :
            RestsOn(cog', i, j) => j \notin cog'.invalid ]_cognitiveVars

----------------------------------------------------------------------------
(* The inductive invariant: it is kept by every state of the task, the one *)
(* a repair started from included.                                         *)

TaskEvent == [kind : {"invalidation", "repair"}, root : Items \cup Views,
              affected : SUBSET (Items \cup Views)]

TaskStates ==
  [items : SUBSET Items, depends : [Items -> SUBSET Items], relations : SUBSET (Items \X Items),
   invalid : SUBSET Items, history : [Items -> Nat], notes : SUBSET Notes,
   actions : [Actions -> ActionStates], views : [Views -> {NoView} \cup SUBSET Items],
   marked : SUBSET Views, registered : [Views -> Nat], log : Seq(TaskEvent)]

\* Whatever a state names exists in it; an invalidation affects claims it has.
Grounded(s) ==
  /\ IsFiniteSet(s.items) /\ s.invalid \subseteq s.items /\ s.relations \subseteq s.items \X s.items
  /\ \A v \in Views : s.views[v] # NoView => s.views[v] \subseteq s.items
  /\ \A v \in s.marked : s.views[v] # NoView
  /\ Len(s.log) <= MaxEvents
  /\ \A k \in Events(s, "invalidation") : s.log[k].affected \subseteq s.items

Explained(s) ==
  /\ \A i \in s.items :
       i \in s.invalid <=>
         \E k \in Events(s, "invalidation") : i \in s.log[k].affected /\ ~SettledBy(s, i, k)
  /\ \A v \in Views : s.views[v] # NoView /\ v \notin s.marked =>
       \A k \in Events(s, "invalidation") :
         k > s.registered[v] /\ s.views[v] \cap s.log[k].affected # {} => SettledBy(s, v, k)
  /\ \A i \in Items : s.history[i] = Cardinality({k \in Events(s, "repair") : i \in s.log[k].affected})

StateInv(s) == s \in TaskStates /\ Grounded(s) /\ Explained(s)

CognitiveInv ==
  /\ StateInv(cog)
  /\ repair # NoRepair =>
       /\ repair \in [root : Items \cup Views, original : TaskStates, updates : Nat]
       /\ StateInv(repair.original) /\ repair.root \in repair.original.items \cup Views
       /\ Len(repair.original.log) <= Len(cog.log)

----------------------------------------------------------------------------
\* After any updates, invalidations and repairs, with others in between: each
\* claim's status is explained by the log, each view is valid as registered,
\* every revision a claim had is in its history, and each invalidation reached
\* just what depends on its root (CognitiveState, execute_localized_repair).
CognitiveSafety ==
  /\ []CognitiveTypeOK /\ []StatusExplained /\ []ViewsExplained /\ []RevisionsKept
  /\ InvalidationReaches
=============================================================================
