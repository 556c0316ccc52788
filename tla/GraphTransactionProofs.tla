----------------------- MODULE GraphTransactionProofs -----------------------
(***************************************************************************)
(* The transaction manager keeps TransactionInv, and therefore never       *)
(* leaves an invalid graph behind, never applies a plan to a graph its     *)
(* client did not see, and implements VersionedGraph.  It keeps HistoryInv *)
(* too: replaying what it committed gives the graph it holds, its log is   *)
(* the history of that graph, and what is staged can be undone.            *)
(***************************************************************************)
EXTENDS GraphTransaction, SequenceTheorems, TLAPS

\* An accepted operation keeps retired identities out of the graph and only
\* adds to them (apply_operation).
LEMMA EffectKeepsRetired ==
  ASSUME NEW o, NEW g, IsGraph(g), g.units \cap g.retired = {}, Applicable(o, g)
  PROVE  LET h == Effect(o, g)
         IN  IsGraph(h) /\ h.units \cap h.retired = {} /\ g.retired \subseteq h.retired
<1> DEFINE h == Effect(o, g)
<1>1. CASE o.op = "ADD_UNIT"
  <2>1. h = AddUnit(g, o.unit)
    BY <1>1 DEF Effect
  <2>2. o.unit \notin g.retired
    BY <1>1 DEF Applicable
  <2> QED
    BY <2>1, <2>2 DEF AddUnit, IsGraph
<1>2. CASE o.op = "REMOVE_UNIT"
  <2>1. h = [RemoveUnit(g, o.unit) EXCEPT !.retired = @ \cup {o.unit}]
    BY <1>2 DEF Effect
  <2> QED
    BY <2>1 DEF RemoveUnit, IsGraph
<1>3. CASE o.op = "CONNECT_UNITS"
  <2>1. h = AddEdges(g, <<o.edge>>)
    BY <1>3 DEF Effect
  <2> QED
    BY <2>1 DEF AddEdges, IsGraph
<1>4. CASE o.op = "DISCONNECT_UNITS"
  <2>1. h = RemoveEdges(g, o.pattern)
    BY <1>4 DEF Effect
  <2> QED
    BY <2>1 DEF RemoveEdges, IsGraph
<1>5. CASE o.op = "REWIRE_EDGE"
  <2>1. h = Rewire(g, FirstEdge(g, o.old[1], o.old[2]), o.new[1], o.new[2])
    BY <1>5 DEF Effect
  <2> QED
    BY <2>1 DEF Rewire, IsGraph
<1> QED
  BY <1>1, <1>2, <1>3, <1>4, <1>5 DEF Applicable

\* The manager starts with a free lock and no plans.
LEMMA TransactionInit == Init => TransactionInv
<1> SUFFICES ASSUME Init PROVE TransactionInv
  OBVIOUS
<1> USE DEF Init
<1>1. LockDiscipline
  BY DEF LockDiscipline, Phases
<1>2. BasesHonest
  BY DEF BasesHonest, NoPlan
<1>3. RetiredStayRetired
  BY InitialAssumption DEF RetiredStayRetired, IsGraph, Graph
<1>4. CommitProgress /\ CommittedGraphValid
  BY DEF CommitProgress, CommittedGraphValid, MidCommit, Phases
<1> QED
  BY <1>1, <1>2, <1>3, <1>4 DEF TransactionInv

\* A client plans while others may be anywhere in the manager.
LEMMA PlanPreserves ==
  ASSUME TransactionInv, NEW c \in Clients, NEW batch, NEW base, Plan(c, batch, base)
  PROVE  TransactionInv'
<1> USE DEF Plan, holderVars, history, TransactionInv
<1>1. LockDiscipline'
  BY DEF LockDiscipline
<1>2. BasesHonest'
  <2> SUFFICES ASSUME NEW d \in Clients, plan'[d].base # NoBase
               PROVE  /\ plan'[d].base \in 0 .. version
                      /\ plan'[d].base = version /\ ~MidCommit => plan'[d].seen = graph
                      /\ lock = d => plan'[d].base = version
    BY DEF BasesHonest, MidCommit
  <2>1. CASE d = c
    BY <2>1 DEF LockDiscipline
  <2>2. CASE d # c
    BY <2>2 DEF LockDiscipline, BasesHonest
  <2> QED
    BY <2>1, <2>2
<1>3. RetiredStayRetired' /\ CommitProgress' /\ CommittedGraphValid'
  BY DEF RetiredStayRetired, CommitProgress, CommittedGraphValid, MidCommit
<1> QED
  BY <1>1, <1>2, <1>3

\* A call that ends without a commit forgets its plan and touches no graph.
LEMMA ReturnPreserves ==
  ASSUME TransactionInv, NEW c \in Clients, NEW state, Return(c, state), ~MidCommit,
         lock \in {c, NoClient}, UNCHANGED <<graph, version>>
  PROVE  TransactionInv'
<1> USE DEF Return, TransactionInv
<1>1. LockDiscipline'
  BY DEF LockDiscipline, Phases
<1>2. BasesHonest'
  <2> SUFFICES ASSUME NEW d \in Clients, plan'[d].base # NoBase
               PROVE  /\ plan'[d].base \in 0 .. version
                      /\ plan'[d].base = version => plan'[d].seen = graph
    BY NoClientAssumption DEF BasesHonest
  <2>1. d # c
    BY DEF LockDiscipline, NoPlan
  <2> QED
    BY <2>1 DEF LockDiscipline, BasesHonest
<1>3. RetiredStayRetired' /\ CommitProgress' /\ CommittedGraphValid'
  BY DEF RetiredStayRetired, CommitProgress, CommittedGraphValid, MidCommit, Phases
<1> QED
  BY <1>1, <1>2, <1>3

\* The copy starts as the active graph, under a current base.
LEMMA BeginPreserves ==
  ASSUME TransactionInv, NEW c \in Clients, BeginStaged(c)
  PROVE  TransactionInv'
<1> USE DEF TransactionInv
<1>1. /\ lock = NoClient /\ BaseCurrent(c)
      /\ lock' = c /\ phase' = "applying" /\ staging' = graph
      /\ UNCHANGED <<graph, version, plan>>
  BY DEF BeginStaged
<1>2. phase = "idle"
  BY <1>1, NoClientAssumption DEF LockDiscipline
<1>3. LockDiscipline'
  BY <1>1 DEF LockDiscipline, Phases
<1>4. BasesHonest'
  BY <1>1, <1>2 DEF BasesHonest, BaseCurrent, MidCommit
<1>5. RetiredStayRetired' /\ CommitProgress' /\ CommittedGraphValid'
  BY <1>1, <1>2 DEF RetiredStayRetired, CommitProgress, CommittedGraphValid, MidCommit
<1> QED
  BY <1>3, <1>4, <1>5

\* An operation changes the copy only.
LEMMA ApplyPreserves ==
  ASSUME TransactionInv, NEW c \in Clients, ApplyNext(c)
  PROVE  TransactionInv'
<1> USE DEF ApplyNext, history, TransactionInv
<1>1. LockDiscipline' /\ BasesHonest'
  BY DEF LockDiscipline, BasesHonest, MidCommit
<1>2. RetiredStayRetired'
  <2>1. /\ IsGraph(staging) /\ staging.units \cap staging.retired = {}
        /\ graph.retired \subseteq staging.retired
    BY DEF RetiredStayRetired
  <2>2. /\ IsGraph(staging') /\ staging'.units \cap staging'.retired = {}
        /\ staging.retired \subseteq staging'.retired
    BY <2>1, EffectKeepsRetired
  <2> QED
    BY <2>1, <2>2 DEF RetiredStayRetired, IsGraph
<1>3. CommitProgress' /\ CommittedGraphValid'
  BY DEF CommitProgress, CommittedGraphValid, MidCommit, Phases
<1> QED
  BY <1>1, <1>2, <1>3

\* A validated copy is ready to be installed.
LEMMA ValidationPreserves ==
  ASSUME TransactionInv, NEW c \in Clients, ValidationPasses(c)
  PROVE  TransactionInv'
<1> USE DEF ValidationPasses, holderVars, history, TransactionInv
<1>1. LockDiscipline' /\ BasesHonest'
  BY DEF LockDiscipline, BasesHonest, MidCommit, Phases
<1>2. RetiredStayRetired' /\ CommitProgress' /\ CommittedGraphValid'
  BY DEF RetiredStayRetired, CommitProgress, CommittedGraphValid, MidCommit
<1> QED
  BY <1>1, <1>2

\* Each of the first three assignments of a commit copies its own part.
LEMMA CommitPartPreserves ==
  ASSUME TransactionInv, NEW c \in Clients,
         CommitUnits(c) \/ CommitEdges(c) \/ CommitMetadata(c)
  PROVE  TransactionInv'
<1> USE DEF CommitUnits, CommitEdges, CommitMetadata, holderVars, history, TransactionInv
<1>1. LockDiscipline'
  BY DEF LockDiscipline, Phases
<1>2. BasesHonest'
  BY DEF BasesHonest, MidCommit
<1>3. RetiredStayRetired'
  BY DEF RetiredStayRetired, CommitProgress, MidCommit, IsGraph
<1>4. CommitProgress'
  BY DEF CommitProgress, RetiredStayRetired, MidCommit, IsGraph, Phases
<1>5. CommittedGraphValid'
  BY DEF CommittedGraphValid, MidCommit
<1> QED
  BY <1>1, <1>2, <1>3, <1>4, <1>5

\* When the version is assigned the active graph is the whole copy.
LEMMA CopyComplete ==
  ASSUME TransactionInv, phase = "version"
  PROVE  graph = staging /\ Valid(graph)
BY DEF TransactionInv, CommitProgress, RetiredStayRetired, MidCommit, IsGraph, Phases

\* The version is assigned last: every base named so far is outdated by it.
LEMMA CommitVersionPreserves ==
  ASSUME TransactionInv, NEW c \in Clients, CommitVersion(c)
  PROVE  TransactionInv'
<1> USE DEF TransactionInv
<1>0. /\ lock = c /\ phase = "version" /\ version' = version + 1
      /\ lock' = NoClient /\ phase' = "idle" /\ plan' = [plan EXCEPT ![c] = NoPlan]
      /\ UNCHANGED graph
  BY DEF CommitVersion, Return
<1>1. LockDiscipline'
  BY <1>0 DEF LockDiscipline, Phases
<1>2. BasesHonest'
  <2> SUFFICES ASSUME NEW d \in Clients, plan'[d].base # NoBase
               PROVE  plan'[d].base \in 0 .. version
    BY <1>0, NoClientAssumption DEF BasesHonest, LockDiscipline
  <2>1. d # c
    BY <1>0 DEF LockDiscipline, NoPlan
  <2> QED
    BY <1>0, <2>1 DEF LockDiscipline, BasesHonest
<1>3. RetiredStayRetired' /\ CommitProgress' /\ CommittedGraphValid'
  BY <1>0, CopyComplete DEF RetiredStayRetired, CommitProgress, CommittedGraphValid,
     MidCommit, Phases
<1> QED
  BY <1>1, <1>2, <1>3

\* Every way a call ends without a commit.
CallEnds(c) == VersionConflict(c) \/ StagingFails(c) \/ ApplyFails(c) \/ ValidationFails(c)

\* A call that ends without a commit leaves the graph and its version alone.
LEMMA EndIsReturn ==
  ASSUME TransactionInv, NEW c \in Clients, CallEnds(c)
  PROVE  /\ \E state : Return(c, state)
         /\ ~MidCommit /\ lock \in {c, NoClient} /\ UNCHANGED <<graph, version>>
<1>1. CASE VersionConflict(c) \/ StagingFails(c)
  <2>1. /\ lock = NoClient /\ Return(c, "FAILED") /\ UNCHANGED <<graph, version>>
    BY <1>1 DEF VersionConflict, StagingFails, FailAtBegin
  <2>2. phase = "idle"
    BY <2>1, NoClientAssumption DEF TransactionInv, LockDiscipline
  <2> QED
    BY <2>1, <2>2 DEF MidCommit
<1>2. CASE ApplyFails(c) \/ ValidationFails(c)
  <2>1. lock = c /\ phase = "applying" /\ Abort(c)
    BY <1>2 DEF ApplyFails, ValidationFails
  <2> QED
    BY <2>1 DEF Abort, MidCommit
<1> QED
  BY <1>1, <1>2 DEF CallEnds

\* Every step of the manager keeps the invariant.
LEMMA TransactionStep == TransactionInv /\ [Next]_vars => TransactionInv'
<1> SUFFICES ASSUME TransactionInv, [Next]_vars PROVE TransactionInv'
  OBVIOUS
<1>1. CASE UNCHANGED vars
  BY <1>1 DEF vars, TransactionInv, LockDiscipline, BasesHonest, RetiredStayRetired,
     CommitProgress, CommittedGraphValid, MidCommit
<1>2. ASSUME NEW c \in Clients, NEW batch, NEW base, Plan(c, batch, base)
      PROVE  TransactionInv'
  BY <1>2, PlanPreserves
<1>3. ASSUME NEW c \in Clients, BeginStaged(c) PROVE TransactionInv'
  BY <1>3, BeginPreserves
<1>4. ASSUME NEW c \in Clients, CallEnds(c) PROVE TransactionInv'
  BY <1>4, EndIsReturn, ReturnPreserves
<1>5. ASSUME NEW c \in Clients, ApplyNext(c) PROVE TransactionInv'
  BY <1>5, ApplyPreserves
<1>6. ASSUME NEW c \in Clients, ValidationPasses(c) PROVE TransactionInv'
  BY <1>6, ValidationPreserves
<1>7. ASSUME NEW c \in Clients, CommitUnits(c) \/ CommitEdges(c) \/ CommitMetadata(c)
      PROVE  TransactionInv'
  BY <1>7, CommitPartPreserves
<1>8. ASSUME NEW c \in Clients, CommitVersion(c) PROVE TransactionInv'
  BY <1>8, CommitVersionPreserves
<1> QED
  BY <1>1, <1>2, <1>3, <1>4, <1>5, <1>6, <1>7, <1>8 DEF Next, HolderStep, CallEnds

\* TransactionInv holds in every reachable state.
THEOREM TransactionInvariance == Spec => []TransactionInv
BY TransactionInit, TransactionStep, PTL DEF Spec

\* Whenever no commit is under way, the graph that committed transactions left
\* behind is valid (validate_graph guards COMMIT).
THEOREM CommitsStayValid == Spec => []CommittedGraphValid
<1>1. TransactionInv => CommittedGraphValid
  BY DEF TransactionInv
<1> QED
  BY <1>1, TransactionInvariance, PTL

\* A plan with a named base runs on the graph it was made for (the optimistic
\* version check, with the version assigned last).
THEOREM PlansApplyToWhatWasSeen == Spec => []PlannedOnCurrent
<1>1. TransactionInv => PlannedOnCurrent
  <2> SUFFICES ASSUME TransactionInv, phase \in {"applying", "units"},
                      plan[lock].base # NoBase
               PROVE  plan[lock].seen = graph
    BY DEF PlannedOnCurrent
  <2>1. lock \in Clients /\ ~MidCommit
    BY DEF TransactionInv, LockDiscipline, MidCommit
  <2> QED
    BY <2>1 DEF TransactionInv, BasesHonest
<1> QED
  BY <1>1, TransactionInvariance, PTL

\* A step is the installation of a whole version or invisible from outside.
LEMMA StepInstalls ==
  ASSUME TransactionInv, [Next]_vars
  PROVE  [Versions!Install]_<<InstalledGraph, InstalledVersion>>
<1> USE DEF InstalledGraph, InstalledVersion
<1>1. CASE UNCHANGED vars
  BY <1>1 DEF vars, MidCommit
<1>2. ASSUME NEW c \in Clients, NEW batch, NEW base, Plan(c, batch, base)
      PROVE  UNCHANGED <<InstalledGraph, InstalledVersion>>
  BY <1>2 DEF Plan, holderVars, MidCommit
<1>3. ASSUME NEW c \in Clients, BeginStaged(c)
      PROVE  UNCHANGED <<InstalledGraph, InstalledVersion>>
  <2>1. /\ lock = NoClient /\ phase' = "applying" /\ UNCHANGED <<graph, version>>
    BY <1>3 DEF BeginStaged
  <2>2. phase = "idle"
    BY <2>1, NoClientAssumption DEF TransactionInv, LockDiscipline
  <2> QED
    BY <2>1, <2>2 DEF MidCommit
<1>4. ASSUME NEW c \in Clients, CallEnds(c)
      PROVE  UNCHANGED <<InstalledGraph, InstalledVersion>>
  BY <1>4, EndIsReturn DEF Return, MidCommit
<1>5. ASSUME NEW c \in Clients, ApplyNext(c) \/ ValidationPasses(c)
      PROVE  UNCHANGED <<InstalledGraph, InstalledVersion>>
  BY <1>5 DEF ApplyNext, ValidationPasses, MidCommit
<1>6. ASSUME NEW c \in Clients, CommitUnits(c)
      PROVE  Versions!Install
  <2>1. /\ ~MidCommit /\ MidCommit' /\ phase = "units"
        /\ UNCHANGED <<staging, version>>
    BY <1>6 DEF CommitUnits, MidCommit, holderVars
  <2>2. /\ InstalledGraph = graph /\ InstalledGraph' = staging
        /\ InstalledVersion' = InstalledVersion + 1
    BY <2>1
  <2>3. /\ Valid(staging) /\ graph.retired \subseteq staging.retired
        /\ staging.units \cap graph.retired = {}
    BY <2>1 DEF TransactionInv, CommitProgress, RetiredStayRetired, Phases
  <2> QED
    BY <2>2, <2>3 DEF Versions!Install
<1>7. ASSUME NEW c \in Clients, CommitEdges(c) \/ CommitMetadata(c)
      PROVE  UNCHANGED <<InstalledGraph, InstalledVersion>>
  BY <1>7 DEF CommitEdges, CommitMetadata, MidCommit, holderVars
<1>8. ASSUME NEW c \in Clients, CommitVersion(c)
      PROVE  UNCHANGED <<InstalledGraph, InstalledVersion>>
  <2>1. /\ phase = "version" /\ phase' = "idle" /\ version' = version + 1
        /\ UNCHANGED graph
    BY <1>8 DEF CommitVersion, Return
  <2> QED
    BY <2>1, CopyComplete DEF MidCommit
<1> QED
  BY <1>1, <1>2, <1>3, <1>4, <1>5, <1>6, <1>7, <1>8 DEF Next, HolderStep, CallEnds

\* The transaction manager, with any number of threads and any batches,
\* implements the versioned graph: whole valid versions, one after another,
\* and no retired identity ever returns.
THEOREM ManagerImplementsVersions == Spec => ImplementsVersions
<1>1. Init => Versions!Init
  BY DEF Init, Versions!Init, InstalledGraph, InstalledVersion, MidCommit
<1>2. TransactionInv /\ [Next]_vars => [Versions!Install]_<<InstalledGraph, InstalledVersion>>
  BY StepInstalls
<1> QED
  BY <1>1, <1>2, TransactionInvariance, PTL DEF Spec, ImplementsVersions, Versions!Spec

----------------------------------------------------------------------------
(* Folds *)

AmongStep(chosen, found, x) == IF x \in chosen THEN Append(found, x) ELSE found

\* RunBatch, Replay and Rollback step on nothing but what they fold over.
NoParameter == {}

ApplyStep(p, r, o) ==
  IF r.success /\ Applicable(o, r.graph)
  THEN [r EXCEPT !.graph = Effect(o, r.graph)] ELSE [r EXCEPT !.success = FALSE]

ReplayStep(p, r, batch) == IF r.success THEN RunBatch(r.graph, batch) ELSE r

UndoStep(p, r, i) ==
  IF r.raised \/ UndoRaises(i, r.graph)
  THEN [r EXCEPT !.raised = TRUE] ELSE [r EXCEPT !.graph = Undo(i, r.graph)]

Filters == INSTANCE FoldTheorems WITH Step <- AmongStep
Applying == INSTANCE FoldTheorems WITH Step <- ApplyStep
Replaying == INSTANCE FoldTheorems WITH Step <- ReplayStep
Undoing == INSTANCE FoldTheorems WITH Step <- UndoStep

\* The folds of the model are the folds the fold theorems are about.
LEMMA AmongIsRun == \A s, chosen : Among(s, chosen) = Filters!Run(chosen, <<>>, s)
BY DEF Among, AmongStep, FoldLeft, MapThenFoldSet, Max,
       Filters!Run, Filters!FoldLeft, Filters!MapThenFoldSet, Filters!Max

\* The operations of a batch, one after another (Applied).
LEMMA AppliedIsRun ==
  \A g, s : Applied(g, s) = Applying!Run(NoParameter, [success |-> TRUE, graph |-> g], s)
BY DEF Applied, ApplyStep, FoldLeft, MapThenFoldSet, Max,
       Applying!Run, Applying!FoldLeft, Applying!MapThenFoldSet, Applying!Max

\* The batches of a replay, one after another (Replay).
LEMMA ReplayIsRun ==
  \A g, s : Replay(g, s) = Replaying!Run(NoParameter, [success |-> TRUE, graph |-> g], s)
BY DEF Replay, ReplayStep, FoldLeft, MapThenFoldSet, Max,
       Replaying!Run, Replaying!FoldLeft, Replaying!MapThenFoldSet, Replaying!Max

\* The entries of an undo log, newest first (Rollback).
LEMMA RollbackIsRun ==
  \A g, s : Rollback(s, g) = Undoing!Run(NoParameter, [graph |-> g, raised |-> FALSE], s)
BY DEF Rollback, UndoStep, FoldLeft, MapThenFoldSet, Max,
       Undoing!Run, Undoing!FoldLeft, Undoing!MapThenFoldSet, Undoing!Max

\* A selection from a sequence is a sequence of the same things.
LEMMA AmongType ==
  ASSUME NEW S, NEW s \in Seq(S), NEW chosen
  PROVE  Among(s, chosen) \in Seq(S)
<1>1. \A k \in DOMAIN s : \A a \in Seq(S) : AmongStep(chosen, a, s[k]) \in Seq(S)
  BY DEF AmongStep
<1>2. <<>> \in Seq(S)
  OBVIOUS
<1> DEFINE A == Seq(S)
<1> HIDE DEF A
<1>3. Filters!Run(chosen, <<>>, s) \in A
  BY <1>1, <1>2, Filters!RunStays DEF A
<1> QED BY <1>3, AmongIsRun DEF A

\* The selection grows with the sequence.
LEMMA AmongAppend ==
  ASSUME NEW S, NEW s \in Seq(S), NEW chosen, NEW x
  PROVE  Among(Append(s, x), chosen)
           = IF x \in chosen THEN Append(Among(s, chosen), x) ELSE Among(s, chosen)
<1>1. Filters!Run(chosen, <<>>, Append(s, x)) = AmongStep(chosen, Filters!Run(chosen, <<>>, s), x)
  BY Filters!RunAppend
<1> QED BY <1>1, AmongIsRun DEF AmongStep

\* Only what the sequence holds of the chosen matters.
LEMMA AmongSame ==
  ASSUME NEW S, NEW s \in Seq(S), NEW chosen, NEW others,
         \A k \in DOMAIN s : s[k] \in chosen <=> s[k] \in others
  PROVE  Among(s, chosen) = Among(s, others)
<1>1. \A k \in DOMAIN s : \A a : AmongStep(chosen, a, s[k]) = AmongStep(others, a, s[k])
  BY DEF AmongStep
<1>2. Filters!Run(chosen, <<>>, s) = Filters!Run(others, <<>>, s)
  BY <1>1, Filters!RunAgree
<1> QED BY <1>2, AmongIsRun

\* Nothing is selected from nothing.
LEMMA AmongEmpty == \A chosen : Among(<<>>, chosen) = <<>>
BY AmongIsRun, Filters!RunEmpty

\* One operation more is applied to the result of those before it.
LEMMA AppliedAppend ==
  ASSUME NEW S, NEW s \in Seq(S), NEW g, NEW o
  PROVE  Applied(g, Append(s, o)) = ApplyStep(NoParameter, Applied(g, s), o)
<1> DEFINE b == [success |-> TRUE, graph |-> g]
<1> HIDE DEF b
<1>1. Applying!Run(NoParameter, b, Append(s, o))
        = ApplyStep(NoParameter, Applying!Run(NoParameter, b, s), o)
  BY Applying!RunAppend
<1> QED BY <1>1, AppliedIsRun DEF b

\* No operations change nothing.
LEMMA AppliedEmpty == \A g : Applied(g, <<>>) = [success |-> TRUE, graph |-> g]
BY AppliedIsRun, Applying!RunEmpty

\* One batch more is run on the result of those before it.
LEMMA ReplayAppend ==
  ASSUME NEW S, NEW s \in Seq(S), NEW g, NEW batch
  PROVE  Replay(g, Append(s, batch)) = ReplayStep(NoParameter, Replay(g, s), batch)
<1> DEFINE b == [success |-> TRUE, graph |-> g]
<1> HIDE DEF b
<1>1. Replaying!Run(NoParameter, b, Append(s, batch))
        = ReplayStep(NoParameter, Replaying!Run(NoParameter, b, s), batch)
  BY Replaying!RunAppend
<1> QED BY <1>1, ReplayIsRun DEF b

\* No batches replay to the first graph.
LEMMA ReplayEmpty == \A g : Replay(g, <<>>) = [success |-> TRUE, graph |-> g]
BY ReplayIsRun, Replaying!RunEmpty

\* The newest entry of the undo log is undone first.
LEMMA RollbackPrepend ==
  ASSUME NEW S, NEW s \in Seq(S), NEW i \in S, NEW g, ~UndoRaises(i, g)
  PROVE  Rollback(<<i>> \o s, g) = Rollback(s, Undo(i, g))
<1> DEFINE b == [graph |-> g, raised |-> FALSE]
<1>1. UndoStep(NoParameter, b, i) = [graph |-> Undo(i, g), raised |-> FALSE]
  BY DEF UndoStep
<1> HIDE DEF b
<1>2. Undoing!Run(NoParameter, b, <<i>> \o s)
        = Undoing!Run(NoParameter, UndoStep(NoParameter, b, i), s)
  BY Undoing!RunPrepend
<1> QED BY <1>1, <1>2, RollbackIsRun DEF b

\* There is nothing to undo in an empty undo log.
LEMMA RollbackEmpty == \A g : Rollback(<<>>, g) = [graph |-> g, raised |-> FALSE]
BY RollbackIsRun, Undoing!RunEmpty

----------------------------------------------------------------------------
(* Types *)

Inverses ==
  [inv : {"REMOVE_UNIT"}, unit : Units]
  \cup [inv : {"RESTORE_UNIT"}, unit : Units, edges : Seq(Edge)]
  \cup [inv : {"DISCONNECT_UNITS"}, pattern : Edge]
  \cup [inv : {"RESTORE_EDGES"}, edges : Seq(Edge)]
  \cup [inv : {"REWIRE_EDGE"}, old : Units \X Units, new : Units \X Units]

Result == [graph : Graph, raised : BOOLEAN]

\* What a graph is made of.
LEMMA GraphParts ==
  ASSUME NEW g \in Graph
  PROVE  /\ g.units \in SUBSET Units /\ g.edges \in Seq(Edge) /\ g.retired \in SUBSET Units
         /\ IsGraph(g)
BY DEF Graph, IsGraph

\* Redirecting an edge, or none, leaves edges.
LEMMA RedirectedType ==
  ASSUME NEW edges \in Seq(Edge), NEW i, NEW source \in Units, NEW target \in Units
  PROVE  Redirected(edges, i, source, target) \in Seq(Edge)
<1> DEFINE e == [edges[i] EXCEPT !.source = source, !.target = target]
<1>1. CASE i \in DOMAIN edges
  <2>1. edges[i] \in Edge
    BY <1>1, ElementOfSeq
  <2>2. e \in Edge
    BY <2>1 DEF Edge
  <2>3. Redirected(edges, i, source, target) = [edges EXCEPT ![i] = e]
    BY <1>1 DEF Redirected
  <2> HIDE DEF e
  <2> QED BY <1>1, <2>2, <2>3, ExceptSeq
<1>2. CASE i \notin DOMAIN edges
  <2>1. edges = [j \in DOMAIN edges |-> edges[j]]
    OBVIOUS
  <2>2. \A x : [edges EXCEPT ![i] = x] = edges
    BY <1>2, <2>1
  <2>3. Redirected(edges, i, source, target) = edges
    BY <2>2, Zenon DEF Redirected
  <2> QED BY <2>3
<1> QED BY <1>1, <1>2

\* Rewiring leaves a graph (rewire_edge).
LEMMA RewireType ==
  ASSUME NEW g \in Graph, NEW i, NEW source \in Units, NEW target \in Units
  PROVE  Rewire(g, i, source, target) \in Graph
<1>1. g.edges \in Seq(Edge)
  BY GraphParts
<1>2. Redirected(g.edges, i, source, target) \in Seq(Edge)
  BY <1>1, RedirectedType
<1> QED BY <1>2, GraphParts DEF Rewire, Graph

\* Disconnecting leaves a graph (remove_edge).
LEMMA RemoveEdgesType ==
  ASSUME NEW g \in Graph, NEW p
  PROVE  RemoveEdges(g, p) \in Graph
<1>1. g.edges \in Seq(Edge)
  BY GraphParts
<1>2. EdgesUnlike(g.edges, p) \in Seq(Edge)
  BY <1>1, AmongType DEF EdgesUnlike
<1> QED BY <1>2, GraphParts DEF RemoveEdges, Graph

\* Removing a unit and its edges leaves a graph (remove_unit).
LEMMA RemoveUnitType ==
  ASSUME NEW g \in Graph, NEW u
  PROVE  RemoveUnit(g, u) \in Graph
<1>1. g.edges \in Seq(Edge)
  BY GraphParts
<1>2. EdgesWithout(g.edges, u) \in Seq(Edge)
  BY <1>1, AmongType DEF EdgesWithout
<1> QED BY <1>2, GraphParts DEF RemoveUnit, Graph

\* Adding edges leaves a graph (add_edge).
LEMMA AddEdgesType ==
  ASSUME NEW g \in Graph, NEW es \in Seq(Edge)
  PROVE  AddEdges(g, es) \in Graph
<1>1. g.edges \o es \in Seq(Edge)
  BY GraphParts
<1> QED BY <1>1, GraphParts DEF AddEdges, Graph

\* Adding a unit leaves a graph (add_unit).
LEMMA AddUnitType ==
  ASSUME NEW g \in Graph, NEW u \in Units
  PROVE  AddUnit(g, u) \in Graph
BY GraphParts DEF AddUnit, Graph

\* An accepted operation leaves a graph (apply_operation).
LEMMA EffectType ==
  ASSUME NEW g \in Graph, NEW o \in Operations, Applicable(o, g)
  PROVE  Effect(o, g) \in Graph
<1>1. CASE o.op = "ADD_UNIT"
  <2>1. Effect(o, g) = AddUnit(g, o.unit)
    BY <1>1 DEF Effect
  <2> QED BY <1>1, <2>1, BatchAssumption, AddUnitType
<1>2. CASE o.op = "REMOVE_UNIT"
  <2>1. Effect(o, g) = [RemoveUnit(g, o.unit) EXCEPT !.retired = @ \cup {o.unit}]
    BY <1>2 DEF Effect
  <2>2. o.unit \in Units
    BY <1>2, GraphParts DEF Applicable
  <2>3. RemoveUnit(g, o.unit) \in Graph
    BY RemoveUnitType
  <2> QED BY <2>1, <2>2, <2>3 DEF Graph
<1>3. CASE o.op = "CONNECT_UNITS"
  <2>1. Effect(o, g) = AddEdges(g, <<o.edge>>)
    BY <1>3 DEF Effect
  <2>2. <<o.edge>> \in Seq(Edge)
    BY <1>3, BatchAssumption
  <2> QED BY <2>1, <2>2, AddEdgesType
<1>4. CASE o.op = "DISCONNECT_UNITS"
  <2>1. Effect(o, g) = RemoveEdges(g, o.pattern)
    BY <1>4 DEF Effect
  <2> QED BY <2>1, RemoveEdgesType
<1>5. CASE o.op = "REWIRE_EDGE"
  <2>1. Effect(o, g) = Rewire(g, FirstEdge(g, o.old[1], o.old[2]), o.new[1], o.new[2])
    BY <1>5 DEF Effect
  <2>2. o.new[1] \in Units /\ o.new[2] \in Units
    BY <1>5, BatchAssumption
  <2> QED BY <2>1, <2>2, RewireType
<1> QED BY <1>1, <1>2, <1>3, <1>4, <1>5 DEF Applicable

\* The inverse recorded for it is one the rollback knows.
LEMMA InverseType ==
  ASSUME NEW g \in Graph, NEW o \in Operations, Applicable(o, g)
  PROVE  InverseOf(o, g) \in Inverses
<1>0. g.edges \in Seq(Edge) /\ g.units \in SUBSET Units
  BY GraphParts
<1>1. CASE o.op = "ADD_UNIT"
  <2>1. InverseOf(o, g) = [inv |-> "REMOVE_UNIT", unit |-> o.unit]
    BY <1>1 DEF InverseOf
  <2> QED BY <1>1, <2>1, BatchAssumption DEF Inverses
<1>2. CASE o.op = "REMOVE_UNIT"
  <2> DEFINE es == Among(g.edges, {e \in ToSet(g.edges) : Incident(e, o.unit)})
  <2>1. InverseOf(o, g) = [inv |-> "RESTORE_UNIT", unit |-> o.unit, edges |-> es]
    BY <1>2 DEF InverseOf
  <2>2. es \in Seq(Edge)
    BY <1>0, AmongType
  <2>3. o.unit \in Units
    BY <1>0, <1>2 DEF Applicable
  <2> HIDE DEF es
  <2> QED BY <2>1, <2>2, <2>3 DEF Inverses
<1>3. CASE o.op = "CONNECT_UNITS"
  <2>1. InverseOf(o, g) = [inv |-> "DISCONNECT_UNITS", pattern |-> o.edge]
    BY <1>3 DEF InverseOf
  <2> QED BY <1>3, <2>1, BatchAssumption DEF Inverses
<1>4. CASE o.op = "DISCONNECT_UNITS"
  <2> DEFINE es == Among(g.edges, {e \in ToSet(g.edges) : Matches(e, o.pattern)})
  <2>1. InverseOf(o, g) = [inv |-> "RESTORE_EDGES", edges |-> es]
    BY <1>4 DEF InverseOf
  <2>2. es \in Seq(Edge)
    BY <1>0, AmongType
  <2> HIDE DEF es
  <2> QED BY <2>1, <2>2 DEF Inverses
<1>5. CASE o.op = "REWIRE_EDGE"
  <2>1. InverseOf(o, g) = [inv |-> "REWIRE_EDGE", old |-> o.new, new |-> o.old]
    BY <1>5 DEF InverseOf
  <2> QED BY <1>5, <2>1, BatchAssumption DEF Inverses
<1> QED BY <1>1, <1>2, <1>3, <1>4, <1>5 DEF Applicable

\* Undoing one entry leaves a graph.
LEMMA UndoType ==
  ASSUME NEW g \in Graph, NEW i \in Inverses
  PROVE  Undo(i, g) \in Graph
<1>1. CASE i \in [inv : {"REMOVE_UNIT"}, unit : Units]
  <2>1. Undo(i, g) = RemoveUnit(g, i.unit)
    BY <1>1 DEF Undo
  <2> QED BY <2>1, RemoveUnitType
<1>2. CASE i \in [inv : {"RESTORE_UNIT"}, unit : Units, edges : Seq(Edge)]
  <2>1. Undo(i, g) = AddEdges(AddUnit(g, i.unit), i.edges)
    BY <1>2 DEF Undo
  <2>2. AddUnit(g, i.unit) \in Graph /\ i.edges \in Seq(Edge)
    BY <1>2, AddUnitType
  <2> QED BY <2>1, <2>2, AddEdgesType
<1>3. CASE i \in [inv : {"DISCONNECT_UNITS"}, pattern : Edge]
  <2>1. Undo(i, g) = RemoveEdges(g, i.pattern)
    BY <1>3 DEF Undo
  <2> QED BY <2>1, RemoveEdgesType
<1>4. CASE i \in [inv : {"RESTORE_EDGES"}, edges : Seq(Edge)]
  <2>1. Undo(i, g) = AddEdges(g, i.edges) /\ i.edges \in Seq(Edge)
    BY <1>4 DEF Undo
  <2> QED BY <2>1, AddEdgesType
<1>5. CASE i \in [inv : {"REWIRE_EDGE"}, old : Units \X Units, new : Units \X Units]
  <2> DEFINE k == FirstEdge(g, i.old[1], i.old[2])
  <2>1. Undo(i, g) = IF k = 0 THEN g ELSE Rewire(g, k, i.new[1], i.new[2])
    BY <1>5 DEF Undo
  <2>2. i.new[1] \in Units /\ i.new[2] \in Units
    BY <1>5
  <2> HIDE DEF k
  <2> QED BY <2>1, <2>2, RewireType
<1> QED BY <1>1, <1>2, <1>3, <1>4, <1>5 DEF Inverses

\* A rollback leaves a graph, whether it raises or not.
LEMMA RollbackType ==
  ASSUME NEW g \in Graph, NEW s \in Seq(Inverses)
  PROVE  Rollback(s, g) \in Result
<1>1. ASSUME NEW k \in DOMAIN s, NEW r \in Result PROVE UndoStep(NoParameter, r, s[k]) \in Result
  <2>1. s[k] \in Inverses
    BY ElementOfSeq
  <2>2. r.graph \in Graph /\ r = [graph |-> r.graph, raised |-> r.raised]
    BY DEF Result
  <2>3. Undo(s[k], r.graph) \in Graph
    BY <2>1, <2>2, UndoType
  <2> QED BY <2>2, <2>3 DEF UndoStep, Result
<1> DEFINE b == [graph |-> g, raised |-> FALSE]
<1>2. b \in Result
  BY DEF Result
<1> HIDE DEF b
<1>3. Undoing!Run(NoParameter, b, s) \in Result
  BY <1>1, <1>2, Undoing!RunStays
<1> QED BY <1>3, RollbackIsRun DEF b

EventTypes == {"BEGIN", "MUTATION_APPLIED", "COMMITTED", "VERSION_CREATED", "ROLLED_BACK"}

Events == [type : EventTypes, tx : Nat, cause : Nat \cup {NoCause}, op : Operations \cup {NoOp}]

\* The type invariant, with the types of the logs.
TypedInv ==
  /\ TypeOK
  /\ undo \in Seq(Inverses)
  /\ cause \in Nat \cup {NoCause}
  /\ log \in Seq(Events)
  /\ committed \in Seq(Seq(Operations))

\* A plan's batch is a sequence of operations.
LEMMA BatchType ==
  ASSUME TypeOK, NEW c \in Clients
  PROVE  /\ plan[c].batch \in Seq(Operations)
         /\ plan[c].seen \in Graph
<1>1. plan[c].batch \in Batches \cup {<<>>} /\ plan[c].seen \in Graph
  BY DEF TypeOK
<1>2. <<>> \in Seq(Operations)
  OBVIOUS
<1> QED BY <1>1, <1>2, BatchAssumption

\* A client that has not planned has a plan of the right type.
LEMMA NoPlanType ==
  NoPlan \in [waiting : BOOLEAN, batch : Batches \cup {<<>>},
              base : Nat \cup {NoBase}, seen : Graph]
<1>1. EmptyGraph \in Graph
  BY DEF EmptyGraph, Graph
<1> QED BY <1>1 DEF NoPlan

\* The manager starts well typed, with empty logs.
LEMMA TypedInit == Init => TypedInv
<1> SUFFICES ASSUME Init PROVE TypedInv
  OBVIOUS
<1>1. graph \in Graph
  BY InitialAssumption DEF Init
<1>2. plan \in [Clients -> [waiting : BOOLEAN, batch : Batches \cup {<<>>},
                            base : Nat \cup {NoBase}, seen : Graph]]
  BY NoPlanType DEF Init
<1> QED BY <1>1, <1>2 DEF Init, TypedInv, TypeOK, Phases, States

\* A plan.
LEMMA PlanTyped ==
  ASSUME TypedInv, NEW c \in Clients, NEW batch \in Batches, NEW base, Plan(c, batch, base)
  PROVE  TypedInv'
<1> DEFINE Plans == [waiting : BOOLEAN, batch : Batches \cup {<<>>}, base : Nat \cup {NoBase},
                     seen : Graph]
           new == [waiting |-> TRUE, batch |-> batch, base |-> base, seen |-> graph]
<1>1. new \in Plans
  BY DEF Plan, TypedInv, TypeOK
<1>2. plan' = [plan EXCEPT ![c] = new] /\ plan \in [Clients -> Plans]
  BY DEF Plan, TypedInv, TypeOK
<1>3. new.waiting = TRUE
  OBVIOUS
<1> HIDE DEF Plans, new
<1>4. plan' \in [Clients -> Plans]
  BY <1>1, <1>2
<1>5. lock # NoClient => plan'[lock].waiting
  <2>1. lock # NoClient => lock \in Clients /\ plan[lock].waiting
    BY DEF TypedInv, TypeOK
  <2> QED BY <1>2, <1>3, <2>1
<1>6. outcome' \in [Clients -> States]
  BY DEF Plan, TypedInv, TypeOK, States
<1>7. UNCHANGED <<graph, version, lock, phase, staging, undo, applied, cause,
                  log, calls, committed>>
  BY DEF Plan, holderVars, history
<1> QED BY <1>4, <1>5, <1>6, <1>7 DEF TypedInv, TypeOK, Plans

\* What a return does to the types of the variables it assigns.
LEMMA ReturnTyped ==
  ASSUME TypedInv, NEW c \in Clients, NEW state \in States, Return(c, state)
  PROVE  /\ lock' = NoClient /\ phase' = "idle"
         /\ plan' \in [Clients -> [waiting : BOOLEAN, batch : Batches \cup {<<>>},
                                   base : Nat \cup {NoBase}, seen : Graph]]
         /\ outcome' \in [Clients -> States]
<1>1. plan' = [plan EXCEPT ![c] = NoPlan] /\ outcome' = [outcome EXCEPT ![c] = state]
      /\ lock' = NoClient /\ phase' = "idle"
  BY DEF Return
<1> QED BY <1>1, NoPlanType DEF TypedInv, TypeOK

\* A transaction begins.
LEMMA BeginTyped ==
  ASSUME TypedInv, NEW c \in Clients, BeginStaged(c)
  PROVE  TypedInv'
<1> DEFINE e == Event("BEGIN", calls + 1, NoCause, NoOp)
<1>0. calls \in Nat /\ cause \in Nat \cup {NoCause}
  BY DEF TypedInv, TypeOK
<1>1. e \in Events
  BY <1>0 DEF Event, Events, EventTypes
<1> HIDE DEF e
<1>2. log' = Append(log, e) /\ cause' = Len(log) + 1
  BY DEF BeginStaged, e
<1>3. log' \in Seq(Events) /\ cause' \in Nat
  BY <1>1, <1>2 DEF TypedInv
<1>4. undo' \in Seq(Inverses)
  BY DEF BeginStaged
<1> QED BY <1>3, <1>4, NoClientAssumption DEF BeginStaged, history, TypedInv, TypeOK, Phases

\* A call fails before anything is staged.
LEMMA FailTyped ==
  ASSUME TypedInv, NEW c \in Clients, FailAtBegin(c)
  PROVE  TypedInv'
<1> DEFINE e == Event("BEGIN", calls + 1, NoCause, NoOp)
           f == Event("ROLLED_BACK", calls + 1, Len(log) + 1, NoOp)
<1>0. calls \in Nat /\ Len(log) + 1 \in Nat /\ cause \in Nat \cup {NoCause}
  BY DEF TypedInv, TypeOK
<1>1. e \in Events /\ f \in Events
  BY <1>0 DEF Event, Events, EventTypes
<1> HIDE DEF e, f
<1>2. log' = log \o <<e, f>> /\ Return(c, "FAILED") /\ calls' = calls + 1
      /\ UNCHANGED <<graph, version, staging, undo, applied, cause, committed>>
  BY DEF FailAtBegin, holderVars, history, e, f
<1>3. log' \in Seq(Events)
  BY <1>1, <1>2 DEF TypedInv
<1>4. "FAILED" \in States
  BY DEF States
<1> QED BY <1>2, <1>3, <1>4, ReturnTyped DEF TypedInv, TypeOK, Phases

\* A transaction is rolled back.
LEMMA AbortTyped ==
  ASSUME TypedInv, NEW c \in Clients, Abort(c)
  PROVE  TypedInv'
<1> DEFINE r == Rollback(undo, staging)
           e == Event("ROLLED_BACK", calls, cause, NoOp)
           state == IF r.raised THEN "FAILED" ELSE "ROLLED_BACK"
<1>0. calls \in Nat /\ cause \in Nat \cup {NoCause}
  BY DEF TypedInv, TypeOK
<1>1. e \in Events
  BY <1>0 DEF Event, Events, EventTypes
<1>2. r \in Result
  BY RollbackType DEF TypedInv, TypeOK
<1> HIDE DEF e, r
<1>3. staging' = r.graph /\ undo' = <<>> /\ log' = Append(log, e) /\ Return(c, state)
      /\ UNCHANGED <<graph, version, applied, cause, calls, committed>>
  BY DEF Abort, history, e, r
<1>4. state \in States
  BY DEF States
<1> HIDE DEF state
<1>5. log' \in Seq(Events) /\ undo' \in Seq(Inverses)
  BY <1>1, <1>3 DEF TypedInv
<1>6. staging' \in Graph
  BY <1>2, <1>3 DEF Result
<1> QED BY <1>3, <1>4, <1>5, <1>6, ReturnTyped DEF TypedInv, TypeOK, Phases

\* The operation the holder is at.
LEMMA NextOpType ==
  ASSUME TypedInv, NEW c \in Clients, applied < Len(plan[c].batch)
  PROVE  /\ applied + 1 \in 1 .. Len(plan[c].batch)
         /\ NextOp(c) \in Operations
<1>1. plan[c].batch \in Seq(Operations) /\ applied \in Nat
  BY BatchType DEF TypedInv, TypeOK
<1>2. applied + 1 \in 1 .. Len(plan[c].batch)
  BY <1>1
<1> QED BY <1>1, <1>2, ElementOfSeq DEF NextOp

\* An operation is applied, logged and made undoable.
LEMMA ApplyTyped ==
  ASSUME TypedInv, NEW c \in Clients, ApplyNext(c)
  PROVE  TypedInv'
<1> DEFINE e == Event("MUTATION_APPLIED", calls, cause, NextOp(c))
           i == InverseOf(NextOp(c), staging)
<1>1. NextOp(c) \in Operations /\ Applicable(NextOp(c), staging) /\ staging \in Graph
  BY NextOpType DEF ApplyNext, TypedInv, TypeOK
<1>0. calls \in Nat /\ cause \in Nat \cup {NoCause}
  BY DEF TypedInv, TypeOK
<1>2. e \in Events
  BY <1>0, <1>1 DEF Event, Events, EventTypes
<1>3. i \in Inverses
  BY <1>1, InverseType
<1>4. Effect(NextOp(c), staging) \in Graph
  BY <1>1, EffectType
<1> HIDE DEF e, i
<1>5. staging' = Effect(NextOp(c), staging) /\ undo' = <<i>> \o undo /\ applied' = applied + 1
      /\ log' = Append(log, e) /\ cause' = Len(log) + 1
      /\ UNCHANGED <<graph, version, lock, plan, phase, calls, outcome, committed>>
  BY DEF ApplyNext, history, e, i
<1>6. log' \in Seq(Events) /\ undo' \in Seq(Inverses) /\ cause' \in Nat
  BY <1>2, <1>3, <1>5 DEF TypedInv
<1> QED BY <1>4, <1>5, <1>6 DEF TypedInv, TypeOK

\* A commit ends.
LEMMA CommitVersionTyped ==
  ASSUME TypedInv, NEW c \in Clients, CommitVersion(c)
  PROVE  TypedInv'
<1> DEFINE e == Event("COMMITTED", calls, cause, NoOp)
           f == Event("VERSION_CREATED", calls, Len(log) + 1, NoOp)
<1>0. calls \in Nat /\ Len(log) + 1 \in Nat /\ cause \in Nat \cup {NoCause}
  BY DEF TypedInv, TypeOK
<1>1. e \in Events /\ f \in Events
  BY <1>0 DEF Event, Events, EventTypes
<1> HIDE DEF e, f
<1>2. log' = log \o <<e, f>> /\ Return(c, "COMMITTED") /\ version' = version + 1
      /\ committed' = Append(committed, plan[c].batch)
      /\ UNCHANGED <<graph, staging, undo, applied, cause, calls>>
  BY DEF CommitVersion, holderVars, e, f
<1>3. log' \in Seq(Events)
  BY <1>1, <1>2 DEF TypedInv
<1>4. committed' \in Seq(Seq(Operations))
  BY <1>2, BatchType DEF TypedInv
<1>5. "COMMITTED" \in States
  BY DEF States
<1> QED BY <1>2, <1>3, <1>4, <1>5, ReturnTyped DEF TypedInv, TypeOK, Phases

\* The steps of a commit that copy a part of the graph, and the validation.
LEMMA PhaseTyped ==
  ASSUME TypedInv, NEW c \in Clients,
         ValidationPasses(c) \/ CommitUnits(c) \/ CommitEdges(c) \/ CommitMetadata(c)
  PROVE  TypedInv'
<1>1. /\ lock = c /\ phase' \in Phases /\ phase' # "idle"
      /\ UNCHANGED <<version, lock, plan, staging, undo, applied, cause, log, calls,
                     outcome, committed>>
  BY DEF ValidationPasses, CommitUnits, CommitEdges, CommitMetadata, Phases, holderVars, history
<1>2. graph' \in Graph
  <2>1. graph \in Graph /\ staging \in Graph
    BY DEF TypedInv, TypeOK
  <2> QED BY <2>1 DEF ValidationPasses, CommitUnits, CommitEdges, CommitMetadata, Graph
<1> QED BY <1>1, <1>2, NoClientAssumption DEF TypedInv, TypeOK

\* Every step keeps the types.
LEMMA TypedStep == TypedInv /\ [Next]_vars => TypedInv'
<1> SUFFICES ASSUME TypedInv, [Next]_vars PROVE TypedInv'
  OBVIOUS
<1>1. CASE UNCHANGED vars
  BY <1>1 DEF vars, TypedInv, TypeOK
<1>2. ASSUME NEW c \in Clients, NEW batch \in Batches, NEW base, Plan(c, batch, base)
      PROVE  TypedInv'
  BY <1>2, PlanTyped
<1>3. ASSUME NEW c \in Clients, BeginStaged(c) PROVE TypedInv'
  BY <1>3, BeginTyped
<1>4. ASSUME NEW c \in Clients, VersionConflict(c) \/ StagingFails(c) PROVE TypedInv'
  BY <1>4, FailTyped DEF VersionConflict, StagingFails
<1>5. ASSUME NEW c \in Clients, ApplyFails(c) \/ ValidationFails(c) PROVE TypedInv'
  BY <1>5, AbortTyped DEF ApplyFails, ValidationFails
<1>6. ASSUME NEW c \in Clients, ApplyNext(c) PROVE TypedInv'
  BY <1>6, ApplyTyped
<1>7. ASSUME NEW c \in Clients,
             ValidationPasses(c) \/ CommitUnits(c) \/ CommitEdges(c) \/ CommitMetadata(c)
      PROVE  TypedInv'
  BY <1>7, PhaseTyped
<1>8. ASSUME NEW c \in Clients, CommitVersion(c) PROVE TypedInv'
  BY <1>8, CommitVersionTyped
<1> QED
  BY <1>1, <1>2, <1>3, <1>4, <1>5, <1>6, <1>7, <1>8 DEF Next, HolderStep

----------------------------------------------------------------------------
(* The log *)

MutationsOf(txs) == {x \in Events : x.type = "MUTATION_APPLIED" /\ x.tx \in txs}

VersionEvents == {x \in Events : x.type = "VERSION_CREATED"}

OpsIn(l, txs) ==
  LET ops == Among(l, MutationsOf(txs)) IN [i \in DOMAIN ops |-> ops[i].op]

DoneIn(l) == {l[i].tx : i \in {j \in DOMAIN l : l[j].type = "COMMITTED"}}

ChainedAt(l, i) ==
  LET earlier == {j \in 1 .. i - 1 : l[j].tx = l[i].tx}
  IN  IF l[i].type = "BEGIN"
      THEN earlier = {} /\ l[i].cause = NoCause
      ELSE earlier # {} /\ l[i].cause = Max(earlier)

\* A log of transactions 1 .. n that made v versions out of the operations ops.
LogOK(l, n, v, ops) ==
  /\ l \in Seq(Events)
  /\ \A i \in DOMAIN l : l[i].tx \in 1 .. n
  /\ \A i \in DOMAIN l : ChainedAt(l, i)
  /\ OpsIn(l, DoneIn(l)) = ops
  /\ Len(Among(l, VersionEvents)) = v

\* Its last transaction is open, and would make it a log of the operations ops.
OpenOK(l, n, ref, ops) ==
  /\ n \notin DoneIn(l)
  /\ l # <<>> /\ ref = Len(l) /\ l[ref].tx = n
  /\ OpsIn(l, DoneIn(l) \cup {n}) = ops

\* The selections of the model are selections of events.
LEMMA SelectionIs ==
  ASSUME NEW l \in Seq(Events)
  PROVE  /\ \A txs : Among(l, {e \in ToSet(l) : e.type = "MUTATION_APPLIED" /\ e.tx \in txs})
                       = Among(l, MutationsOf(txs))
         /\ Among(l, {e \in ToSet(l) : e.type = "VERSION_CREATED"}) = Among(l, VersionEvents)
<1>1. \A k \in DOMAIN l : l[k] \in Events /\ l[k] \in ToSet(l)
  BY ElementOfSeq DEF ToSet
<1>2. ASSUME NEW txs
      PROVE  Among(l, {e \in ToSet(l) : e.type = "MUTATION_APPLIED" /\ e.tx \in txs})
               = Among(l, MutationsOf(txs))
  <2> DEFINE mine == {e \in ToSet(l) : e.type = "MUTATION_APPLIED" /\ e.tx \in txs}
  <2>1. \A k \in DOMAIN l : l[k] \in mine <=> l[k] \in MutationsOf(txs)
    BY <1>1 DEF MutationsOf
  <2> HIDE DEF mine
  <2>2. Among(l, mine) = Among(l, MutationsOf(txs))
    BY <2>1, AmongSame
  <2> QED BY <2>2 DEF mine
<1>3. Among(l, {e \in ToSet(l) : e.type = "VERSION_CREATED"}) = Among(l, VersionEvents)
  <2> DEFINE mine == {e \in ToSet(l) : e.type = "VERSION_CREATED"}
  <2>1. \A k \in DOMAIN l : l[k] \in mine <=> l[k] \in VersionEvents
    BY <1>1 DEF VersionEvents
  <2> HIDE DEF mine
  <2>2. Among(l, mine) = Among(l, VersionEvents)
    BY <2>1, AmongSame
  <2> QED BY <2>2 DEF mine
<1> QED BY <1>2, <1>3

\* The operations of some transactions are operations.
LEMMA OpsType ==
  ASSUME NEW l \in Seq(Events), NEW txs
  PROVE  OpsIn(l, txs) \in Seq(Operations \cup {NoOp})
<1> DEFINE ops == Among(l, MutationsOf(txs))
<1>1. ops \in Seq(Events)
  BY AmongType
<1> HIDE DEF ops
<1>2. \A k \in DOMAIN ops : ops[k].op \in Operations \cup {NoOp}
  <2>1. \A k \in DOMAIN ops : ops[k] \in Events
    BY <1>1, ElementOfSeq
  <2> QED BY <2>1 DEF Events
<1>3. Len(ops) \in Nat /\ DOMAIN ops = 1 .. Len(ops)
  BY <1>1
<1>4. [i \in DOMAIN ops |-> ops[i].op] \in Seq(Operations \cup {NoOp})
  BY <1>2, <1>3, IsASeq
<1> QED BY <1>4 DEF OpsIn, ops

\* An event adds its operation to those of its transaction.
LEMMA OpsAppend ==
  ASSUME NEW l \in Seq(Events), NEW e \in Events, NEW txs
  PROVE  OpsIn(Append(l, e), txs)
           = IF e.type = "MUTATION_APPLIED" /\ e.tx \in txs
             THEN Append(OpsIn(l, txs), e.op) ELSE OpsIn(l, txs)
<1> DEFINE ops == Among(l, MutationsOf(txs))
           more == Among(Append(l, e), MutationsOf(txs))
<1>1. more = IF e \in MutationsOf(txs) THEN Append(ops, e) ELSE ops
  BY AmongAppend
<1>2. ops \in Seq(Events)
  BY AmongType
<1>3. e \in MutationsOf(txs) <=> e.type = "MUTATION_APPLIED" /\ e.tx \in txs
  BY DEF MutationsOf
<1> HIDE DEF ops, more
<1>4. CASE e \notin MutationsOf(txs)
  BY <1>1, <1>3, <1>4 DEF OpsIn, ops, more
<1>5. CASE e \in MutationsOf(txs)
  <2> DEFINE s == [i \in DOMAIN ops |-> ops[i].op]
             t == [i \in DOMAIN more |-> more[i].op]
  <2>1. more = Append(ops, e)
    BY <1>1, <1>5
  <2>2. Len(ops) \in Nat /\ DOMAIN ops = 1 .. Len(ops) /\ DOMAIN more = 1 .. Len(ops) + 1
        /\ more[Len(ops) + 1] = e /\ \A i \in 1 .. Len(ops) : more[i] = ops[i]
    BY <1>2, <2>1
  <2>3. s \in Seq(Operations \cup {NoOp}) /\ Len(s) = Len(ops)
    <3>1. s \in Seq(Operations \cup {NoOp})
      BY OpsType DEF OpsIn, ops
    <3>2. DOMAIN s = 1 .. Len(ops)
      BY <2>2
    <3> HIDE DEF s
    <3> QED BY <2>2, <3>1, <3>2
  <2>4. t = Append(s, e.op)
    BY <2>2, <2>3
  <2> HIDE DEF s, t
  <2>5. OpsIn(Append(l, e), txs) = t /\ OpsIn(l, txs) = s
    BY DEF OpsIn, ops, more, s, t
  <2> QED BY <1>3, <1>5, <2>4, <2>5
<1> QED BY <1>4, <1>5

\* Transactions without operations do not matter.
LEMMA OpsSame ==
  ASSUME NEW l \in Seq(Events), NEW txs, NEW others,
         \A k \in DOMAIN l : l[k].type = "MUTATION_APPLIED"
                               => (l[k].tx \in txs <=> l[k].tx \in others)
  PROVE  OpsIn(l, txs) = OpsIn(l, others)
<1>1. \A k \in DOMAIN l : l[k] \in MutationsOf(txs) <=> l[k] \in MutationsOf(others)
  BY DEF MutationsOf
<1>2. Among(l, MutationsOf(txs)) = Among(l, MutationsOf(others))
  BY <1>1, AmongSame
<1> QED BY <1>2 DEF OpsIn

\* COMMITTED makes its transaction one of those that are done.
LEMMA DoneAppend ==
  ASSUME NEW l \in Seq(Events), NEW e
  PROVE  DoneIn(Append(l, e)) = DoneIn(l) \cup (IF e.type = "COMMITTED" THEN {e.tx} ELSE {})
<1> DEFINE more == Append(l, e)
<1>1. /\ Len(l) \in Nat /\ DOMAIN l = 1 .. Len(l) /\ DOMAIN more = 1 .. Len(l) + 1
      /\ more[Len(l) + 1] = e /\ \A i \in 1 .. Len(l) : more[i] = l[i]
  OBVIOUS
<1> HIDE DEF more
<1> QED BY <1>1 DEF DoneIn, more

\* Appending an event that is chained to the log.
LEMMA ChainsAppend ==
  ASSUME NEW l \in Seq(Events), NEW e, \A i \in DOMAIN l : ChainedAt(l, i),
         \/ e.type = "BEGIN" /\ e.cause = NoCause /\ \A i \in DOMAIN l : l[i].tx # e.tx
         \/ e.type # "BEGIN" /\ l # <<>> /\ e.cause = Len(l) /\ l[Len(l)].tx = e.tx
  PROVE  \A i \in DOMAIN Append(l, e) : ChainedAt(Append(l, e), i)
<1> DEFINE more == Append(l, e)
           n == Len(l)
<1>1. /\ n \in Nat /\ DOMAIN l = 1 .. n /\ DOMAIN more = 1 .. n + 1
      /\ more[n + 1] = e /\ \A i \in 1 .. n : more[i] = l[i]
      /\ l # <<>> => n # 0
  OBVIOUS
<1> HIDE DEF more, n
<1>2. ASSUME NEW i \in 1 .. n PROVE ChainedAt(more, i)
  <2>1. {j \in 1 .. i - 1 : more[j].tx = more[i].tx} = {j \in 1 .. i - 1 : l[j].tx = l[i].tx}
    BY <1>1
  <2>2. more[i] = l[i] /\ ChainedAt(l, i)
    BY <1>1
  <2> QED BY <2>1, <2>2 DEF ChainedAt
<1>3. ChainedAt(more, n + 1)
  <2> DEFINE earlier == {j \in 1 .. n : more[j].tx = e.tx}
  <2>1. (n + 1) - 1 = n
    BY <1>1
  <2>2. CASE e.type = "BEGIN"
    <3>1. earlier = {}
      BY <1>1, <2>2
    <3> QED BY <1>1, <2>1, <2>2, <3>1 DEF ChainedAt
  <2>3. CASE e.type # "BEGIN"
    <3>1. n \in earlier /\ e.cause = n
      BY <1>1, <2>3 DEF n
    <3>2. \A j \in earlier : (\A k \in earlier : j >= k) => j = n
      BY <1>1, <3>1
    <3>3. \A k \in earlier : n >= k
      BY <1>1
    <3> HIDE DEF earlier
    <3>4. Max(earlier) = n
      BY <3>1, <3>2, <3>3 DEF Max
    <3>5. earlier # {} /\ e.cause = Max(earlier)
      BY <3>1, <3>4
    <3> QED BY <1>1, <2>1, <2>3, <3>5 DEF ChainedAt, earlier
  <2> QED BY <2>2, <2>3
<1> QED BY <1>1, <1>2, <1>3 DEF more

\* VERSION_CREATED makes one version more.
LEMMA VersionsAppend ==
  ASSUME NEW l \in Seq(Events), NEW e \in Events
  PROVE  Len(Among(Append(l, e), VersionEvents))
           = Len(Among(l, VersionEvents)) + (IF e.type = "VERSION_CREATED" THEN 1 ELSE 0)
<1>1. Among(Append(l, e), VersionEvents)
        = IF e \in VersionEvents THEN Append(Among(l, VersionEvents), e)
                                  ELSE Among(l, VersionEvents)
  BY AmongAppend
<1>2. Among(l, VersionEvents) \in Seq(Events)
  BY AmongType
<1>3. e \in VersionEvents <=> e.type = "VERSION_CREATED"
  BY DEF VersionEvents
<1> DEFINE s == Among(l, VersionEvents)
<1> HIDE DEF s
<1>4. Len(Append(s, e)) = Len(s) + 1 /\ Len(s) + 0 = Len(s)
  BY <1>2 DEF s
<1> QED BY <1>1, <1>3, <1>4 DEF s

\* BEGIN opens the next transaction.
LEMMA BeginLogged ==
  ASSUME NEW l, NEW n \in Nat, NEW v, NEW ops, LogOK(l, n, v, ops), NEW e \in Events,
         e.type = "BEGIN", e.tx = n + 1, e.cause = NoCause
  PROVE  LogOK(Append(l, e), n + 1, v, ops) /\ OpenOK(Append(l, e), n + 1, Len(l) + 1, ops)
<1> DEFINE more == Append(l, e)
<1>0. l \in Seq(Events) /\ \A i \in DOMAIN l : l[i].tx \in 1 .. n
  BY DEF LogOK
<1>1. /\ Len(l) \in Nat /\ DOMAIN l = 1 .. Len(l) /\ DOMAIN more = 1 .. Len(l) + 1
      /\ more[Len(l) + 1] = e /\ \A i \in 1 .. Len(l) : more[i] = l[i]
      /\ Len(more) = Len(l) + 1 /\ more # <<>> /\ more \in Seq(Events)
  BY <1>0, AppendProperties
<1>2. \A i \in DOMAIN l : l[i].tx # e.tx
  BY <1>0
<1>3. \A i \in DOMAIN more : ChainedAt(more, i)
  BY <1>0, <1>2, ChainsAppend DEF LogOK
<1>4. DoneIn(more) = DoneIn(l)
  BY <1>0, DoneAppend
<1>5. \A txs : OpsIn(more, txs) = OpsIn(l, txs)
  BY <1>0, OpsAppend
<1>6. n + 1 \notin DoneIn(l)
  BY <1>0 DEF DoneIn
<1>7. OpsIn(l, DoneIn(l) \cup {n + 1}) = OpsIn(l, DoneIn(l))
  <2>1. \A k \in DOMAIN l : l[k].tx \in DoneIn(l) \cup {n + 1} <=> l[k].tx \in DoneIn(l)
    BY <1>0
  <2> QED BY <1>0, <2>1, OpsSame
<1>8. Len(Among(more, VersionEvents)) = v
  <2>1. Len(Among(l, VersionEvents)) = v /\ v + 0 = v
    <3>1. Among(l, VersionEvents) \in Seq(Events)
      BY <1>0, AmongType
    <3> QED BY <3>1 DEF LogOK
  <2> QED BY <1>0, <2>1, VersionsAppend
<1>9. \A i \in DOMAIN more : more[i].tx \in 1 .. n + 1
  BY <1>0, <1>1
<1> HIDE DEF more
<1>10. LogOK(more, n + 1, v, ops)
  BY <1>1, <1>3, <1>4, <1>5, <1>8, <1>9 DEF LogOK
<1>11. OpenOK(more, n + 1, Len(l) + 1, ops)
  BY <1>1, <1>4, <1>5, <1>6, <1>7 DEF LogOK, OpenOK
<1> QED BY <1>10, <1>11 DEF more

\* Any other event of the open transaction continues its chain.
LEMMA EventLogged ==
  ASSUME NEW l, NEW n \in Nat, NEW v, NEW ops, NEW ref, NEW now, LogOK(l, n, v, ops),
         OpenOK(l, n, ref, now), NEW e \in Events,
         e.type \in {"MUTATION_APPLIED", "ROLLED_BACK"}, e.tx = n, e.cause = ref
  PROVE  /\ LogOK(Append(l, e), n, v, ops)
         /\ e.type = "MUTATION_APPLIED" =>
              OpenOK(Append(l, e), n, Len(l) + 1, Append(now, e.op))
<1> DEFINE more == Append(l, e)
<1>0. l \in Seq(Events) /\ \A i \in DOMAIN l : l[i].tx \in 1 .. n
  BY DEF LogOK
<1>1. /\ Len(l) \in Nat /\ DOMAIN l = 1 .. Len(l) /\ DOMAIN more = 1 .. Len(l) + 1
      /\ more[Len(l) + 1] = e /\ \A i \in 1 .. Len(l) : more[i] = l[i]
      /\ Len(more) = Len(l) + 1 /\ more # <<>> /\ more \in Seq(Events)
  BY <1>0, AppendProperties
<1>2. l # <<>> /\ e.cause = Len(l) /\ l[Len(l)].tx = e.tx /\ n \notin DoneIn(l)
  BY DEF OpenOK
<1>3. \A i \in DOMAIN more : ChainedAt(more, i)
  BY <1>0, <1>2, ChainsAppend DEF LogOK
<1>4. DoneIn(more) = DoneIn(l)
  BY <1>0, DoneAppend
<1>5. \A txs : OpsIn(more, txs) = IF e.type = "MUTATION_APPLIED" /\ n \in txs
                                  THEN Append(OpsIn(l, txs), e.op) ELSE OpsIn(l, txs)
  BY <1>0, OpsAppend
<1>6. Len(Among(more, VersionEvents)) = v
  <2>1. Len(Among(l, VersionEvents)) = v /\ v + 0 = v
    <3>1. Among(l, VersionEvents) \in Seq(Events)
      BY <1>0, AmongType
    <3> QED BY <3>1 DEF LogOK
  <2> QED BY <1>0, <2>1, VersionsAppend
<1>7. n \in 1 .. n
  <2>1. Len(l) \in DOMAIN l
    BY <1>0, <1>2
  <2> QED BY <1>0, <1>2, <2>1
<1>8. \A i \in DOMAIN more : more[i].tx \in 1 .. n
  BY <1>0, <1>1, <1>7
<1> HIDE DEF more
<1>9. LogOK(more, n, v, ops)
  BY <1>1, <1>2, <1>3, <1>4, <1>5, <1>6, <1>8 DEF LogOK
<1>10. ASSUME e.type = "MUTATION_APPLIED"
       PROVE  OpenOK(more, n, Len(l) + 1, Append(now, e.op))
  BY <1>1, <1>2, <1>4, <1>5, <1>10 DEF OpenOK
<1> QED BY <1>9, <1>10 DEF more

\* COMMITTED and VERSION_CREATED make the open transaction part of the history.
LEMMA CommitLogged ==
  ASSUME NEW l, NEW n \in Nat, NEW v, NEW ops, NEW ref, NEW now, LogOK(l, n, v, ops),
         OpenOK(l, n, ref, now), NEW e \in Events, NEW f \in Events,
         e.type = "COMMITTED", e.tx = n, e.cause = ref,
         f.type = "VERSION_CREATED", f.tx = n, f.cause = Len(l) + 1
  PROVE  LogOK(Append(Append(l, e), f), n, v + 1, now)
<1> DEFINE mid == Append(l, e)
           more == Append(mid, f)
<1>0. l \in Seq(Events) /\ \A i \in DOMAIN l : l[i].tx \in 1 .. n
  BY DEF LogOK
<1>1. /\ Len(l) \in Nat /\ DOMAIN l = 1 .. Len(l) /\ DOMAIN mid = 1 .. Len(l) + 1
      /\ mid[Len(l) + 1] = e /\ \A i \in 1 .. Len(l) : mid[i] = l[i]
      /\ Len(mid) = Len(l) + 1 /\ mid # <<>> /\ mid \in Seq(Events)
  BY <1>0, AppendProperties
<1> HIDE DEF mid
<1>2. /\ DOMAIN more = 1 .. Len(l) + 2 /\ more \in Seq(Events)
      /\ more[Len(l) + 2] = f /\ \A i \in 1 .. Len(l) + 1 : more[i] = mid[i]
  BY <1>1
<1>3. l # <<>> /\ e.cause = Len(l) /\ l[Len(l)].tx = e.tx /\ n \notin DoneIn(l)
  BY DEF OpenOK
<1>4. \A i \in DOMAIN mid : ChainedAt(mid, i)
  BY <1>0, <1>3, ChainsAppend DEF LogOK, mid
<1>5. \A i \in DOMAIN more : ChainedAt(more, i)
  BY <1>1, <1>4, ChainsAppend
<1>6. DoneIn(mid) = DoneIn(l) \cup {n} /\ DoneIn(more) = DoneIn(mid)
  <2>1. DoneIn(mid) = DoneIn(l) \cup {n}
    BY <1>0, DoneAppend DEF mid
  <2> QED BY <1>1, <2>1, DoneAppend
<1>7. \A txs : OpsIn(mid, txs) = OpsIn(l, txs) /\ OpsIn(more, txs) = OpsIn(mid, txs)
  <2>1. \A txs : OpsIn(mid, txs) = OpsIn(l, txs)
    BY <1>0, OpsAppend DEF mid
  <2>2. \A txs : OpsIn(more, txs) = OpsIn(mid, txs)
    BY <1>1, OpsAppend
  <2> QED BY <2>1, <2>2
<1>8. Len(Among(more, VersionEvents)) = v + 1
  <2>1. Len(Among(l, VersionEvents)) = v /\ v + 0 = v
    <3>1. Among(l, VersionEvents) \in Seq(Events)
      BY <1>0, AmongType
    <3> QED BY <3>1 DEF LogOK
  <2>2. Len(Among(mid, VersionEvents)) = v
    BY <1>0, <2>1, VersionsAppend DEF mid
  <2> QED BY <1>1, <2>2, VersionsAppend
<1>9. n \in 1 .. n
  <2>1. Len(l) \in DOMAIN l
    BY <1>0, <1>3
  <2> QED BY <1>0, <1>3, <2>1
<1>10. \A i \in DOMAIN more : more[i].tx \in 1 .. n
  <2>1. \A i \in 1 .. Len(l) + 1 : mid[i].tx \in 1 .. n
    BY <1>0, <1>1, <1>9
  <2> QED BY <1>1, <1>2, <1>9, <2>1
<1> HIDE DEF more
<1>11. LogOK(more, n, v + 1, now)
  BY <1>2, <1>5, <1>6, <1>7, <1>8, <1>10 DEF LogOK, OpenOK
<1> QED BY <1>11 DEF more, mid

\* The parts of the invariant that are about the log, as LogOK and OpenOK.
LEMMA LogIs ==
  ASSUME log \in Seq(Events)
  PROVE  LogExplains /\ ProvenanceComplete /\ CausalChainsUnbroken
         <=> /\ LogOK(log, calls, version, FlattenSeq(committed))
             /\ phase # "idle" => OpenOK(log, calls, cause, FlattenSeq(committed) \o Pending)
<1>1. \A txs : OperationsOf(txs) = OpsIn(log, txs)
  BY SelectionIs DEF OperationsOf, OpsIn
<1>2. Among(log, {e \in ToSet(log) : e.type = "VERSION_CREATED"}) = Among(log, VersionEvents)
  BY SelectionIs
<1>3. Done = DoneIn(log)
  BY DEF Done, DoneIn
<1>4. CausalChainsUnbroken <=> \A i \in DOMAIN log : ChainedAt(log, i)
  BY DEF CausalChainsUnbroken, ChainedAt
<1>5. ProvenanceComplete <=> /\ OpsIn(log, DoneIn(log)) = FlattenSeq(committed)
                             /\ Len(Among(log, VersionEvents)) = version
  BY <1>1, <1>2, <1>3 DEF ProvenanceComplete
<1>6. LogExplains <=>
        /\ \A i \in DOMAIN log : log[i].tx \in 1 .. calls
        /\ phase # "idle" => OpenOK(log, calls, cause, FlattenSeq(committed) \o Pending)
  BY <1>1, <1>3 DEF LogExplains, OpenOK
<1> QED BY <1>4, <1>5, <1>6 DEF LogOK

\* The same of the state after a step.
LEMMA LogWillBe ==
  ASSUME log' \in Seq(Events)
  PROVE  (LogExplains /\ ProvenanceComplete /\ CausalChainsUnbroken)'
         <=> /\ LogOK(log', calls', version', FlattenSeq(committed'))
             /\ phase' # "idle" => OpenOK(log', calls', cause', FlattenSeq(committed') \o Pending')
<1>1. \A txs : OperationsOf(txs)' = OpsIn(log', txs)
  BY SelectionIs DEF OperationsOf, OpsIn
<1>2. Among(log', {e \in ToSet(log') : e.type = "VERSION_CREATED"}) = Among(log', VersionEvents)
  BY SelectionIs
<1>3. Done' = DoneIn(log')
  BY DEF Done, DoneIn
<1>4. CausalChainsUnbroken' <=> \A i \in DOMAIN log' : ChainedAt(log', i)
  BY DEF CausalChainsUnbroken, ChainedAt
<1>5. ProvenanceComplete' <=> /\ OpsIn(log', DoneIn(log')) = FlattenSeq(committed')
                              /\ Len(Among(log', VersionEvents)) = version'
  BY <1>1, <1>2, <1>3 DEF ProvenanceComplete, OperationsOf, Done
<1>6. LogExplains' <=>
        /\ \A i \in DOMAIN log' : log'[i].tx \in 1 .. calls'
        /\ phase' # "idle" => OpenOK(log', calls', cause', FlattenSeq(committed') \o Pending')
  BY <1>1, <1>3 DEF LogExplains, OpenOK, OperationsOf, Done
<1> QED BY <1>4, <1>5, <1>6 DEF LogOK

----------------------------------------------------------------------------
(* The undo log *)

\* On any graph with the units of the copy, the undo log brings back the units
\* of the active graph.
UndoExplains ==
  phase = "applying" =>
    \A g : IsGraph(g) /\ g.units = staging.units =>
      LET r == Rollback(undo, g) IN ~r.raised /\ r.graph.units = graph.units

\* What the operations of a graph make of its units.
LEMMA UnitsAfter ==
  ASSUME NEW g, IsGraph(g), NEW h, NEW x
  PROVE  /\ h = AddUnit(g, x) => IsGraph(h) /\ h.units = g.units \cup {x}
         /\ h = RemoveUnit(g, x) => IsGraph(h) /\ h.units = g.units \ {x}
         /\ h = AddEdges(g, x) => IsGraph(h) /\ h.units = g.units
         /\ h = RemoveEdges(g, x) => IsGraph(h) /\ h.units = g.units
BY DEF AddUnit, RemoveUnit, AddEdges, RemoveEdges, IsGraph

\* The inverse of an operation runs wherever the units are those the operation
\* left, and brings back those it found.
LEMMA InverseUndoes ==
  ASSUME NEW o, NEW h, IsGraph(h), Applicable(o, h), NEW g, IsGraph(g), g.units = Effect(o, h).units
  PROVE  LET i == InverseOf(o, h)
         IN  ~UndoRaises(i, g) /\ IsGraph(Undo(i, g)) /\ Undo(i, g).units = h.units
<1> DEFINE i == InverseOf(o, h)
<1>1. CASE o.op = "ADD_UNIT"
  <2>1. i.inv = "REMOVE_UNIT" /\ i.unit = o.unit
    BY <1>1 DEF InverseOf
  <2>2. g.units = h.units \cup {o.unit} /\ o.unit \notin h.units
    BY <1>1 DEF Effect, AddUnit, IsGraph, Applicable
  <2> HIDE DEF i
  <2>3. Undo(i, g) = RemoveUnit(g, o.unit)
    BY <2>1 DEF Undo
  <2>4. RemoveUnit(g, o.unit).units = g.units \ {o.unit} /\ IsGraph(RemoveUnit(g, o.unit))
    BY UnitsAfter
  <2>5. ~UndoRaises(i, g)
    BY <2>1, <2>2 DEF UndoRaises
  <2>6. IsGraph(Undo(i, g)) /\ Undo(i, g).units = h.units
    BY <2>2, <2>3, <2>4
  <2> QED BY <2>5, <2>6 DEF i
<1>2. CASE o.op = "REMOVE_UNIT"
  <2>1. i.inv = "RESTORE_UNIT" /\ i.unit = o.unit
    BY <1>2 DEF InverseOf
  <2>2. g.units = h.units \ {o.unit} /\ o.unit \in h.units
    BY <1>2 DEF Effect, RemoveUnit, IsGraph, Applicable
  <2> HIDE DEF i
  <2>3. Undo(i, g) = AddEdges(AddUnit(g, o.unit), i.edges)
    BY <2>1 DEF Undo
  <2> DEFINE a == AddUnit(g, o.unit)
  <2>4. a.units = g.units \cup {o.unit} /\ IsGraph(a)
    BY UnitsAfter
  <2> HIDE DEF a
  <2>5. AddEdges(a, i.edges).units = a.units /\ IsGraph(AddEdges(a, i.edges))
    BY <2>4, UnitsAfter
  <2>6. ~UndoRaises(i, g)
    BY <2>1, <2>2 DEF UndoRaises
  <2>7. IsGraph(Undo(i, g)) /\ Undo(i, g).units = h.units
    BY <2>2, <2>3, <2>4, <2>5 DEF a
  <2> QED BY <2>6, <2>7 DEF i
<1>3. CASE o.op = "CONNECT_UNITS"
  <2>1. i.inv = "DISCONNECT_UNITS"
    BY <1>3 DEF InverseOf
  <2>2. g.units = h.units
    BY <1>3 DEF Effect, AddEdges, IsGraph
  <2> HIDE DEF i
  <2>3. Undo(i, g) = RemoveEdges(g, i.pattern)
    BY <2>1 DEF Undo
  <2> QED BY <2>1, <2>2, <2>3 DEF UndoRaises, RemoveEdges, IsGraph, i
<1>4. CASE o.op = "DISCONNECT_UNITS"
  <2>1. i.inv = "RESTORE_EDGES"
    BY <1>4 DEF InverseOf
  <2>2. g.units = h.units
    BY <1>4 DEF Effect, RemoveEdges, IsGraph
  <2> HIDE DEF i
  <2>3. Undo(i, g) = AddEdges(g, i.edges)
    BY <2>1 DEF Undo
  <2> QED BY <2>1, <2>2, <2>3 DEF UndoRaises, AddEdges, IsGraph, i
<1>5. CASE o.op = "REWIRE_EDGE"
  <2> DEFINE k == FirstEdge(g, i.old[1], i.old[2])
  <2>1. i.inv = "REWIRE_EDGE"
    BY <1>5 DEF InverseOf
  <2>2. g.units = h.units
    BY <1>5 DEF Effect, Rewire, IsGraph
  <2>3. Undo(i, g) = IF k = 0 THEN g ELSE Rewire(g, k, i.new[1], i.new[2])
    BY <2>1 DEF Undo
  <2> HIDE DEF i, k
  <2> QED BY <2>1, <2>2, <2>3 DEF UndoRaises, Rewire, IsGraph, i
<1> QED BY <1>1, <1>2, <1>3, <1>4, <1>5 DEF Applicable

----------------------------------------------------------------------------
(* The account of the graph *)

\* What the holder, and the log, can account for.
HistoryInv == TransactionInv /\ TypedInv /\ AccountInv /\ UndoExplains

\* A new manager has nothing to account for.
LEMMA HistoryInit == Init => HistoryInv
<1> SUFFICES ASSUME Init PROVE HistoryInv
  OBVIOUS
<1>1. TransactionInv /\ TypedInv
  BY TransactionInit, TypedInit
<1>2. phase = "idle" /\ log = <<>> /\ committed = <<>> /\ version = 0 /\ calls = 0 /\ origin = graph
  BY DEF Init
<1>3. HolderProgress /\ UndoExplains
  BY <1>2 DEF HolderProgress, UndoExplains
<1>4. ReplayExplains
  BY <1>2, ReplayEmpty DEF ReplayExplains
<1>5. version = Len(committed)
  BY <1>2
<1>6. LogOK(log, calls, version, FlattenSeq(committed))
  <2>1. DOMAIN log = {} /\ log \in Seq(Events)
    BY <1>2
  <2>2. \A txs : OpsIn(log, txs) = <<>>
    BY <1>2, AmongEmpty DEF OpsIn
  <2>3. Len(Among(log, VersionEvents)) = 0
    BY <1>2, AmongEmpty
  <2>4. FlattenSeq(committed) = <<>>
    BY <1>2 DEF FlattenSeq
  <2> QED BY <1>2, <2>1, <2>2, <2>3, <2>4 DEF LogOK
<1>7. log \in Seq(Events)
  BY <1>2
<1>8. LogExplains /\ ProvenanceComplete /\ CausalChainsUnbroken
  BY <1>2, <1>6, <1>7, LogIs
<1> QED BY <1>1, <1>3, <1>4, <1>5, <1>8 DEF HistoryInv, AccountInv

\* What the invariant says of the log.
LEMMA LogOfHistory ==
  ASSUME HistoryInv
  PROVE  /\ log \in Seq(Events) /\ calls \in Nat
         /\ LogOK(log, calls, version, FlattenSeq(committed))
         /\ phase # "idle" => OpenOK(log, calls, cause, FlattenSeq(committed) \o Pending)
         /\ FlattenSeq(committed) \in Seq(Operations \cup {NoOp})
<1>1. log \in Seq(Events) /\ calls \in Nat
  BY DEF HistoryInv, TypedInv, TypeOK
<1>2. /\ LogOK(log, calls, version, FlattenSeq(committed))
      /\ phase # "idle" => OpenOK(log, calls, cause, FlattenSeq(committed) \o Pending)
  BY <1>1, LogIs DEF HistoryInv, AccountInv
<1>3. FlattenSeq(committed) = OpsIn(log, DoneIn(log))
  BY <1>2 DEF LogOK
<1> QED BY <1>1, <1>2, <1>3, OpsType

\* A step that leaves the log and what it is about alone keeps its account.
LEMMA LogKept ==
  ASSUME HistoryInv, UNCHANGED <<log, calls, version, committed, cause>>,
         phase' # "idle" => phase # "idle" /\ Pending' = Pending
  PROVE  (LogExplains /\ ProvenanceComplete /\ CausalChainsUnbroken)'
<1>1. /\ LogOK(log', calls', version', FlattenSeq(committed'))
      /\ phase' # "idle" => OpenOK(log', calls', cause', FlattenSeq(committed') \o Pending')
  BY LogOfHistory
<1> QED BY <1>1, LogOfHistory, LogWillBe

\* A client plans while the account is kept.
LEMMA PlanAccounts ==
  ASSUME HistoryInv, NEW c \in Clients, NEW batch, NEW base, Plan(c, batch, base)
  PROVE  AccountInv' /\ UndoExplains'
<1>1. UNCHANGED <<graph, version, lock, phase, staging, undo, applied, cause,
                  log, calls, origin, committed>>
  BY DEF Plan, holderVars, history
<1>2. phase # "idle" => plan'[lock] = plan[lock]
  <2>1. phase # "idle" => lock \in Clients /\ plan[lock].waiting /\ lock # c
    BY DEF Plan, HistoryInv, TransactionInv, LockDiscipline, AccountInv, HolderProgress
  <2>2. \A d \in Clients : d # c => plan'[d] = plan[d]
    BY DEF Plan, HistoryInv, TransactionInv, LockDiscipline
  <2> QED BY <2>1, <2>2
<1>3. phase # "idle" => Pending' = Pending
  BY <1>1, <1>2 DEF Pending
<1>4. (LogExplains /\ ProvenanceComplete /\ CausalChainsUnbroken)'
  BY <1>1, <1>3, LogKept
<1>5. HolderProgress'
  BY <1>1, <1>2 DEF HistoryInv, AccountInv, HolderProgress
<1>6. ReplayExplains' /\ (version = Len(committed))'
  BY <1>1, <1>3 DEF HistoryInv, AccountInv, ReplayExplains, MidCommit
<1>7. UndoExplains'
  BY <1>1 DEF HistoryInv, UndoExplains
<1> QED BY <1>4, <1>5, <1>6, <1>7 DEF AccountInv

\* BEGIN opens a transaction with nothing applied.
LEMMA BeginAccounts ==
  ASSUME HistoryInv, NEW c \in Clients, BeginStaged(c)
  PROVE  AccountInv' /\ UndoExplains'
<1> DEFINE e == Event("BEGIN", calls + 1, NoCause, NoOp)
<1>1. /\ lock = NoClient /\ plan[c].waiting /\ lock' = c /\ phase' = "applying"
      /\ calls' = calls + 1 /\ log' = Append(log, e) /\ cause' = Len(log) + 1
      /\ staging' = graph /\ undo' = <<>> /\ applied' = 0
      /\ UNCHANGED <<graph, version, plan, origin, committed>>
  BY DEF BeginStaged, history
<1>2. phase = "idle"
  BY <1>1, NoClientAssumption DEF HistoryInv, TransactionInv, LockDiscipline
<1>3. plan[c].batch \in Seq(Operations)
  BY BatchType DEF HistoryInv, TypedInv
<1>4. Pending' = <<>>
  BY <1>1, <1>3 DEF Pending
<1>5. HolderProgress'
  BY <1>1, <1>3 DEF HolderProgress
<1>6. ReplayExplains' /\ (version = Len(committed))'
  BY <1>1, <1>2, <1>4, AppliedEmpty DEF HistoryInv, AccountInv, ReplayExplains, MidCommit
<1>7. UndoExplains'
  BY <1>1, RollbackEmpty DEF UndoExplains
<1>8. (LogExplains /\ ProvenanceComplete /\ CausalChainsUnbroken)'
  <2> DEFINE flat == FlattenSeq(committed)
  <2>1. e \in Events /\ e.type = "BEGIN" /\ e.tx = calls + 1 /\ e.cause = NoCause
    BY LogOfHistory DEF Event, Events, EventTypes
  <2> HIDE DEF e, flat
  <2>2. LogOK(Append(log, e), calls + 1, version, flat)
        /\ OpenOK(Append(log, e), calls + 1, Len(log) + 1, flat)
    BY <2>1, LogOfHistory, BeginLogged DEF flat
  <2>3. flat \o <<>> = flat
    BY LogOfHistory DEF flat
  <2>4. log' \in Seq(Events)
    BY <1>1, <2>1, LogOfHistory
  <2>5. /\ LogOK(log', calls', version', FlattenSeq(committed'))
        /\ OpenOK(log', calls', cause', FlattenSeq(committed') \o Pending')
    BY <1>1, <1>4, <2>2, <2>3 DEF flat
  <2> QED BY <2>4, <2>5, LogWillBe
<1> QED BY <1>5, <1>6, <1>7, <1>8 DEF AccountInv

\* The holder's next operation, and what has been applied after it.
LEMMA PendingGrows ==
  ASSUME HistoryInv, NEW c \in Clients, ApplyNext(c)
  PROVE  /\ Pending \in Seq(Operations) /\ Pending' = Append(Pending, NextOp(c))
         /\ NextOp(c) \in Operations
<1>1. lock = c /\ applied' = applied + 1 /\ UNCHANGED <<lock, plan>> /\ applied < Len(plan[c].batch)
  BY DEF ApplyNext
<1>2. plan[c].batch \in Seq(Operations) /\ applied \in Nat
  BY BatchType DEF HistoryInv, TypedInv, TypeOK
<1>3. NextOp(c) \in Operations
  BY <1>1, NextOpType DEF HistoryInv
<1> DEFINE b == plan[c].batch
<1>4. SubSeq(b, 1, applied) \in Seq(Operations)
  BY <1>1, <1>2
<1>5. SubSeq(b, 1, applied + 1) = Append(SubSeq(b, 1, applied), b[applied + 1])
  BY <1>1, <1>2
<1> QED BY <1>1, <1>3, <1>4, <1>5 DEF Pending, NextOp

\* A call that fails before it stages anything logs BEGIN and ROLLED_BACK.
LEMMA FailAccounts ==
  ASSUME HistoryInv, NEW c \in Clients, FailAtBegin(c)
  PROVE  AccountInv' /\ UndoExplains'
<1> DEFINE e == Event("BEGIN", calls + 1, NoCause, NoOp)
           f == Event("ROLLED_BACK", calls + 1, Len(log) + 1, NoOp)
           flat == FlattenSeq(committed)
<1>1. /\ lock = NoClient /\ log' = log \o <<e, f>> /\ calls' = calls + 1 /\ phase' = "idle"
      /\ UNCHANGED <<graph, version, origin, committed>>
  BY DEF FailAtBegin, Return, holderVars, history
<1>2. ~MidCommit /\ ~MidCommit'
  BY <1>1, NoClientAssumption DEF HistoryInv, TransactionInv, LockDiscipline, MidCommit
<1>3. HolderProgress' /\ UndoExplains'
  BY <1>1 DEF HolderProgress, UndoExplains
<1>4. ReplayExplains' /\ (version = Len(committed))'
  BY <1>1, <1>2 DEF HistoryInv, AccountInv, ReplayExplains
<1>5. log \in Seq(Events) /\ calls + 1 \in Nat /\ Len(log) + 1 \in Nat
  BY LogOfHistory
<1>6. e \in Events /\ e.type = "BEGIN" /\ e.tx = calls + 1 /\ e.cause = NoCause
  BY <1>5 DEF Event, Events, EventTypes
<1>7. f \in Events /\ f.type = "ROLLED_BACK" /\ f.tx = calls + 1 /\ f.cause = Len(log) + 1
  BY <1>5 DEF Event, Events, EventTypes
<1> HIDE DEF e, f, flat
<1> DEFINE mid == Append(log, e)
<1>8. LogOK(mid, calls + 1, version, flat) /\ OpenOK(mid, calls + 1, Len(log) + 1, flat)
  BY <1>6, LogOfHistory, BeginLogged DEF flat
<1>9. log' = Append(mid, f) /\ mid \in Seq(Events)
  BY <1>1, <1>5, <1>6, <1>7
<1> HIDE DEF mid
<1>10. LogOK(log', calls', version', FlattenSeq(committed'))
  <2>1. LogOK(Append(mid, f), calls + 1, version, flat)
    BY <1>5, <1>7, <1>8, EventLogged
  <2> QED BY <1>1, <1>9, <2>1 DEF flat
<1>11. (LogExplains /\ ProvenanceComplete /\ CausalChainsUnbroken)'
  <2>1. log' \in Seq(Events)
    BY <1>7, <1>9
  <2> QED BY <1>1, <1>10, <2>1, LogWillBe
<1> QED BY <1>3, <1>4, <1>11 DEF AccountInv

\* A rollback ends the chain of its transaction and commits nothing.
LEMMA AbortAccounts ==
  ASSUME HistoryInv, NEW c \in Clients, phase = "applying", Abort(c)
  PROVE  AccountInv' /\ UndoExplains'
<1> DEFINE e == Event("ROLLED_BACK", calls, cause, NoOp)
           flat == FlattenSeq(committed)
<1>1. /\ log' = Append(log, e) /\ phase' = "idle"
      /\ UNCHANGED <<graph, version, calls, origin, committed>>
  BY DEF Abort, Return, history
<1>2. ~MidCommit /\ ~MidCommit'
  BY <1>1 DEF MidCommit
<1>3. HolderProgress' /\ UndoExplains'
  BY <1>1 DEF HolderProgress, UndoExplains
<1>4. ReplayExplains' /\ (version = Len(committed))'
  BY <1>1, <1>2 DEF HistoryInv, AccountInv, ReplayExplains
<1>5. log \in Seq(Events) /\ calls \in Nat /\ cause \in Nat \cup {NoCause}
  BY LogOfHistory DEF HistoryInv, TypedInv
<1>6. e \in Events /\ e.type = "ROLLED_BACK" /\ e.tx = calls /\ e.cause = cause
  BY <1>5 DEF Event, Events, EventTypes
<1> HIDE DEF e, flat
<1>7. LogOK(Append(log, e), calls, version, flat)
  BY <1>5, <1>6, LogOfHistory, EventLogged DEF flat
<1>8. LogOK(log', calls', version', FlattenSeq(committed')) /\ log' \in Seq(Events)
  BY <1>1, <1>5, <1>6, <1>7 DEF flat
<1>9. (LogExplains /\ ProvenanceComplete /\ CausalChainsUnbroken)'
  BY <1>1, <1>8, LogWillBe
<1> QED BY <1>3, <1>4, <1>9 DEF AccountInv

\* Replacing the graph of a result.
LEMMA ResultWithGraph ==
  ASSUME NEW b, NEW g, NEW h
  PROVE  [[success |-> b, graph |-> g] EXCEPT !.graph = h] = [success |-> b, graph |-> h]
OBVIOUS

\* An operation that is accepted is applied.
LEMMA ApplyStepIs ==
  ASSUME NEW g, NEW o, Applicable(o, g)
  PROVE  ApplyStep(NoParameter, [success |-> TRUE, graph |-> g], o)
           = [success |-> TRUE, graph |-> Effect(o, g)]
BY ResultWithGraph DEF ApplyStep

\* An applied operation is logged, accounted for and can be undone.
LEMMA ApplyAccounts ==
  ASSUME HistoryInv, NEW c \in Clients, ApplyNext(c)
  PROVE  AccountInv' /\ UndoExplains'
<1> DEFINE o == NextOp(c)
           e == Event("MUTATION_APPLIED", calls, cause, o)
           i == InverseOf(o, staging)
           flat == FlattenSeq(committed)
           done == Replay(origin, committed).graph
<1>1. /\ lock = c /\ phase = "applying" /\ applied < Len(plan[c].batch)
      /\ Applicable(o, staging) /\ staging' = Effect(o, staging)
      /\ undo' = <<i>> \o undo /\ applied' = applied + 1
      /\ log' = Append(log, e) /\ cause' = Len(log) + 1
      /\ UNCHANGED <<graph, version, lock, plan, phase, calls, origin, committed>>
  BY DEF ApplyNext, history
<1>2. /\ Pending \in Seq(Operations) /\ Pending' = Append(Pending, o) /\ o \in Operations
  BY PendingGrows
<1>3. /\ staging \in Graph /\ undo \in Seq(Inverses) /\ cause \in Nat \cup {NoCause}
      /\ applied \in Nat /\ Len(plan[c].batch) \in Nat
  BY BatchType DEF HistoryInv, TypedInv, TypeOK
<1>4. e \in Events /\ e.type = "MUTATION_APPLIED" /\ e.tx = calls /\ e.cause = cause /\ e.op = o
  BY <1>2, <1>3, LogOfHistory DEF Event, Events, EventTypes
<1>5. i \in Inverses
  BY <1>1, <1>2, <1>3, InverseType
<1>6. HolderProgress'
  <2>1. plan[c].waiting
    BY <1>1 DEF HistoryInv, AccountInv, HolderProgress
  <2>2. applied + 1 \in 0 .. Len(plan[c].batch)
    BY <1>1, <1>3
  <2> QED BY <1>1, <2>1, <2>2 DEF HolderProgress
<1>7. UndoExplains'
  <2> SUFFICES ASSUME NEW g, IsGraph(g), g.units = staging'.units
               PROVE  LET r == Rollback(undo', g) IN ~r.raised /\ r.graph.units = graph.units
    BY <1>1 DEF UndoExplains
  <2>1. IsGraph(staging)
    BY <1>3, GraphParts
  <2>2. ~UndoRaises(i, g) /\ IsGraph(Undo(i, g)) /\ Undo(i, g).units = staging.units
    BY <1>1, <2>1, InverseUndoes
  <2> HIDE DEF i
  <2>3. Rollback(undo', g) = Rollback(undo, Undo(i, g))
    BY <1>1, <1>3, <1>5, <2>2, RollbackPrepend
  <2> QED BY <1>1, <2>2, <2>3 DEF HistoryInv, UndoExplains
<1> HIDE DEF o, e, i, flat, done
<1>8. ReplayExplains' /\ (version = Len(committed))'
  <2>1. /\ Replay(origin, committed) = [success |-> TRUE, graph |-> done] /\ done = graph
        /\ Applied(done, Pending) = [success |-> TRUE, graph |-> staging]
    BY <1>1 DEF HistoryInv, AccountInv, ReplayExplains, MidCommit, done
  <2>2. Applied(done, Append(Pending, o)) = ApplyStep(NoParameter, Applied(done, Pending), o)
    BY <1>2, AppliedAppend
  <2>3. ApplyStep(NoParameter, Applied(done, Pending), o)
          = [success |-> TRUE, graph |-> Effect(o, staging)]
    BY <1>1, <2>1, ApplyStepIs
  <2>4. Applied(done, Pending') = [success |-> TRUE, graph |-> staging']
    BY <1>1, <1>2, <2>2, <2>3
  <2>5. ReplayExplains'
    BY <1>1, <2>1, <2>4 DEF ReplayExplains, MidCommit
  <2> QED BY <1>1, <2>5 DEF HistoryInv, AccountInv
<1>9. (LogExplains /\ ProvenanceComplete /\ CausalChainsUnbroken)'
  <2>1. /\ LogOK(log, calls, version, flat) /\ OpenOK(log, calls, cause, flat \o Pending)
        /\ log \in Seq(Events) /\ calls \in Nat /\ flat \in Seq(Operations \cup {NoOp})
    BY <1>1, LogOfHistory DEF flat
  <2>2. /\ LogOK(Append(log, e), calls, version, flat)
        /\ OpenOK(Append(log, e), calls, Len(log) + 1, Append(flat \o Pending, o))
    <3> DEFINE now == flat \o Pending
    <3>1. OpenOK(log, calls, cause, now)
      BY <2>1
    <3> HIDE DEF now
    <3>2. /\ LogOK(Append(log, e), calls, version, flat)
          /\ OpenOK(Append(log, e), calls, Len(log) + 1, Append(now, e.op))
      BY <1>4, <2>1, <3>1, EventLogged
    <3> QED BY <1>4, <3>2 DEF now
  <2>3. Append(flat \o Pending, o) = flat \o Append(Pending, o)
    <3> DEFINE T == Operations \cup {NoOp}
    <3>1. flat \in Seq(T) /\ Pending \in Seq(T) /\ o \in T
      <4>1. \A k \in DOMAIN Pending : Pending[k] \in T
        BY <1>2, ElementOfSeq
      <4>2. Len(Pending) \in Nat /\ Pending = [k \in 1 .. Len(Pending) |-> Pending[k]]
        BY <1>2
      <4> HIDE DEF T
      <4>3. Pending \in Seq(T)
        BY <4>1, <4>2, IsASeq
      <4> QED BY <1>2, <2>1, <4>3 DEF T
    <3> HIDE DEF T
    <3> QED BY <3>1
  <2>4. /\ LogOK(log', calls', version', FlattenSeq(committed'))
        /\ OpenOK(log', calls', cause', FlattenSeq(committed') \o Pending')
        /\ log' \in Seq(Events)
    BY <1>1, <1>2, <1>4, <2>1, <2>2, <2>3 DEF flat
  <2> QED BY <2>4, LogWillBe
<1> QED BY <1>6, <1>7, <1>8, <1>9 DEF AccountInv

\* Validating and installing the copy logs nothing.
LEMMA PhaseAccounts ==
  ASSUME HistoryInv, NEW c \in Clients,
         ValidationPasses(c) \/ CommitUnits(c) \/ CommitEdges(c) \/ CommitMetadata(c)
  PROVE  AccountInv' /\ UndoExplains'
<1>1. /\ lock = c /\ phase # "idle" /\ phase' \in {"units", "edges", "metadata", "version"}
      /\ UNCHANGED <<version, lock, plan, staging, applied, cause, log, calls, origin, committed>>
      /\ MidCommit => MidCommit'
      /\ ~MidCommit' => UNCHANGED graph
  BY DEF ValidationPasses, CommitUnits, CommitEdges, CommitMetadata, holderVars, history, MidCommit
<1>2. /\ plan[c].waiting /\ applied \in 0 .. Len(plan[c].batch)
      /\ applied = Len(plan[c].batch)
  <2>1. phase = "applying" => applied = Len(plan[c].batch)
    BY DEF ValidationPasses, CommitUnits, CommitEdges, CommitMetadata
  <2>2. /\ plan[c].waiting /\ applied \in 0 .. Len(plan[c].batch)
        /\ phase # "applying" => applied = Len(plan[c].batch)
    BY <1>1 DEF HistoryInv, AccountInv, HolderProgress
  <2> QED BY <2>1, <2>2
<1>3. HolderProgress' /\ UndoExplains'
  BY <1>1, <1>2 DEF HolderProgress, UndoExplains
<1>4. Pending' = Pending
  BY <1>1 DEF Pending
<1>5. ReplayExplains' /\ (version = Len(committed))'
  <2> DEFINE r == Replay(origin, committed)
  <2>1. /\ r = [success |-> TRUE, graph |-> r.graph] /\ (~MidCommit => r.graph = graph)
        /\ Applied(r.graph, Pending) = [success |-> TRUE, graph |-> staging]
    BY <1>1 DEF HistoryInv, AccountInv, ReplayExplains
  <2>2. Replay(origin', committed') = r
    BY <1>1
  <2> HIDE DEF r
  <2>3. ReplayExplains'
    BY <1>1, <1>4, <2>1, <2>2 DEF ReplayExplains
  <2> QED BY <1>1, <2>3 DEF HistoryInv, AccountInv
<1>6. (LogExplains /\ ProvenanceComplete /\ CausalChainsUnbroken)'
  BY <1>1, <1>4, LogKept
<1> QED BY <1>3, <1>5, <1>6 DEF AccountInv

\* A batch that applies and validates is replayed to the copy it was made on.
LEMMA CommitReplays ==
  ASSUME NEW g, NEW h, NEW batch, Applied(g, batch) = [success |-> TRUE, graph |-> h], Valid(h)
  PROVE  ReplayStep(NoParameter, [success |-> TRUE, graph |-> g], batch)
           = [success |-> TRUE, graph |-> h]
<1> DEFINE r == [success |-> TRUE, graph |-> g]
           run == [success |-> TRUE, graph |-> h]
<1>1. r.success /\ r.graph = g /\ run.success /\ run.graph = h
  OBVIOUS
<1>2. Applied(g, batch) = run
  OBVIOUS
<1> HIDE DEF r, run
<1>3. ReplayStep(NoParameter, r, batch) = RunBatch(g, batch)
  BY <1>1 DEF ReplayStep
<1>4. RunBatch(g, batch) = run
  BY <1>1, <1>2 DEF RunBatch
<1> QED BY <1>3, <1>4 DEF r, run

\* The whole batch becomes the newest of the committed ones.
LEMMA CommitAccounts ==
  ASSUME HistoryInv, NEW c \in Clients, CommitVersion(c)
  PROVE  AccountInv' /\ UndoExplains'
<1> DEFINE e == Event("COMMITTED", calls, cause, NoOp)
           f == Event("VERSION_CREATED", calls, Len(log) + 1, NoOp)
           flat == FlattenSeq(committed)
           batch == plan[c].batch
           done == Replay(origin, committed).graph
<1>1. /\ lock = c /\ phase = "version" /\ phase' = "idle" /\ version' = version + 1
      /\ log' = log \o <<e, f>> /\ committed' = Append(committed, batch)
      /\ UNCHANGED <<graph, calls, origin>>
  BY DEF CommitVersion, Return
<1>2. /\ graph = staging /\ Valid(staging)
  BY <1>1, CopyComplete DEF HistoryInv
<1>3. /\ batch \in Seq(Operations) /\ committed \in Seq(Seq(Operations))
  BY BatchType DEF HistoryInv, TypedInv
<1>4. applied = Len(batch)
  BY <1>1 DEF HistoryInv, AccountInv, HolderProgress
<1>5. Pending = batch
  <2>1. Pending = SubSeq(batch, 1, Len(batch))
    BY <1>1, <1>4 DEF Pending
  <2> HIDE DEF batch
  <2>2. SubSeq(batch, 1, Len(batch)) = batch
    BY <1>3
  <2> QED BY <2>1, <2>2
<1>6. HolderProgress' /\ UndoExplains'
  BY <1>1 DEF HolderProgress, UndoExplains
<1>7. log \in Seq(Events) /\ calls \in Nat /\ cause \in Nat \cup {NoCause} /\ Len(log) + 1 \in Nat
  BY LogOfHistory DEF HistoryInv, TypedInv
<1>8. e \in Events /\ e.type = "COMMITTED" /\ e.tx = calls /\ e.cause = cause
  BY <1>7 DEF Event, Events, EventTypes
<1>9. f \in Events /\ f.type = "VERSION_CREATED" /\ f.tx = calls /\ f.cause = Len(log) + 1
  BY <1>7 DEF Event, Events, EventTypes
<1> HIDE DEF e, f, flat, batch, done
<1>10. ReplayExplains'
  <2>1. /\ Replay(origin, committed) = [success |-> TRUE, graph |-> done]
        /\ Applied(done, batch) = [success |-> TRUE, graph |-> staging]
    BY <1>1, <1>5 DEF HistoryInv, AccountInv, ReplayExplains, done
  <2>2. Replay(origin, Append(committed, batch))
          = ReplayStep(NoParameter, Replay(origin, committed), batch)
    BY <1>3, ReplayAppend
  <2>3. Replay(origin, Append(committed, batch)) = [success |-> TRUE, graph |-> staging]
    BY <1>2, <2>1, <2>2, CommitReplays
  <2>4. Replay(origin', committed') = [success |-> TRUE, graph |-> graph']
    BY <1>1, <1>2, <2>3
  <2> QED BY <1>1, <2>4 DEF ReplayExplains
<1>11. (version = Len(committed))'
  BY <1>1, <1>3 DEF HistoryInv, AccountInv
<1>12. (LogExplains /\ ProvenanceComplete /\ CausalChainsUnbroken)'
  <2>1. LogOK(log, calls, version, flat) /\ OpenOK(log, calls, cause, flat \o batch)
    BY <1>1, <1>5, LogOfHistory DEF flat
  <2>2. LogOK(Append(Append(log, e), f), calls, version + 1, flat \o batch)
    <3> DEFINE now == flat \o batch
    <3>1. OpenOK(log, calls, cause, now)
      BY <2>1
    <3> HIDE DEF now
    <3>2. LogOK(Append(Append(log, e), f), calls, version + 1, now)
      BY <1>7, <1>8, <1>9, <2>1, <3>1, CommitLogged
    <3> QED BY <3>2 DEF now
  <2>3. log' = Append(Append(log, e), f) /\ log' \in Seq(Events)
    BY <1>1, <1>7, <1>8, <1>9
  <2>4. FlattenSeq(Append(committed, batch)) = flat \o batch
    BY <1>3, Filters!FlattenAppend DEF flat, FlattenSeq, Filters!FlattenSeq
  <2>5. LogOK(log', calls', version', FlattenSeq(committed'))
    BY <1>1, <2>2, <2>3, <2>4
  <2> QED BY <1>1, <2>3, <2>5, LogWillBe
<1> QED BY <1>6, <1>10, <1>11, <1>12 DEF AccountInv

\* Every step of the manager keeps the account.
LEMMA HistoryStep == HistoryInv /\ [Next]_vars => HistoryInv'
<1> SUFFICES ASSUME HistoryInv, [Next]_vars PROVE HistoryInv'
  OBVIOUS
<1>0. TransactionInv' /\ TypedInv'
  BY TransactionStep, TypedStep DEF HistoryInv
<1>1. CASE UNCHANGED vars
  <2>1. /\ UNCHANGED <<graph, version, lock, plan, phase, staging, undo, applied, cause,
                       log, calls, origin, committed>>
    BY <1>1 DEF vars
  <2>2. Pending' = Pending /\ MidCommit' = MidCommit
    BY <2>1 DEF Pending, MidCommit
  <2>3. (LogExplains /\ ProvenanceComplete /\ CausalChainsUnbroken)'
    BY <2>1, <2>2, LogKept
  <2>4. HolderProgress' /\ ReplayExplains' /\ (version = Len(committed))' /\ UndoExplains'
    BY <2>1, <2>2 DEF HistoryInv, AccountInv, HolderProgress, ReplayExplains, UndoExplains
  <2> QED BY <1>0, <2>3, <2>4 DEF HistoryInv, AccountInv
<1>2. ASSUME NEW c \in Clients, NEW batch, NEW base, Plan(c, batch, base)
      PROVE  AccountInv' /\ UndoExplains'
  BY <1>2, PlanAccounts
<1>3. ASSUME NEW c \in Clients, BeginStaged(c) PROVE AccountInv' /\ UndoExplains'
  BY <1>3, BeginAccounts
<1>4. ASSUME NEW c \in Clients, VersionConflict(c) \/ StagingFails(c)
      PROVE  AccountInv' /\ UndoExplains'
  BY <1>4, FailAccounts DEF VersionConflict, StagingFails
<1>5. ASSUME NEW c \in Clients, ApplyFails(c) \/ ValidationFails(c)
      PROVE  AccountInv' /\ UndoExplains'
  BY <1>5, AbortAccounts DEF ApplyFails, ValidationFails
<1>6. ASSUME NEW c \in Clients, ApplyNext(c) PROVE AccountInv' /\ UndoExplains'
  BY <1>6, ApplyAccounts
<1>7. ASSUME NEW c \in Clients,
             ValidationPasses(c) \/ CommitUnits(c) \/ CommitEdges(c) \/ CommitMetadata(c)
      PROVE  AccountInv' /\ UndoExplains'
  BY <1>7, PhaseAccounts
<1>8. ASSUME NEW c \in Clients, CommitVersion(c) PROVE AccountInv' /\ UndoExplains'
  BY <1>8, CommitAccounts
<1>9. AccountInv' /\ UndoExplains'
  BY <1>1, <1>2, <1>3, <1>4, <1>5, <1>6, <1>7, <1>8, <1>0 DEF Next, HolderStep, HistoryInv
<1> QED
  BY <1>0, <1>9 DEF HistoryInv

\* Every variable keeps its type, and the log and the undo log account for the
\* graph in every reachable state.
THEOREM AccountInvariance == Spec => []HistoryInv
BY HistoryInit, HistoryStep, PTL DEF Spec

\* Replaying the committed batches gives the active graph, the provenance log
\* holds its whole history in unbroken chains, and a transaction under way can
\* be undone (execute_transaction, StructuralReplayEngine, _rollback_staging).
THEOREM HistoryIsAccountedFor == Spec => []LogSound
<1>1. HistoryInv => LogSound
  <2> SUFFICES ASSUME HistoryInv PROVE LogSound
    OBVIOUS
  <2>1. TypeOK /\ ProvenanceComplete /\ CausalChainsUnbroken
    BY DEF HistoryInv, TypedInv, AccountInv
  <2>2. ReplayReproduces
    BY DEF HistoryInv, AccountInv, ReplayExplains, ReplayReproduces, MidCommit
  <2>3. UndoRestoresUnits
    <3>1. IsGraph(staging)
      BY <2>1, GraphParts DEF TypeOK
    <3> QED BY <3>1 DEF HistoryInv, UndoExplains, UndoRestoresUnits
  <2> QED BY <2>1, <2>2, <2>3 DEF LogSound
<1> QED BY <1>1, AccountInvariance, PTL
============================================================================
