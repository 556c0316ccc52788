--------------------------- MODULE CognitionProofs ---------------------------
(***************************************************************************)
(* Proofs about what a task believes and remembers, when it halts and how  *)
(* its graph adapts: its claims with their invalidation and repair, the    *)
(* governed memory, the sample for drift, the halting policies and the     *)
(* adaptation cycle, each for every value of its constants.                *)
(***************************************************************************)
EXTENDS ControlChoice, Halting, DriftSample, CognitiveState, GovernedMemory, Adaptation,
        FiniteSetTheorems, SequenceTheorems, WellFoundedInduction,
        NaturalsInduction, TLAPS

----------------------------------------------------------------------------
(* Naturals and loops *)

\* A set of naturals that is not empty has a least one.
LEMMA NatLeast ==
  ASSUME NEW T \in SUBSET Nat, T # {}
  PROVE  \E x \in T : \A y \in T : x <= y
<1> DEFINE R == {ss \in Nat \X Nat : ss[1] < ss[2]}
<1>1. IsWellFoundedOn(R, Nat)
  BY NatLessThanWellFounded, Zenon DEF OpToRel
<1> HIDE DEF R
<1>2. PICK x \in T : \A y \in T : ~ (<<y, x>> \in R)
  BY <1>1, WFMin
<1>3. ASSUME NEW y \in T PROVE x <= y
  <2>1. <<y, x>> \notin R
    BY <1>2
  <2>2. x \in Nat /\ y \in Nat
    OBVIOUS
  <2>3. ~ (y < x)
    BY <2>1, <2>2 DEF R
  <2> QED BY <2>2, <2>3
<1> QED BY <1>3

\* The body of a loop with a counter, and the values of N rounds of it.
IsBody(g, T) == g \in [Nat \X T -> T]

IsLoop(f, x, g, T, N) ==
  f \in [0 .. N -> T] /\ f[0] = x /\ \A n \in 1 .. N : f[n] = g[<<n, f[n - 1]>>]

\* What a loop with a counter computes exists.
LEMMA Iterate ==
  ASSUME NEW T, NEW x \in T, NEW g, IsBody(g, T), NEW N \in Nat
  PROVE  \E f : IsLoop(f, x, g, T, N)
<1>0. g \in [Nat \X T -> T]
  BY DEF IsBody
<1> DEFINE Upto(M) == \E f \in [0 .. M -> T] : f[0] = x /\ \A n \in 1 .. M : f[n] = g[<<n, f[n - 1]>>]
           bad == {M \in Nat : ~Upto(M)}
<1>1. Upto(0)
  <2> DEFINE f == [n \in 0 .. 0 |-> x]
  <2>1. f \in [0 .. 0 -> T] /\ f[0] = x /\ \A n \in 1 .. 0 : f[n] = g[<<n, f[n - 1]>>]
    OBVIOUS
  <2> HIDE DEF f
  <2> QED BY <2>1
<1>2. ASSUME NEW M \in Nat, Upto(M) PROVE Upto(M + 1)
  <2>1. PICK f \in [0 .. M -> T] : f[0] = x /\ \A n \in 1 .. M : f[n] = g[<<n, f[n - 1]>>]
    BY <1>2
  <2> DEFINE h == [n \in 0 .. M + 1 |-> IF n = M + 1 THEN g[<<M + 1, f[M]>>] ELSE f[n]]
  <2>2. M \in 0 .. M /\ f[M] \in T /\ g[<<M + 1, f[M]>>] \in T
    <3>1. M \in 0 .. M /\ f[M] \in T
      BY <2>1
    <3> QED BY <1>0, <3>1
  <2>3. h \in [0 .. M + 1 -> T]
    BY <2>2
  <2>4. /\ h[M + 1] = g[<<M + 1, f[M]>>] /\ \A n \in 0 .. M : h[n] = f[n]
    OBVIOUS
  <2> HIDE DEF h
  <2>5. ASSUME NEW n \in 1 .. M + 1 PROVE h[n] = g[<<n, h[n - 1]>>]
    <3>1. CASE n = M + 1
      <4>1. n - 1 = M
        BY <3>1
      <4> QED BY <2>2, <2>4, <3>1, <4>1
    <3>2. CASE n \in 1 .. M
      <4>1. n - 1 \in 0 .. M /\ n \in 0 .. M
        BY <3>2
      <4> QED BY <2>1, <2>4, <3>2, <4>1
    <3> QED BY <3>1, <3>2
  <2>6. h[0] = x
    <3>1. 0 \in 0 .. M
      OBVIOUS
    <3> QED BY <2>1, <2>4, <3>1
  <2> QED BY <2>3, <2>5, <2>6
<1> HIDE DEF Upto
<1>3. bad = {}
  <2> SUFFICES ASSUME bad # {} PROVE FALSE
    OBVIOUS
  <2>1. PICK M \in bad : \A y \in bad : M <= y
    BY NatLeast
  <2>2. M \in Nat /\ ~Upto(M) /\ M # 0
    BY <1>1, <2>1
  <2>3. M - 1 \in Nat /\ M - 1 \notin bad
    BY <2>1, <2>2
  <2>4. Upto(M - 1)
    BY <2>3
  <2>5. Upto((M - 1) + 1)
    BY <1>2, <2>3, <2>4
  <2>6. (M - 1) + 1 = M
    BY <2>2
  <2> QED BY <2>2, <2>5, <2>6
<1>4. Upto(N)
  BY <1>3
<1> QED BY <1>4 DEF Upto, IsLoop

----------------------------------------------------------------------------
(* CognitiveState *)

\* The definition of the rounds of invalidate_from and dependency_cut.
IsSpread(f, root, rests, N) ==
  f = [n \in 0 .. N |-> IF n = 0 THEN {root} ELSE Widened(f[n - 1], rests)]

\* The loop as the function its definition chooses.
LEMMA DependentsIs ==
  ASSUME NEW root, NEW rests, NEW N
  PROVE  Dependents(root, rests, N) = (CHOOSE f : IsSpread(f, root, rests, N))[N]
  BY DEF Dependents, IsSpread

\* The loop, round by round.
Spreads(f, root, rests, S, N) ==
  /\ f \in [0 .. N -> SUBSET S] /\ f[0] = {root}
  /\ \A n \in 1 .. N : f[n] = Widened(f[n - 1], rests)

\* That function exists, and its value is that of the rounds.
LEMMA DependentsRounds ==
  ASSUME NEW S, NEW root \in S, NEW rests \in SUBSET (S \X S), NEW N \in Nat
  PROVE  \E f : Spreads(f, root, rests, S, N) /\ Dependents(root, rests, N) = f[N]
<1> DEFINE g == [p \in Nat \X SUBSET S |-> Widened(p[2], rests)]
<1>1. ASSUME NEW X \in SUBSET S PROVE Widened(X, rests) \in SUBSET S
  <2>1. \A q \in rests : q[1] \in S
    OBVIOUS
  <2> QED BY <2>1 DEF Widened
<1>2. PICK f : IsLoop(f, {root}, g, SUBSET S, N)
  <2>1. IsBody(g, SUBSET S)
    BY <1>1 DEF IsBody
  <2> HIDE DEF g
  <2> QED BY <2>1, Iterate
<1>3. Spreads(f, root, rests, S, N)
  <2>1. f \in [0 .. N -> SUBSET S] /\ f[0] = {root} /\ \A n \in 1 .. N : f[n] = g[<<n, f[n - 1]>>]
    BY <1>2 DEF IsLoop
  <2>2. ASSUME NEW n \in 1 .. N PROVE f[n] = Widened(f[n - 1], rests)
    <3>1. n \in Nat /\ n - 1 \in 0 .. N
      OBVIOUS
    <3>2. <<n, f[n - 1]>> \in Nat \X SUBSET S
      BY <2>1, <3>1
    <3> QED BY <2>1, <3>2
  <2> QED BY <2>1, <2>2 DEF Spreads
<1>4. IsSpread(f, root, rests, N)
  <2>1. f = [n \in 0 .. N |-> f[n]]
    BY <1>3 DEF Spreads
  <2>2. \A n \in 0 .. N : f[n] = IF n = 0 THEN {root} ELSE Widened(f[n - 1], rests)
    BY <1>3 DEF Spreads
  <2>3. [n \in 0 .. N |-> f[n]]
          = [n \in 0 .. N |-> IF n = 0 THEN {root} ELSE Widened(f[n - 1], rests)]
    BY <2>2
  <2> QED BY <2>1, <2>3 DEF IsSpread
<1> DEFINE spread == CHOOSE h : IsSpread(h, root, rests, N)
<1>5. IsSpread(spread, root, rests, N)
  BY <1>4
<1> HIDE DEF spread
<1>6. \A n \in 0 .. N : spread[n] = IF n = 0 THEN {root} ELSE Widened(spread[n - 1], rests)
  BY <1>5 DEF IsSpread
<1>7. ASSUME NEW n \in 0 .. N, spread[n] # f[n]
      PROVE  FALSE
  <2> DEFINE bad == {m \in 0 .. N : spread[m] # f[m]}
  <2>1. bad \in SUBSET Nat /\ bad # {}
    BY <1>7
  <2>2. PICK m \in bad : \A y \in bad : m <= y
    <3> HIDE DEF bad
    <3> QED BY <2>1, NatLeast
  <2>3. m # 0
    <3>1. 0 \in 0 .. N
      OBVIOUS
    <3>2. spread[0] = {root}
      BY <1>6, <3>1
    <3> QED BY <1>3, <2>2, <3>2 DEF Spreads
  <2>4. m \in 1 .. N /\ m - 1 \in 0 .. N
    BY <2>2, <2>3
  <2>5. spread[m - 1] = f[m - 1]
    BY <2>2, <2>4
  <2>6. spread[m] = Widened(spread[m - 1], rests) /\ f[m] = Widened(f[m - 1], rests)
    BY <1>3, <1>6, <2>4 DEF Spreads
  <2> QED BY <2>2, <2>5, <2>6
<1>8. Dependents(root, rests, N) = f[N]
  <2>1. spread[N] = f[N]
    BY <1>7
  <2> QED BY <2>1, DependentsIs DEF spread
<1> QED BY <1>3, <1>8

\* The claims a loop reaches are among those there are.
LEMMA DependentsTyped ==
  ASSUME NEW S, NEW root \in S, NEW rests \in SUBSET (S \X S), NEW N \in Nat
  PROVE  Dependents(root, rests, N) \in SUBSET S
<1>1. PICK f : Spreads(f, root, rests, S, N) /\ Dependents(root, rests, N) = f[N]
  BY DependentsRounds
<1>2. N \in 0 .. N
  OBVIOUS
<1> QED BY <1>1, <1>2 DEF Spreads

\* An invalidation affects claims of the state only.
LEMMA InvalidatedTyped ==
  ASSUME StateInv(cog), NEW root \in cog.items
  PROVE  InvalidatedBy(root) \in SUBSET cog.items
<1>1. Dependencies(cog) \in SUBSET (cog.items \X cog.items)
  BY DEF StateInv, Grounded, Dependencies, Declared
<1>2. Cardinality(cog.items) \in Nat
  BY FS_CardinalityType DEF StateInv, Grounded
<1> QED BY <1>1, <1>2, DependentsTyped DEF InvalidatedBy

\* What a repair works on are claims and views.
LEMMA CutTyped ==
  ASSUME NEW s, StateInv(s), NEW root \in s.items \cup Views
  PROVE  Cut(s, root) \in SUBSET (Items \cup Views)
<1> DEFINE S == s.items \cup Views
<1>1. Declared(s) \in SUBSET (S \X S) /\ S \subseteq Items \cup Views
  BY DEF Declared, StateInv, TaskStates
<1>2. Cardinality(s.items) \in Nat
  BY FS_CardinalityType DEF StateInv, Grounded
<1>3. Dependents(root, Declared(s), Cardinality(s.items)) \in SUBSET S
  <2> HIDE DEF S
  <2>1. root \in S
    BY DEF S
  <2> QED BY <1>1, <1>2, <2>1, DependentsTyped
<1> QED BY <1>1, <1>3 DEF Cut

\* Another event at the end of the log.
LEMMA LogGrows ==
  ASSUME NEW s \in TaskStates, NEW t \in TaskStates, NEW e \in TaskEvent, t.log = Append(s.log, e)
  PROVE  /\ Len(t.log) = Len(s.log) + 1 /\ Len(s.log) \in Nat /\ t.log[Len(s.log) + 1] = e
         /\ \A k \in 1 .. Len(s.log) : t.log[k] = s.log[k]
         /\ \A kind : Events(t, kind) =
              Events(s, kind) \cup (IF e.kind = kind THEN {Len(s.log) + 1} ELSE {})
<1>1. s.log \in Seq(TaskEvent)
  BY DEF TaskStates
<1>2. /\ Len(t.log) = Len(s.log) + 1 /\ Len(s.log) \in Nat /\ t.log[Len(s.log) + 1] = e
      /\ \A k \in 1 .. Len(s.log) : t.log[k] = s.log[k]
  BY <1>1
<1>3. 1 .. Len(t.log) = 1 .. Len(s.log) \cup {Len(s.log) + 1}
  BY <1>2
<1> QED BY <1>2, <1>3 DEF Events

\* An invalidation settles nothing and supersedes no revision.
LEMMA InvalidationInLog ==
  ASSUME NEW s \in TaskStates, NEW t \in TaskStates, NEW e \in TaskEvent, t.log = Append(s.log, e),
         e.kind = "invalidation"
  PROVE  /\ Events(t, "invalidation") = Events(s, "invalidation") \cup {Len(s.log) + 1}
         /\ Events(t, "repair") = Events(s, "repair")
         /\ \A k \in Events(s, "invalidation") : k \in Nat /\ t.log[k] = s.log[k]
         /\ \A k \in Events(s, "repair") : t.log[k] = s.log[k]
         /\ \A x : \A k \in Events(s, "invalidation") : SettledBy(t, x, k) <=> SettledBy(s, x, k)
         /\ \A x : ~SettledBy(t, x, Len(s.log) + 1)
<1>0. /\ Len(s.log) \in Nat /\ t.log[Len(s.log) + 1] = e
      /\ \A kind : Events(t, kind) =
           Events(s, kind) \cup (IF e.kind = kind THEN {Len(s.log) + 1} ELSE {})
  BY LogGrows
<1>1. /\ Events(t, "invalidation") = Events(s, "invalidation") \cup {Len(s.log) + 1}
      /\ Events(t, "repair") = Events(s, "repair")
  BY <1>0
<1>2. \A kind : \A k \in Events(s, kind) : k \in 1 .. Len(s.log) /\ k \in Nat /\ t.log[k] = s.log[k]
  BY LogGrows DEF Events
<1>3. Len(s.log) \in Nat
  BY LogGrows
<1>4. \A k \in Events(s, "repair") : ~(k > Len(s.log) + 1)
  BY <1>2, <1>3
<1> QED BY <1>1, <1>2, <1>4 DEF SettledBy

\* A repair settles all that came before for what it went over.
LEMMA RepairInLog ==
  ASSUME NEW s \in TaskStates, NEW t \in TaskStates, NEW e \in TaskEvent, t.log = Append(s.log, e),
         e.kind = "repair"
  PROVE  /\ Events(t, "invalidation") = Events(s, "invalidation")
         /\ Events(t, "repair") = Events(s, "repair") \cup {Len(s.log) + 1}
         /\ \A kind : \A k \in Events(s, kind) : k \in 1 .. Len(s.log) /\ k \in Nat /\ t.log[k] = s.log[k]
         /\ t.log[Len(s.log) + 1] = e
         /\ \A x : \A k \in Events(s, "invalidation") :
              SettledBy(t, x, k) <=> SettledBy(s, x, k) \/ x \in e.affected
<1>0. /\ Len(s.log) \in Nat /\ t.log[Len(s.log) + 1] = e
      /\ \A kind : Events(t, kind) =
           Events(s, kind) \cup (IF e.kind = kind THEN {Len(s.log) + 1} ELSE {})
  BY LogGrows
<1>1. /\ Events(t, "invalidation") = Events(s, "invalidation")
      /\ Events(t, "repair") = Events(s, "repair") \cup {Len(s.log) + 1}
      /\ t.log[Len(s.log) + 1] = e /\ Len(s.log) \in Nat
  BY <1>0
<1>2. \A kind : \A k \in Events(s, kind) : k \in 1 .. Len(s.log) /\ k \in Nat /\ t.log[k] = s.log[k]
  BY LogGrows DEF Events
<1>3. \A k \in Events(s, "invalidation") : Len(s.log) + 1 > k
  BY <1>1, <1>2
<1>4. ASSUME NEW x, NEW k \in Events(s, "invalidation")
      PROVE  SettledBy(t, x, k) <=> SettledBy(s, x, k) \/ x \in e.affected
  BY <1>1, <1>2, <1>3 DEF SettledBy
<1> QED BY <1>1, <1>2, <1>4

\* What nothing affects stays explained: the log, the statuses, the marks and the
\* revisions are as they were, and a claim that is new is in none of them.
LEMMA AppendingKeeps ==
  ASSUME NEW s, StateInv(s), NEW t \in TaskStates,
         IsFiniteSet(t.items), s.items \subseteq t.items, t.relations \subseteq t.items \X t.items,
         t.invalid = s.invalid, t.history = s.history, t.marked = s.marked, t.log = s.log,
         \A v \in Views : \/ t.views[v] = s.views[v] /\ t.registered[v] = s.registered[v]
                          \/ /\ t.views[v] # NoView /\ t.views[v] \subseteq t.items
                             /\ t.registered[v] = Len(s.log)
  PROVE  StateInv(t)
<1>1. s \in TaskStates /\ Grounded(s) /\ Explained(s)
  BY DEF StateInv
<1>2. \A kind, x, k : Events(t, kind) = Events(s, kind) /\ (SettledBy(t, x, k) <=> SettledBy(s, x, k))
  BY DEF Events, SettledBy
<1>3. Grounded(t)
  BY <1>1, <1>2 DEF Grounded, TaskStates
<1>4. \A i \in t.items :
        i \in t.invalid <=>
          \E k \in Events(t, "invalidation") : i \in t.log[k].affected /\ ~SettledBy(t, i, k)
  BY <1>1, <1>2 DEF Grounded, Explained
<1>5. ASSUME NEW v \in Views, t.views[v] # NoView, v \notin t.marked, NEW k \in Events(t, "invalidation"),
             k > t.registered[v], t.views[v] \cap t.log[k].affected # {}
      PROVE  SettledBy(t, v, k)
  <2>1. k <= Len(s.log) /\ k \in Nat
    BY <1>1, <1>2, <1>5 DEF Events, TaskStates
  <2>2. t.views[v] = s.views[v] /\ t.registered[v] = s.registered[v]
    <3>1. Len(s.log) \in Nat
      BY <1>1 DEF TaskStates
    <3> QED BY <1>5, <2>1, <3>1
  <2> QED BY <1>1, <1>2, <1>5, <2>2 DEF Explained
<1>6. \A i \in Items : t.history[i] = Cardinality({k \in Events(t, "repair") : i \in t.log[k].affected})
  BY <1>1, <1>2 DEF Explained
<1>7. Explained(t)
  BY <1>4, <1>5, <1>6 DEF Explained
<1> QED BY <1>3, <1>7 DEF StateInv

\* invalidate_from: what is affected becomes invalid and its views are marked.
LEMMA InvalidationKeeps ==
  ASSUME NEW s, StateInv(s), NEW t \in TaskStates, NEW affected \in SUBSET s.items,
         NEW e \in TaskEvent, t.log = Append(s.log, e), Len(s.log) < MaxEvents,
         e.kind = "invalidation", e.affected = affected,
         t.items = s.items, t.relations = s.relations, t.views = s.views, t.registered = s.registered,
         t.history = s.history, t.invalid = s.invalid \cup affected,
         t.marked = s.marked \cup {v \in Views : s.views[v] # NoView /\ s.views[v] \cap affected # {}}
  PROVE  StateInv(t)
<1> DEFINE K == Len(s.log) + 1
<1>1. s \in TaskStates /\ Grounded(s) /\ Explained(s)
  BY DEF StateInv
<1>2. /\ Events(t, "invalidation") = Events(s, "invalidation") \cup {K}
      /\ Events(t, "repair") = Events(s, "repair")
      /\ \A k \in Events(s, "invalidation") : k \in Nat /\ t.log[k] = s.log[k]
      /\ \A k \in Events(s, "repair") : t.log[k] = s.log[k]
      /\ \A x : \A k \in Events(s, "invalidation") : SettledBy(t, x, k) <=> SettledBy(s, x, k)
      /\ \A x : ~SettledBy(t, x, K)
  BY <1>1, InvalidationInLog
<1>3. t.log[K] = e /\ Len(t.log) = K /\ K \in Nat /\ Len(s.log) \in Nat
  BY <1>1, LogGrows
<1> HIDE DEF K
<1>4. Grounded(t)
  <2>1. \A k \in Events(t, "invalidation") : t.log[k].affected \subseteq t.items
    BY <1>1, <1>2, <1>3 DEF Grounded
  <2>2. Len(t.log) <= MaxEvents
    BY <1>3, ChoicesAssumption DEF K
  <2>3. \A v \in t.marked : t.views[v] # NoView
    BY <1>1 DEF Grounded
  <2> QED BY <1>1, <2>1, <2>2, <2>3 DEF Grounded
<1>5. ASSUME NEW i \in t.items
      PROVE  i \in t.invalid <=>
               \E k \in Events(t, "invalidation") : i \in t.log[k].affected /\ ~SettledBy(t, i, k)
  <2>1. i \in s.invalid <=>
          \E k \in Events(s, "invalidation") : i \in s.log[k].affected /\ ~SettledBy(s, i, k)
    BY <1>1 DEF Explained
  <2>2. (\E k \in Events(t, "invalidation") : i \in t.log[k].affected /\ ~SettledBy(t, i, k))
          <=> \/ \E k \in Events(s, "invalidation") : i \in s.log[k].affected /\ ~SettledBy(s, i, k)
              \/ i \in affected
    BY <1>2, <1>3
  <2> QED BY <2>1, <2>2
<1>6. ASSUME NEW v \in Views, t.views[v] # NoView, v \notin t.marked, NEW k \in Events(t, "invalidation"),
             k > t.registered[v], t.views[v] \cap t.log[k].affected # {}
      PROVE  SettledBy(t, v, k)
  <2>1. v \notin s.marked /\ s.views[v] \cap affected = {}
    BY <1>6
  <2>2. k # K
    BY <1>3, <1>6, <2>1
  <2>3. k \in Events(s, "invalidation")
    BY <1>2, <2>2
  <2> QED BY <1>1, <1>2, <1>6, <2>1, <2>3 DEF Explained
<1>7. ASSUME NEW i \in Items
      PROVE  t.history[i] = Cardinality({k \in Events(t, "repair") : i \in t.log[k].affected})
  <2>1. {k \in Events(t, "repair") : i \in t.log[k].affected}
          = {k \in Events(s, "repair") : i \in s.log[k].affected}
    BY <1>2
  <2> QED BY <1>1, <2>1 DEF Explained
<1>8. Explained(t)
  BY <1>5, <1>6, <1>7 DEF Explained
<1> QED BY <1>4, <1>8 DEF StateInv

\* execute_localized_repair: what the cut holds is current again, unmarked, and has
\* one more revision behind it.
LEMMA RepairKeeps ==
  ASSUME NEW s, StateInv(s), NEW t \in TaskStates, NEW cut \in SUBSET (Items \cup Views),
         NEW e \in TaskEvent, t.log = Append(s.log, e), Len(s.log) < MaxEvents,
         e.kind = "repair", e.affected = cut,
         t.items = s.items, t.relations = s.relations, t.views = s.views, t.registered = s.registered,
         t.invalid = s.invalid \ cut, t.marked = s.marked \ cut,
         t.history = [i \in Items |-> IF i \in cut THEN s.history[i] + 1 ELSE s.history[i]]
  PROVE  StateInv(t)
<1> DEFINE K == Len(s.log) + 1
<1>1. s \in TaskStates /\ Grounded(s) /\ Explained(s)
  BY DEF StateInv
<1>2. /\ Events(t, "invalidation") = Events(s, "invalidation")
      /\ Events(t, "repair") = Events(s, "repair") \cup {K}
      /\ \A kind : \A k \in Events(s, kind) : k \in 1 .. Len(s.log) /\ k \in Nat /\ t.log[k] = s.log[k]
      /\ t.log[K] = e
      /\ \A x : \A k \in Events(s, "invalidation") :
           SettledBy(t, x, k) <=> SettledBy(s, x, k) \/ x \in cut
  BY <1>1, RepairInLog
<1>3. Len(t.log) = K /\ K \in Nat /\ Len(s.log) \in Nat /\ K \notin 1 .. Len(s.log)
  BY <1>1, LogGrows
<1> HIDE DEF K
<1>4. Grounded(t)
  <2>1. \A k \in Events(t, "invalidation") : t.log[k].affected \subseteq t.items
    BY <1>1, <1>2 DEF Grounded
  <2>2. Len(t.log) <= MaxEvents
    BY <1>3, ChoicesAssumption DEF K
  <2> QED BY <1>1, <2>1, <2>2 DEF Grounded
<1>5. ASSUME NEW i \in t.items
      PROVE  i \in t.invalid <=>
               \E k \in Events(t, "invalidation") : i \in t.log[k].affected /\ ~SettledBy(t, i, k)
  BY <1>1, <1>2 DEF Explained
<1>6. ASSUME NEW v \in Views, t.views[v] # NoView, v \notin t.marked, NEW k \in Events(t, "invalidation"),
             k > t.registered[v], t.views[v] \cap t.log[k].affected # {}
      PROVE  SettledBy(t, v, k)
  <2>1. CASE v \in cut
    BY <1>2, <1>6, <2>1
  <2>2. CASE v \notin cut
    BY <1>1, <1>2, <1>6, <2>2 DEF Explained
  <2> QED BY <2>1, <2>2
<1>7. ASSUME NEW i \in Items
      PROVE  t.history[i] = Cardinality({k \in Events(t, "repair") : i \in t.log[k].affected})
  <2> DEFINE before == {k \in Events(s, "repair") : i \in s.log[k].affected}
             after == {k \in Events(t, "repair") : i \in t.log[k].affected}
  <2>1. s.history[i] = Cardinality(before) /\ s.history[i] \in Nat
    BY <1>1 DEF Explained, TaskStates
  <2>2. before \subseteq 1 .. Len(s.log)
    BY <1>2
  <2>3. IsFiniteSet(before) /\ K \notin before
    <3>1. IsFiniteSet(1 .. Len(s.log))
      BY <1>3, FS_Interval
    <3> HIDE DEF before
    <3> QED BY <1>3, <2>2, <3>1, FS_Subset
  <2>4. CASE i \in cut
    <3>1. after = before \cup {K}
      BY <1>2, <2>4
    <3> HIDE DEF before, after
    <3>2. Cardinality(after) = Cardinality(before) + 1
      BY <2>3, <3>1, FS_AddElement
    <3> QED BY <2>1, <2>4, <3>2 DEF after
  <2>5. CASE i \notin cut
    <3>1. after = before
      BY <1>2, <2>5
    <3> HIDE DEF before, after
    <3> QED BY <2>1, <2>5, <3>1 DEF after
  <2> QED BY <2>4, <2>5
<1>8. Explained(t)
  BY <1>5, <1>6, <1>7 DEF Explained
<1> QED BY <1>4, <1>8 DEF StateInv

\* The state a task starts in.
LEMMA CognitiveInitial == CognitiveInit => CognitiveInv
<1> SUFFICES ASSUME CognitiveInit PROVE StateInv(cog) /\ repair = NoRepair
  BY DEF CognitiveInv
<1>1. PICK o \in Origins :
        cog = [items |-> o.items, depends |-> o.depends, relations |-> o.relations,
               invalid |-> {}, history |-> [i \in Items |-> 0], notes |-> {},
               actions |-> [x \in Actions |-> "none"],
               views |-> [v \in Views |-> NoView], marked |-> {},
               registered |-> [v \in Views |-> 0], log |-> <<>>]
  BY DEF CognitiveInit
<1>2. /\ o.items \subseteq Items /\ o.depends \in [Items -> SUBSET Items]
      /\ o.relations \subseteq Items \X Items
      /\ IsFiniteSet(o.items) /\ o.relations \subseteq o.items \X o.items
  BY ChoicesAssumption
<1>3. /\ cog.items = o.items /\ cog.relations = o.relations /\ cog.invalid = {} /\ cog.marked = {}
      /\ cog.log = <<>> /\ cog.views = [v \in Views |-> NoView] /\ cog.history = [i \in Items |-> 0]
  BY <1>1
<1>4. cog \in TaskStates
  <2>1. "none" \in ActionStates
    BY DEF ActionStates
  <2>2. <<>> \in Seq(TaskEvent)
    OBVIOUS
  <2> QED BY <1>1, <1>2, <2>1, <2>2 DEF TaskStates
<1>5. \A kind : Events(cog, kind) = {}
  BY <1>3 DEF Events
<1>6. Grounded(cog)
  BY <1>2, <1>3, <1>5, ChoicesAssumption DEF Grounded
<1>7. Explained(cog)
  <2>1. \A i \in Items : {k \in Events(cog, "repair") : i \in cog.log[k].affected} = {}
    BY <1>5
  <2> QED BY <1>3, <1>5, <2>1, FS_EmptySet DEF Explained
<1> QED BY <1>4, <1>6, <1>7 DEF StateInv, CognitiveInit

\* An update replaces the state; what a repair in progress read is not touched.
LEMMA UpdateKeeps ==
  ASSUME CognitiveInv, NEW t, StateInv(t), UpdateCognitiveState(t), Len(cog.log) <= Len(t.log)
  PROVE  CognitiveInv'
<1>1. cog' = t /\ StateInv(cog')
  BY DEF UpdateCognitiveState
<1>2. CASE repair = NoRepair
  BY <1>1, <1>2 DEF UpdateCognitiveState, CognitiveInv
<1>3. CASE repair # NoRepair
  <2>1. /\ repair \in [root : Items \cup Views, original : TaskStates, updates : Nat]
        /\ StateInv(repair.original) /\ repair.root \in repair.original.items \cup Views
        /\ Len(repair.original.log) <= Len(cog.log)
    BY <1>3 DEF CognitiveInv
  <2>2. repair' = [repair EXCEPT !.updates = @ + 1]
    BY <1>3 DEF UpdateCognitiveState
  <2>3. repair' \in [root : Items \cup Views, original : TaskStates, updates : Nat]
        /\ repair'.original = repair.original /\ repair'.root = repair.root
    BY <2>1, <2>2
  <2>4. Len(repair.original.log) <= Len(cog'.log)
    <3>1. Len(repair.original.log) \in Nat /\ Len(cog.log) \in Nat /\ Len(t.log) \in Nat
      BY <1>3 DEF CognitiveInv, StateInv, TaskStates
    <3> QED BY <1>1, <2>1, <3>1
  <2> QED BY <1>1, <2>1, <2>3, <2>4 DEF CognitiveInv
<1> QED BY <1>2, <1>3

\* The length of a log is a number.
LEMMA LogLength ==
  ASSUME NEW s, StateInv(s)
  PROVE  Len(s.log) \in Nat /\ Len(s.log) <= Len(s.log)
BY DEF StateInv, TaskStates

\* with_epistemic_item: nothing in the state speaks of a claim that is new.
LEMMA ItemKeeps ==
  ASSUME CognitiveInv, NEW i \in Items, NEW deps \in DependencyChoices, WithEpistemicItem(i, deps)
  PROVE  CognitiveInv'
<1> DEFINE t == [cog EXCEPT !.items = @ \cup {i}, !.depends[i] = deps]
<1>1. StateInv(cog) /\ cog \in TaskStates /\ Grounded(cog) /\ deps \in SUBSET Items
  BY ChoicesAssumption DEF CognitiveInv, StateInv
<1>2. t \in TaskStates
  BY <1>1 DEF TaskStates
<1>3. /\ t.items = cog.items \cup {i} /\ t.relations = cog.relations /\ t.invalid = cog.invalid
      /\ t.history = cog.history /\ t.marked = cog.marked /\ t.log = cog.log
      /\ t.views = cog.views /\ t.registered = cog.registered
  BY <1>1 DEF TaskStates
<1>4. UpdateCognitiveState(t)
  BY DEF WithEpistemicItem
<1> HIDE DEF t
<1>5. IsFiniteSet(t.items) /\ t.relations \subseteq t.items \X t.items
  BY <1>1, <1>3, FS_AddElement DEF Grounded
<1>6. StateInv(t)
  BY <1>1, <1>2, <1>3, <1>5, AppendingKeeps
<1> QED BY <1>1, <1>3, <1>4, <1>6, LogLength, UpdateKeeps

\* Notes, and the life cycle of actions: no claim is concerned.
LEMMA AsideKeeps ==
  ASSUME CognitiveInv, NEW t \in TaskStates, UpdateCognitiveState(t),
         t.items = cog.items, t.relations = cog.relations, t.invalid = cog.invalid,
         t.history = cog.history, t.marked = cog.marked, t.log = cog.log,
         t.views = cog.views, t.registered = cog.registered
  PROVE  CognitiveInv'
<1>1. StateInv(cog) /\ Grounded(cog)
  BY DEF CognitiveInv, StateInv
<1>2. IsFiniteSet(t.items) /\ t.relations \subseteq t.items \X t.items
  BY <1>1 DEF Grounded
<1>3. StateInv(t)
  BY <1>1, <1>2, AppendingKeeps
<1> QED BY <1>1, <1>3, LogLength, UpdateKeeps

\* with_evidence and with_hypothesis.
LEMMA NoteKeeps ==
  ASSUME CognitiveInv, NEW n \in Notes, WithNote(n)
  PROVE  CognitiveInv'
<1> DEFINE t == [cog EXCEPT !.notes = @ \cup {n}]
<1>1. cog \in TaskStates
  BY DEF CognitiveInv, StateInv
<1>2. t \in TaskStates
  BY <1>1 DEF TaskStates
<1>3. /\ t.items = cog.items /\ t.relations = cog.relations /\ t.invalid = cog.invalid
      /\ t.history = cog.history /\ t.marked = cog.marked /\ t.log = cog.log
      /\ t.views = cog.views /\ t.registered = cog.registered
  BY <1>1 DEF TaskStates
<1>4. UpdateCognitiveState(t)
  BY DEF WithNote
<1> HIDE DEF t
<1> QED BY <1>2, <1>3, <1>4, AsideKeeps

\* with_relation: between claims the state has.
LEMMA RelationKeeps ==
  ASSUME CognitiveInv, NEW r \in RelationChoices, WithRelation(r)
  PROVE  CognitiveInv'
<1> DEFINE t == [cog EXCEPT !.relations = @ \cup {r}]
<1>1. StateInv(cog) /\ cog \in TaskStates /\ Grounded(cog) /\ r \in Items \X Items
  BY ChoicesAssumption DEF CognitiveInv, StateInv
<1>2. t \in TaskStates
  BY <1>1 DEF TaskStates
<1>3. /\ t.items = cog.items /\ t.relations = cog.relations \cup {r} /\ t.invalid = cog.invalid
      /\ t.history = cog.history /\ t.marked = cog.marked /\ t.log = cog.log
      /\ t.views = cog.views /\ t.registered = cog.registered
  BY <1>1 DEF TaskStates
<1>4. UpdateCognitiveState(t) /\ {r[1], r[2]} \subseteq cog.items
  BY DEF WithRelation
<1> HIDE DEF t
<1>5. r \in t.items \X t.items
  BY <1>1, <1>3, <1>4
<1>6. IsFiniteSet(t.items) /\ t.relations \subseteq t.items \X t.items
  BY <1>1, <1>3, <1>5 DEF Grounded
<1>7. StateInv(t)
  BY <1>1, <1>2, <1>3, <1>6, AppendingKeeps
<1> QED BY <1>1, <1>3, <1>4, <1>7, LogLength, UpdateKeeps

\* with_materialized_view: the view is as old as the log is long.
LEMMA ViewKeeps ==
  ASSUME CognitiveInv, NEW v \in Views, NEW deps \in ViewChoices, WithMaterializedView(v, deps)
  PROVE  CognitiveInv'
<1> DEFINE t == [cog EXCEPT !.views[v] = deps, !.registered[v] = Len(cog.log)]
<1>1. /\ StateInv(cog) /\ cog \in TaskStates /\ Grounded(cog)
      /\ deps \in SUBSET Items /\ deps # NoView /\ Len(cog.log) \in Nat
  BY ChoicesAssumption DEF CognitiveInv, StateInv, TaskStates
<1>2. t \in TaskStates
  BY <1>1 DEF TaskStates
<1>3. /\ t.items = cog.items /\ t.relations = cog.relations /\ t.invalid = cog.invalid
      /\ t.history = cog.history /\ t.marked = cog.marked /\ t.log = cog.log
      /\ t.views = [cog.views EXCEPT ![v] = deps]
      /\ t.registered = [cog.registered EXCEPT ![v] = Len(cog.log)]
  BY <1>1 DEF TaskStates
<1>4. UpdateCognitiveState(t) /\ deps \subseteq cog.items
  BY DEF WithMaterializedView
<1>5. cog.views \in [Views -> {NoView} \cup SUBSET Items] /\ cog.registered \in [Views -> Nat]
  BY <1>1 DEF TaskStates
<1> HIDE DEF t
<1>6. \A w \in Views : \/ t.views[w] = cog.views[w] /\ t.registered[w] = cog.registered[w]
                       \/ /\ t.views[w] # NoView /\ t.views[w] \subseteq t.items
                          /\ t.registered[w] = Len(cog.log)
  BY <1>1, <1>3, <1>4, <1>5
<1>7. IsFiniteSet(t.items) /\ t.relations \subseteq t.items \X t.items
  BY <1>1, <1>3 DEF Grounded
<1>8. StateInv(t)
  BY <1>1, <1>2, <1>3, <1>6, <1>7, AppendingKeeps
<1> QED BY <1>1, <1>3, <1>4, <1>8, LogLength, UpdateKeeps

\* What validate_action_transition allows are states of an action.
LEMMA AllowedTyped ==
  ASSUME NEW current \in ActionStates, NEW next \in Allowed(current)
  PROVE  next \in ActionStates
<1>1. CASE current = "none" \/ current \in AlternativeTerminals \cup {"CLOSED"}
  <2>1. next = "PROPOSED" /\ ActionSequence[1] = "PROPOSED"
    BY <1>1 DEF Allowed, ActionSequence, AlternativeTerminals
  <2> QED BY <2>1 DEF ActionStates
<1>2. CASE current # "none" /\ current \notin AlternativeTerminals \cup {"CLOSED"}
  <2> DEFINE n == CHOOSE n \in 1 .. 10 : ActionSequence[n] = current
  <2>1. \E k \in 1 .. 10 : ActionSequence[k] = current
    BY <1>2 DEF ActionStates
  <2>2. n \in 1 .. 10 /\ ActionSequence[n] = current
    BY <2>1
  <2>3. next \in {ActionSequence[n + 1]} \cup AlternativeTerminals
    BY <1>2 DEF Allowed
  <2> HIDE DEF n
  <2>4. ActionSequence[10] = "CLOSED"
    BY DEF ActionSequence
  <2>5. n + 1 \in 1 .. 10
    BY <1>2, <2>2, <2>4
  <2> QED BY <2>3, <2>5 DEF ActionStates
<1> QED BY <1>1, <1>2

\* Moving an action on, one transition or up to AUTHORIZED.
LEMMA LifecycleKeeps ==
  ASSUME CognitiveInv, NEW x \in Actions, NEW next \in ActionStates,
         UpdateCognitiveState([cog EXCEPT !.actions[x] = next])
  PROVE  CognitiveInv'
<1> DEFINE t == [cog EXCEPT !.actions[x] = next]
<1>1. cog \in TaskStates
  BY DEF CognitiveInv, StateInv
<1>2. t \in TaskStates
  BY <1>1 DEF TaskStates
<1>3. /\ t.items = cog.items /\ t.relations = cog.relations /\ t.invalid = cog.invalid
      /\ t.history = cog.history /\ t.marked = cog.marked /\ t.log = cog.log
      /\ t.views = cog.views /\ t.registered = cog.registered
  BY <1>1 DEF TaskStates
<1>4. UpdateCognitiveState(t)
  OBVIOUS
<1> HIDE DEF t
<1> QED BY <1>2, <1>3, <1>4, AsideKeeps

\* invalidate_from.
LEMMA InvalidateKeeps ==
  ASSUME CognitiveInv, NEW root \in Items, InvalidateFrom(root)
  PROVE  CognitiveInv'
<1> DEFINE affected == InvalidatedBy(root)
           e == Event("invalidation", root, affected)
           hit == {v \in Views : cog.views[v] # NoView /\ cog.views[v] \cap affected # {}}
           t == [cog EXCEPT !.invalid = @ \cup affected, !.marked = @ \cup hit, !.log = Append(@, e)]
<1>1. StateInv(cog) /\ cog \in TaskStates /\ root \in cog.items /\ Len(cog.log) < MaxEvents
  BY DEF CognitiveInv, StateInv, InvalidateFrom
<1>2. affected \in SUBSET cog.items
  BY <1>1, InvalidatedTyped
<1>3. UpdateCognitiveState(t)
  BY DEF InvalidateFrom
<1> HIDE DEF affected
<1>4. affected \in SUBSET Items
  BY <1>1, <1>2 DEF TaskStates
<1>5. e \in TaskEvent /\ e.kind = "invalidation" /\ e.affected = affected
  BY <1>4 DEF Event, TaskEvent
<1> HIDE DEF e
<1>6. hit \in SUBSET Views
  OBVIOUS
<1>7. t \in TaskStates
  <2> HIDE DEF hit
  <2>1. Append(cog.log, e) \in Seq(TaskEvent)
    BY <1>1, <1>5 DEF TaskStates
  <2> QED BY <1>1, <1>4, <1>6, <2>1 DEF TaskStates
<1>8. /\ t.items = cog.items /\ t.relations = cog.relations /\ t.invalid = cog.invalid \cup affected
      /\ t.history = cog.history /\ t.log = Append(cog.log, e) /\ t.marked = cog.marked \cup hit
      /\ t.views = cog.views /\ t.registered = cog.registered
  BY <1>1 DEF TaskStates
<1> HIDE DEF t
<1>9. StateInv(t)
  BY <1>1, <1>2, <1>5, <1>7, <1>8, InvalidationKeeps
<1>10. Len(cog.log) <= Len(t.log)
  BY <1>1, <1>5, <1>7, <1>8, LogGrows
<1> QED BY <1>3, <1>9, <1>10, UpdateKeeps

\* A repair starts from the state as it is.
LEMMA BeginKeeps ==
  ASSUME CognitiveInv, NEW root \in Items \cup Views, BeginRepair(root)
  PROVE  CognitiveInv'
<1>1. StateInv(cog) /\ cog \in TaskStates /\ cog' = cog
  BY DEF CognitiveInv, StateInv, BeginRepair
<1>2. repair' = [root |-> root, original |-> cog, updates |-> 0]
      /\ root \in cog.items \cup {v \in Views : cog.views[v] # NoView}
  BY DEF BeginRepair
<1>3. /\ repair' \in [root : Items \cup Views, original : TaskStates, updates : Nat]
      /\ repair'.original = cog /\ repair'.root = root
  BY <1>1, <1>2
<1>4. root \in cog.items \cup Views
  BY <1>2
<1> QED BY <1>1, <1>3, <1>4, LogLength DEF CognitiveInv

\* The restored snapshot was a good state.
LEMMA FailKeeps ==
  ASSUME CognitiveInv, FailRepair
  PROVE  CognitiveInv'
BY DEF CognitiveInv, FailRepair

\* What recompute returns for the claims of the cut is what claims may rest on.
LEMMA RecomputationsTyped ==
  ASSUME CognitiveInv, repair # NoRepair, NEW depends \in Recomputations
  PROVE  depends \in [Items -> SUBSET Items]
<1>1. repair.original.depends \in [Items -> SUBSET Items]
  BY DEF CognitiveInv, TaskStates
<1>2. DependencyChoices \subseteq SUBSET Items
  BY ChoicesAssumption
<1>3. CASE depends = repair.original.depends
  BY <1>1, <1>3
<1>4. CASE depends # repair.original.depends
  <2>1. PICK i \in Items, d \in DependencyChoices :
          depends = [repair.original.depends EXCEPT ![i] = d]
    BY <1>4 DEF Recomputations
  <2> QED BY <1>1, <1>2, <2>1
<1> QED BY <1>3, <1>4

\* execute_localized_repair, when it succeeds.
LEMMA FinishKeeps ==
  ASSUME CognitiveInv, NEW depends \in Recomputations, FinishRepair(depends)
  PROVE  CognitiveInv'
<1> DEFINE s == repair.original
           cut == Cut(s, repair.root)
           e == Event("repair", repair.root, cut)
           t == [s EXCEPT !.depends = depends, !.invalid = @ \ cut,
                          !.history = [i \in Items |-> IF i \in cut THEN @[i] + 1 ELSE @[i]],
                          !.marked = @ \ cut, !.log = Append(@, e)]
<1>1. /\ repair # NoRepair /\ Len(s.log) < MaxEvents /\ repair' = NoRepair /\ cog' = t
  BY DEF FinishRepair, Repaired
<1>2. s \in TaskStates /\ StateInv(s) /\ repair.root \in s.items \cup Views /\ repair.root \in Items \cup Views
  BY <1>1 DEF CognitiveInv
<1>3. depends \in [Items -> SUBSET Items]
  BY <1>1, RecomputationsTyped
<1> HIDE DEF s
<1>4. cut \in SUBSET (Items \cup Views)
  BY <1>2, CutTyped
<1>5. e \in TaskEvent /\ e.kind = "repair" /\ e.affected = cut
  <2> HIDE DEF cut
  <2> QED BY <1>2, <1>4 DEF Event, TaskEvent
<1> HIDE DEF cut, e
<1>6. [i \in Items |-> IF i \in cut THEN s.history[i] + 1 ELSE s.history[i]] \in [Items -> Nat]
  BY <1>2 DEF TaskStates
<1>7. t \in TaskStates
  <2>1. Append(s.log, e) \in Seq(TaskEvent)
    BY <1>2, <1>5 DEF TaskStates
  <2> QED BY <1>2, <1>3, <1>6, <2>1 DEF TaskStates
<1>8. /\ t.items = s.items /\ t.relations = s.relations /\ t.views = s.views /\ t.registered = s.registered
      /\ t.invalid = s.invalid \ cut /\ t.marked = s.marked \ cut /\ t.log = Append(s.log, e)
      /\ t.history = [i \in Items |-> IF i \in cut THEN s.history[i] + 1 ELSE s.history[i]]
  BY <1>2 DEF TaskStates
<1> HIDE DEF t
<1>9. StateInv(t)
  BY <1>1, <1>2, <1>4, <1>5, <1>7, <1>8, RepairKeeps
<1> QED BY <1>1, <1>9 DEF CognitiveInv

\* Every step of the task, or of a repair in it.
LEMMA CognitiveStep == CognitiveInv /\ [CognitiveNext]_cognitiveVars => CognitiveInv'
<1> SUFFICES ASSUME CognitiveInv, [CognitiveNext]_cognitiveVars PROVE CognitiveInv'
  OBVIOUS
<1>1. ASSUME NEW i \in Items, NEW deps \in DependencyChoices, WithEpistemicItem(i, deps) PROVE CognitiveInv'
  BY <1>1, ItemKeeps
<1>2. ASSUME NEW n \in Notes, WithNote(n) PROVE CognitiveInv'
  BY <1>2, NoteKeeps
<1>3. ASSUME NEW r \in RelationChoices, WithRelation(r) PROVE CognitiveInv'
  BY <1>3, RelationKeeps
<1>4. ASSUME NEW v \in Views, NEW deps \in ViewChoices, WithMaterializedView(v, deps) PROVE CognitiveInv'
  BY <1>4, ViewKeeps
<1>5. ASSUME NEW x \in Actions, NEW next, WithActionTransition(x, next) PROVE CognitiveInv'
  <2>1. cog.actions[x] \in ActionStates
    BY DEF CognitiveInv, StateInv, TaskStates
  <2>2. next \in ActionStates
    BY <1>5, <2>1, AllowedTyped DEF WithActionTransition
  <2> QED BY <1>5, <2>2, LifecycleKeeps DEF WithActionTransition
<1>6. ASSUME NEW x \in Actions, AuthorizeLifecycle(x) PROVE CognitiveInv'
  <2>1. "AUTHORIZED" \in ActionStates
    <3>1. ActionSequence[4] = "AUTHORIZED"
      BY DEF ActionSequence
    <3> QED BY <3>1 DEF ActionStates
  <2> QED BY <1>6, <2>1, LifecycleKeeps DEF AuthorizeLifecycle
<1>7. ASSUME NEW root \in Items, InvalidateFrom(root) PROVE CognitiveInv'
  BY <1>7, InvalidateKeeps
<1>8. ASSUME NEW root \in Items \cup Views, BeginRepair(root) PROVE CognitiveInv'
  BY <1>8, BeginKeeps
<1>9. ASSUME NEW depends \in Recomputations, FinishRepair(depends) PROVE CognitiveInv'
  BY <1>9, FinishKeeps
<1>10. ASSUME FailRepair PROVE CognitiveInv'
  BY <1>10, FailKeeps
<1>11. CASE UNCHANGED cognitiveVars
  BY <1>11 DEF cognitiveVars, CognitiveInv
<1> QED BY <1>1, <1>2, <1>3, <1>4, <1>5, <1>6, <1>7, <1>8, <1>9, <1>10, <1>11 DEF CognitiveNext

\* The rounds grow within S, so after as many rounds as S has members none adds anything.
LEMMA DependentsClosed ==
  ASSUME NEW S, IsFiniteSet(S), NEW root \in S, NEW rests \in SUBSET (S \X S)
  PROVE  /\ root \in Dependents(root, rests, Cardinality(S))
         /\ \A p \in rests : p[2] \in Dependents(root, rests, Cardinality(S)) =>
              p[1] \in Dependents(root, rests, Cardinality(S))
<1> DEFINE N == Cardinality(S)
<1>1. N \in Nat
  BY FS_CardinalityType
<1> HIDE DEF N
<1>2. PICK f : Spreads(f, root, rests, S, N) /\ Dependents(root, rests, N) = f[N]
  BY <1>1, DependentsRounds
<1>3. /\ f \in [0 .. N -> SUBSET S] /\ f[0] = {root}
      /\ \A n \in 1 .. N : f[n] = Widened(f[n - 1], rests) /\ f[n - 1] \subseteq f[n]
  BY <1>2 DEF Spreads, Widened
<1>4. \A n \in 0 .. N : IsFiniteSet(f[n]) /\ Cardinality(f[n]) \in Nat /\ Cardinality(f[n]) <= N
  <2>1. \A n \in 0 .. N : f[n] \in SUBSET S
    BY <1>3
  <2> QED BY <2>1, FS_Subset, FS_CardinalityType DEF N
<1>5. PICK n \in 1 .. N : f[n] = f[n - 1]
  <2> SUFFICES ASSUME \A n \in 1 .. N : f[n] # f[n - 1] PROVE FALSE
    OBVIOUS
  <2> DEFINE bad == {n \in 0 .. N : ~(Cardinality(f[n]) >= n + 1)}
  <2>1. bad \in SUBSET Nat /\ N \in bad
    BY <1>1, <1>4
  <2>2. PICK m \in bad : \A y \in bad : m <= y
    <3> HIDE DEF bad
    <3>1. bad # {}
      BY <2>1
    <3> QED BY <2>1, <3>1, NatLeast
  <2>3. m # 0
    <3>1. Cardinality(f[0]) = 1
      BY <1>3, FS_Singleton
    <3> QED BY <2>2, <3>1
  <2>4. m \in 1 .. N /\ m - 1 \in 0 .. N /\ m - 1 \notin bad
    BY <1>1, <2>2, <2>3
  <2>5. Cardinality(f[m - 1]) >= m
    BY <1>1, <2>4
  <2>6. Cardinality(f[m - 1]) < Cardinality(f[m])
    <3>1. f[m - 1] \subseteq f[m] /\ f[m - 1] # f[m]
      BY <1>3, <2>4
    <3>2. IsFiniteSet(f[m])
      BY <1>1, <1>4, <2>4
    <3>3. Cardinality(f[m - 1]) \in Nat /\ Cardinality(f[m]) \in Nat
      BY <1>1, <1>4, <2>4
    <3>4. /\ Cardinality(f[m - 1]) <= Cardinality(f[m])
          /\ Cardinality(f[m]) = Cardinality(f[m - 1]) => f[m] = f[m - 1]
      BY <3>1, <3>2, FS_Subset
    <3> QED BY <3>1, <3>3, <3>4
  <2>7. ~(Cardinality(f[m]) >= m + 1) /\ Cardinality(f[m]) \in Nat /\ Cardinality(f[m - 1]) \in Nat
    BY <1>1, <1>4, <2>2, <2>4
  <2> QED BY <2>4, <2>5, <2>6, <2>7
<1>6. Widened(f[n - 1], rests) = f[n - 1] /\ n - 1 \in 0 .. N
  BY <1>1, <1>3, <1>5
<1>7. f[N] = f[n - 1]
  <2> SUFFICES ASSUME f[N] # f[n - 1] PROVE FALSE
    OBVIOUS
  <2> DEFINE bad == {m \in n - 1 .. N : f[m] # f[n - 1]}
  <2>1. bad \in SUBSET Nat /\ N \in bad
    BY <1>1, <1>5
  <2>2. PICK m \in bad : \A y \in bad : m <= y
    <3> HIDE DEF bad
    <3>1. bad # {}
      BY <2>1
    <3> QED BY <2>1, <3>1, NatLeast
  <2>3. m # n - 1 /\ m \in n .. N /\ m - 1 \in n - 1 .. N
    BY <1>1, <1>5, <2>2
  <2>4. m - 1 \notin bad
    BY <2>2, <2>3
  <2>5. f[m - 1] = f[n - 1]
    BY <2>3, <2>4
  <2>6. f[m] = Widened(f[m - 1], rests)
    BY <1>3, <1>5, <2>3
  <2> QED BY <1>6, <2>2, <2>5, <2>6
<1>8. Widened(f[N], rests) = f[N]
  BY <1>6, <1>7
<1>9. root \in f[N]
  <2> SUFFICES ASSUME root \notin f[N] PROVE FALSE
    OBVIOUS
  <2> DEFINE bad == {m \in 0 .. N : root \notin f[m]}
  <2>1. bad \in SUBSET Nat /\ N \in bad
    BY <1>1
  <2>2. PICK m \in bad : \A y \in bad : m <= y
    <3> HIDE DEF bad
    <3>1. bad # {}
      BY <2>1
    <3> QED BY <2>1, <3>1, NatLeast
  <2>3. m # 0
    BY <1>3, <2>2
  <2>4. m \in 1 .. N /\ m - 1 \in 0 .. N /\ m - 1 \notin bad
    BY <1>1, <2>2, <2>3
  <2> QED BY <1>3, <2>2, <2>4
<1>10. \A p \in rests : p[2] \in f[N] => p[1] \in f[N]
  BY <1>8 DEF Widened
<1> QED BY <1>2, <1>9, <1>10 DEF N

\* The rounds stay within every set that has the root and whatever depends on its members.
LEMMA DependentsLeast ==
  ASSUME NEW S, NEW root \in S, NEW rests \in SUBSET (S \X S), NEW N \in Nat,
         NEW X, root \in X, \A p \in rests : p[2] \in X => p[1] \in X
  PROVE  Dependents(root, rests, N) \subseteq X
<1>1. PICK f : Spreads(f, root, rests, S, N) /\ Dependents(root, rests, N) = f[N]
  BY DependentsRounds
<1> SUFFICES ASSUME ~(f[N] \subseteq X) PROVE FALSE
  BY <1>1
<1> DEFINE bad == {m \in 0 .. N : ~(f[m] \subseteq X)}
<1>2. bad \in SUBSET Nat /\ N \in bad
  OBVIOUS
<1>3. PICK m \in bad : \A y \in bad : m <= y
  <2> HIDE DEF bad
  <2>1. bad # {}
    BY <1>2
  <2> QED BY <1>2, <2>1, NatLeast
<1>4. m # 0
  BY <1>1, <1>3 DEF Spreads
<1>5. m \in 1 .. N /\ m - 1 \in 0 .. N /\ m - 1 \notin bad
  BY <1>3, <1>4
<1>6. f[m - 1] \subseteq X
  BY <1>5
<1>7. f[m] = Widened(f[m - 1], rests)
  BY <1>1, <1>5 DEF Spreads
<1> QED BY <1>3, <1>6, <1>7 DEF Widened

\* invalidate_from reaches just what rests on the root.
LEMMA AffectedRests ==
  ASSUME StateInv(cog), NEW root \in cog.items, NEW i \in cog.items
  PROVE  i \in InvalidatedBy(root) <=> RestsOn(cog, i, root)
<1> DEFINE A == InvalidatedBy(root)
<1>1. IsFiniteSet(cog.items) /\ Dependencies(cog) \in SUBSET (cog.items \X cog.items)
      /\ Cardinality(cog.items) \in Nat
  BY FS_CardinalityType DEF StateInv, Grounded, Dependencies, Declared
<1>2. A \in SUBSET cog.items
  BY InvalidatedTyped
<1>3. root \in A /\ \A p \in Dependencies(cog) : p[2] \in A => p[1] \in A
  BY <1>1, DependentsClosed DEF InvalidatedBy
<1>4. ASSUME i \in A, NEW S \in SUBSET cog.items, root \in S,
             \A p \in Dependencies(cog) : p[2] \in S => p[1] \in S
      PROVE  i \in S
  <2>1. Dependents(root, Dependencies(cog), Cardinality(cog.items)) \subseteq S
    BY <1>1, <1>4, DependentsLeast
  <2> QED BY <1>4, <2>1 DEF InvalidatedBy
<1> HIDE DEF A
<1>5. i \in A => RestsOn(cog, i, root)
  BY <1>4 DEF RestsOn
<1>6. RestsOn(cog, i, root) => i \in A
  BY <1>2, <1>3 DEF RestsOn
<1> QED BY <1>5, <1>6 DEF A

\* The step of InvalidationReaches.
Reaches ==
  Len(cog'.log) > Len(cog.log) =>
    LET e == cog'.log[Len(cog'.log)]
    IN  e.kind = "invalidation" =>
          \A i \in cog.items : i \in e.affected <=> RestsOn(cog, i, e.root)

\* Updates that leave the log as it is.
LEMMA QuietReaches ==
  ASSUME CognitiveInv, cog'.log = cog.log
  PROVE  Reaches
<1>1. Len(cog.log) \in Nat
  BY DEF CognitiveInv, StateInv, TaskStates
<1> QED BY <1>1 DEF Reaches

\* What the appended event says is what invalidate_from found.
LEMMA InvalidateReaches ==
  ASSUME CognitiveInv, NEW root \in Items, InvalidateFrom(root)
  PROVE  Reaches
<1> DEFINE affected == InvalidatedBy(root)
           e == Event("invalidation", root, affected)
           hit == {v \in Views : cog.views[v] # NoView /\ cog.views[v] \cap affected # {}}
<1>1. StateInv(cog) /\ cog \in TaskStates /\ root \in cog.items /\ cog.log \in Seq(TaskEvent)
  BY DEF CognitiveInv, StateInv, InvalidateFrom, TaskStates
<1>2. affected \in SUBSET Items
  BY <1>1, InvalidatedTyped DEF TaskStates
<1>3. cog' = [cog EXCEPT !.invalid = @ \cup affected, !.marked = @ \cup hit, !.log = Append(@, e)]
  BY DEF InvalidateFrom, UpdateCognitiveState
<1> HIDE DEF affected
<1>4. e \in TaskEvent /\ e.root = root /\ e.affected = affected
  BY <1>2 DEF Event, TaskEvent
<1> HIDE DEF e, hit
<1>5. cog'.log = Append(cog.log, e)
  BY <1>1, <1>3 DEF TaskStates
<1>6. cog'.log[Len(cog'.log)] = e
  BY <1>1, <1>4, <1>5
<1>7. \A i \in cog.items : i \in affected <=> RestsOn(cog, i, root)
  BY <1>1, AffectedRests DEF affected
<1> QED BY <1>4, <1>6, <1>7 DEF Reaches

\* A repair that ends the log ends it with a repair.
LEMMA FinishReaches ==
  ASSUME CognitiveInv, NEW depends \in Recomputations, FinishRepair(depends)
  PROVE  Reaches
<1> DEFINE s == repair.original
           cut == Cut(s, repair.root)
           e == Event("repair", repair.root, cut)
<1>1. /\ repair # NoRepair
      /\ cog' = [s EXCEPT !.depends = depends, !.invalid = @ \ cut,
                          !.history = [i \in Items |-> IF i \in cut THEN @[i] + 1 ELSE @[i]],
                          !.marked = @ \ cut, !.log = Append(@, e)]
  BY DEF FinishRepair, Repaired
<1>2. s \in TaskStates /\ StateInv(s) /\ s.log \in Seq(TaskEvent)
      /\ repair.root \in s.items \cup Views /\ repair.root \in Items \cup Views
  BY <1>1 DEF CognitiveInv, TaskStates
<1> HIDE DEF s
<1>3. cut \in SUBSET (Items \cup Views)
  BY <1>2, CutTyped
<1> HIDE DEF cut
<1>4. e \in TaskEvent /\ e.kind = "repair"
  BY <1>2, <1>3 DEF Event, TaskEvent
<1> HIDE DEF e
<1>5. cog'.log = Append(s.log, e)
  BY <1>1, <1>2 DEF TaskStates
<1>6. cog'.log[Len(cog'.log)] = e
  BY <1>2, <1>4, <1>5
<1> QED BY <1>4, <1>6 DEF Reaches

\* A repair that fails puts back a log that is no longer.
LEMMA FailReaches ==
  ASSUME CognitiveInv, FailRepair
  PROVE  Reaches
<1>1. Len(repair.original.log) \in Nat /\ Len(cog.log) \in Nat
      /\ Len(repair.original.log) <= Len(cog.log) /\ cog' = repair.original
  BY DEF CognitiveInv, StateInv, TaskStates, FailRepair
<1> QED BY <1>1 DEF Reaches

\* Every step: only invalidate_from ends the log with an invalidation.
LEMMA EveryReaches ==
  ASSUME CognitiveInv, [CognitiveNext]_cognitiveVars
  PROVE  Reaches
<1>0. cog \in TaskStates
  BY DEF CognitiveInv, StateInv
<1>1. ASSUME NEW i \in Items, NEW deps \in DependencyChoices, WithEpistemicItem(i, deps) PROVE Reaches
  <2>1. cog'.log = cog.log
    BY <1>0, <1>1 DEF WithEpistemicItem, UpdateCognitiveState, TaskStates
  <2> QED BY <2>1, QuietReaches
<1>2. ASSUME NEW n \in Notes, WithNote(n) PROVE Reaches
  <2>1. cog'.log = cog.log
    BY <1>0, <1>2 DEF WithNote, UpdateCognitiveState, TaskStates
  <2> QED BY <2>1, QuietReaches
<1>3. ASSUME NEW r \in RelationChoices, WithRelation(r) PROVE Reaches
  <2>1. cog'.log = cog.log
    BY <1>0, <1>3 DEF WithRelation, UpdateCognitiveState, TaskStates
  <2> QED BY <2>1, QuietReaches
<1>4. ASSUME NEW v \in Views, NEW deps \in ViewChoices, WithMaterializedView(v, deps) PROVE Reaches
  <2>1. cog'.log = cog.log
    BY <1>0, <1>4 DEF WithMaterializedView, UpdateCognitiveState, TaskStates
  <2> QED BY <2>1, QuietReaches
<1>5. ASSUME NEW x \in Actions, NEW next, WithActionTransition(x, next) PROVE Reaches
  <2>1. cog'.log = cog.log
    BY <1>0, <1>5 DEF WithActionTransition, UpdateCognitiveState, TaskStates
  <2> QED BY <2>1, QuietReaches
<1>6. ASSUME NEW x \in Actions, AuthorizeLifecycle(x) PROVE Reaches
  <2>1. cog'.log = cog.log
    BY <1>0, <1>6 DEF AuthorizeLifecycle, UpdateCognitiveState, TaskStates
  <2> QED BY <2>1, QuietReaches
<1>7. ASSUME NEW root \in Items \cup Views, BeginRepair(root) PROVE Reaches
  BY <1>7, QuietReaches DEF BeginRepair
<1>8. CASE UNCHANGED cognitiveVars
  BY <1>8, QuietReaches DEF cognitiveVars
<1>9. ASSUME NEW root \in Items, InvalidateFrom(root) PROVE Reaches
  BY <1>9, InvalidateReaches
<1>10. ASSUME NEW depends \in Recomputations, FinishRepair(depends) PROVE Reaches
  BY <1>10, FinishReaches
<1>11. ASSUME FailRepair PROVE Reaches
  BY <1>11, FailReaches
<1> QED BY <1>1, <1>2, <1>3, <1>4, <1>5, <1>6, <1>7, <1>8, <1>9, <1>10, <1>11 DEF CognitiveNext

\* What the runs check follows from the invariant.
LEMMA CognitiveByInvariant ==
  ASSUME CognitiveInv
  PROVE  CognitiveTypeOK /\ StatusExplained /\ ViewsExplained /\ RevisionsKept
<1>1. cog \in TaskStates /\ Grounded(cog) /\ Explained(cog)
  BY DEF CognitiveInv, StateInv
<1>2. CognitiveTypeOK
  <2>1. \A r \in cog.relations : {r[1], r[2]} \subseteq cog.items
    BY <1>1 DEF Grounded
  <2>2. cog.marked \subseteq {v \in Views : cog.views[v] # NoView}
    BY <1>1 DEF Grounded, TaskStates
  <2>3. repair # NoRepair => repair.root \in repair.original.items \cup Views
    BY DEF CognitiveInv
  <2>4. cog.items \subseteq Items /\ cog.depends \in [Items -> SUBSET Items] /\ cog.history \in [Items -> Nat]
        /\ cog.notes \subseteq Notes /\ cog.actions \in [Actions -> ActionStates]
    BY <1>1 DEF TaskStates
  <2>5. cog.invalid \subseteq cog.items /\ Len(cog.log) <= MaxEvents
        /\ \A v \in Views : cog.views[v] # NoView => cog.views[v] \subseteq cog.items
    BY <1>1 DEF Grounded
  <2> QED BY <2>1, <2>2, <2>3, <2>4, <2>5 DEF CognitiveTypeOK
<1> QED BY <1>1, <1>2 DEF Explained, StatusExplained, ViewsExplained, RevisionsKept

\* For every set of claims, views and dependencies, and whatever updates come between a
\* repair's reading of the state and its replacing it: statuses, marks, revisions and the
\* log of the task agree, and an invalidation reaches just what rests on its root
\* (CognitiveState.invalidate_from, execute_localized_repair).
THEOREM StateIsExplained == CognitiveSpec => CognitiveSafety
<1>1. CognitiveInit => CognitiveInv
  BY CognitiveInitial
<1>2. CognitiveInv /\ [CognitiveNext]_cognitiveVars => CognitiveInv'
  BY CognitiveStep
<1>3. CognitiveInv => CognitiveTypeOK /\ StatusExplained /\ ViewsExplained /\ RevisionsKept
  BY CognitiveByInvariant
<1>4. CognitiveInv /\ [CognitiveNext]_cognitiveVars => Reaches
  BY EveryReaches
<1>5. Reaches =>
        (Len(cog'.log) > Len(cog.log) =>
           LET e == cog'.log[Len(cog'.log)]
           IN  e.kind = "invalidation" =>
                 \A i \in cog.items : i \in e.affected <=> RestsOn(cog, i, e.root))
  BY DEF Reaches
<1>6. CognitiveSpec => [][Len(cog'.log) > Len(cog.log) =>
           LET e == cog'.log[Len(cog'.log)]
           IN  e.kind = "invalidation" =>
                 \A i \in cog.items : i \in e.affected <=> RestsOn(cog, i, e.root)]_cognitiveVars
  BY <1>1, <1>2, <1>4, <1>5, PTL DEF CognitiveSpec
<1>7. CognitiveSpec => InvalidationReaches
  BY <1>6 DEF InvalidationReaches
<1> QED BY <1>1, <1>2, <1>3, <1>7, PTL DEF CognitiveSpec, CognitiveSafety

----------------------------------------------------------------------------
(* GovernedMemory *)

\* The store of a service that starts.
LEMMA MemoryInitial == MemoryInit => MemoryInv
  BY DEF MemoryInit, MemoryInv, SourcesCovered

\* A record is stored under an id that was free: its sources, and those of the
\* others, are as they were.
LEMMA StoringKeeps ==
  ASSUME MemoryInv, NEW id \in RecordIds, NEW record \in Record, PutRecord(id, record),
         \A s \in record.provenance :
           /\ Held(s) /\ memoryRecords[s].tenant = record.tenant
           /\ memoryRecords[s].labels \subseteq record.labels
           /\ memoryRecords[s].trust >= record.trust
  PROVE  MemoryInv'
<1>1. /\ memoryRecords \in [RecordIds -> Record \cup {NoRecord}] /\ SourcesCovered(memoryRecords)
      /\ memoryBackup \in [RecordIds -> Record \cup {NoRecord}] /\ SourcesCovered(memoryBackup)
  BY DEF MemoryInv
<1>2. /\ memoryRecords[id] = NoRecord /\ memoryRecords' = [memoryRecords EXCEPT ![id] = record]
      /\ memoryBackup' = memoryBackup
  BY DEF PutRecord, Held
<1>3. memoryRecords' \in [RecordIds -> Record \cup {NoRecord}]
  BY <1>1, <1>2
<1>4. ASSUME NEW i \in RecordIds, memoryRecords'[i] # NoRecord, NEW s \in memoryRecords'[i].provenance
      PROVE  /\ memoryRecords'[s] # NoRecord /\ memoryRecords'[s].tenant = memoryRecords'[i].tenant
             /\ memoryRecords'[s].labels \subseteq memoryRecords'[i].labels
             /\ memoryRecords'[s].trust >= memoryRecords'[i].trust
  <2>1. CASE i = id
    <3>1. memoryRecords'[i] = record /\ s \in RecordIds /\ s # id
      BY <1>1, <1>2, <1>4, <2>1 DEF Record, Held
    <3> QED BY <1>1, <1>2, <1>4, <3>1 DEF Held
  <2>2. CASE i # id
    <3>1. memoryRecords'[i] = memoryRecords[i] /\ memoryRecords[i] \in Record
      BY <1>1, <1>2, <1>4, <2>2
    <3>2. s \in RecordIds /\ memoryRecords[s] # NoRecord
      BY <1>1, <1>4, <3>1 DEF SourcesCovered, Record
    <3>3. memoryRecords'[s] = memoryRecords[s]
      BY <1>1, <1>2, <3>2
    <3> QED BY <1>1, <1>4, <3>1, <3>2, <3>3 DEF SourcesCovered
  <2> QED BY <2>1, <2>2
<1>5. SourcesCovered(memoryRecords')
  BY <1>4 DEF SourcesCovered
<1> QED BY <1>1, <1>2, <1>3, <1>5 DEF MemoryInv

\* A record that comes from outside has no sources.
LEMMA NewRecord ==
  ASSUME NEW tenant \in Tenants, NEW labels \in SUBSET Labels, NEW trust \in Trusts,
         NEW expires \in Horizons \cup {Never}, NEW hold \in BOOLEAN,
         NEW provenance \in SUBSET RecordIds,
         NEW dependencies \in SUBSET (RecordIds \cup Fingerprints)
  PROVE  LET record == MemoryRecord(tenant, labels, trust, expires, hold, provenance, dependencies)
         IN  /\ record \in Record /\ record.provenance = provenance /\ record.tenant = tenant
             /\ record.labels = labels /\ record.trust = trust
  BY DEF MemoryRecord, Record

\* A summary is of its sources' tenant, has all their labels, and the least of their trust.
LEMMA SummaryKeeps ==
  ASSUME MemoryInv, NEW id \in RecordIds, NEW sources \in SUBSET RecordIds, Compress(sources, id)
  PROVE  MemoryInv'
<1> DEFINE owner == memoryRecords[CHOOSE s \in sources : TRUE].tenant
           trusts == {memoryRecords[s].trust : s \in sources}
           record == MemoryRecord(owner, SummaryLabels(sources), Min(trusts), Never, FALSE, sources, sources)
<1>1. /\ sources # {} /\ \A s \in sources : Held(s)
      /\ \A s, t \in sources : memoryRecords[s].tenant = memoryRecords[t].tenant
      /\ PutRecord(id, record)
  BY DEF Compress
<1>2. \A s \in sources : memoryRecords[s] \in Record
  BY <1>1 DEF MemoryInv, Held
<1>3. owner \in Tenants /\ \A s \in sources : memoryRecords[s].tenant = owner
  BY <1>1, <1>2 DEF Record
<1>4. SummaryLabels(sources) \in SUBSET Labels /\ \A s \in sources : memoryRecords[s].labels \subseteq SummaryLabels(sources)
  BY <1>2 DEF SummaryLabels, Record
<1>5. Min(trusts) \in Trusts /\ \A s \in sources : memoryRecords[s].trust >= Min(trusts)
  <2>1. trusts \subseteq Trusts /\ trusts # {} /\ Trusts \subseteq Nat
    BY <1>1, <1>2, MemoryConstants DEF Record
  <2> HIDE DEF trusts
  <2>2. PICK x \in trusts : \A y \in trusts : x <= y
    BY <2>1, NatLeast
  <2>3. Min(trusts) \in trusts /\ \A y \in trusts : Min(trusts) <= y
    BY <2>2 DEF Min
  <2>4. \A s \in sources : memoryRecords[s].trust \in trusts
    BY DEF trusts
  <2> QED BY <2>1, <2>3, <2>4
<1> HIDE DEF owner, trusts
<1>6. record \in Record /\ record.provenance = sources /\ record.tenant = owner
      /\ record.labels = SummaryLabels(sources) /\ record.trust = Min(trusts)
  <2>1. Never \in Horizons \cup {Never} /\ FALSE \in BOOLEAN /\ sources \in SUBSET (RecordIds \cup Fingerprints)
    OBVIOUS
  <2>2. owner \in Tenants /\ SummaryLabels(sources) \in SUBSET Labels /\ Min(trusts) \in Trusts
    BY <1>3, <1>4, <1>5
  <2> HIDE DEF record
  <2>3. record = MemoryRecord(owner, SummaryLabels(sources), Min(trusts), Never, FALSE, sources, sources)
    BY DEF record
  <2> QED BY <2>1, <2>2, <2>3 DEF MemoryRecord, Record
<1> HIDE DEF record
<1>7. \A s \in record.provenance :
        /\ Held(s) /\ memoryRecords[s].tenant = record.tenant
        /\ memoryRecords[s].labels \subseteq record.labels
        /\ memoryRecords[s].trust >= record.trust
  BY <1>1, <1>3, <1>4, <1>5, <1>6
<1>8. PutRecord(id, record)
  BY <1>1
<1> QED BY <1>6, <1>7, <1>8, StoringKeeps

\* A tombstone keeps everything but the content.
LEMMA TombstonesKeep ==
  ASSUME MemoryInv, memoryBackup' = memoryBackup, NEW D \in SUBSET RecordIds,
         \A id \in D : memoryRecords[id] # NoRecord,
         memoryRecords' = [id \in RecordIds |-> IF id \in D THEN [memoryRecords[id] EXCEPT !.deleted = TRUE]
                                                ELSE memoryRecords[id]]
  PROVE  MemoryInv'
<1>1. memoryRecords \in [RecordIds -> Record \cup {NoRecord}] /\ SourcesCovered(memoryRecords)
  BY DEF MemoryInv
<1>2. ASSUME NEW r \in Record
      PROVE  LET t == [r EXCEPT !.deleted = TRUE]
             IN  /\ t \in Record /\ t.tenant = r.tenant /\ t.labels = r.labels /\ t.trust = r.trust
                 /\ t.provenance = r.provenance
  BY DEF Record
<1>3. /\ memoryRecords' \in [RecordIds -> Record \cup {NoRecord}]
      /\ \A id \in RecordIds : memoryRecords'[id] = NoRecord <=> memoryRecords[id] = NoRecord
  BY <1>1, <1>2, MemoryConstants
<1>4. \A id \in RecordIds : memoryRecords[id] # NoRecord =>
         /\ memoryRecords'[id].tenant = memoryRecords[id].tenant
         /\ memoryRecords'[id].labels = memoryRecords[id].labels
         /\ memoryRecords'[id].trust = memoryRecords[id].trust
         /\ memoryRecords'[id].provenance = memoryRecords[id].provenance
  BY <1>1, <1>2
<1>5. \A id \in RecordIds : memoryRecords[id] # NoRecord => memoryRecords[id].provenance \subseteq RecordIds
  BY <1>1 DEF Record
<1>6. SourcesCovered(memoryRecords')
  BY <1>1, <1>3, <1>4, <1>5 DEF SourcesCovered
<1> QED BY <1>3, <1>6 DEF MemoryInv

\* Every step of the store.
LEMMA MemoryStep == MemoryInv /\ [MemoryNext]_memoryVars => MemoryInv'
<1> SUFFICES ASSUME MemoryInv, [MemoryNext]_memoryVars PROVE MemoryInv'
  OBVIOUS
<1>1. CASE UNCHANGED <<memoryRecords, memoryBackup>>
  BY <1>1 DEF MemoryInv
<1>2. ASSUME NEW id \in RecordIds, NEW tenant \in Tenants, NEW labels \in SUBSET Labels, NEW trust \in Trusts,
             NEW expires \in Horizons, NEW hold \in Holds, NEW dependencies \in SUBSET Fingerprints,
             PutRecord(id, MemoryRecord(tenant, labels, trust, expires, hold, {}, dependencies))
      PROVE  MemoryInv'
  <2> DEFINE record == MemoryRecord(tenant, labels, trust, expires, hold, {}, dependencies)
  <2>1. record \in Record /\ record.provenance = {}
    BY NewRecord, MemoryConstants
  <2> HIDE DEF record
  <2>2. PutRecord(id, record)
    BY <1>2 DEF record
  <2> QED BY <2>1, <2>2, StoringKeeps
<1>3. ASSUME NEW id \in RecordIds, NEW tenant \in Tenants, DeleteRecord(id, tenant)
      PROVE  MemoryInv'
  <2>1. /\ memoryRecords[id] # NoRecord /\ memoryRecords' = [memoryRecords EXCEPT ![id].deleted = TRUE]
        /\ memoryBackup' = memoryBackup
    BY <1>3 DEF DeleteRecord, Owned, Held
  <2>2. memoryRecords' = [i \in RecordIds |-> IF i \in {id} THEN [memoryRecords[i] EXCEPT !.deleted = TRUE]
                                              ELSE memoryRecords[i]]
    BY <2>1 DEF MemoryInv
  <2> QED BY <2>1, <2>2, TombstonesKeep
<1>4. ASSUME NEW changed, InvalidateDependencies(changed)
      PROVE  MemoryInv'
  <2> DEFINE D == {id \in RecordIds : Held(id) /\ memoryRecords[id].dependencies \cap changed # {}}
  <2>1. /\ memoryRecords' = [i \in RecordIds |-> IF i \in D THEN [memoryRecords[i] EXCEPT !.deleted = TRUE]
                                                 ELSE memoryRecords[i]]
        /\ memoryBackup' = memoryBackup /\ \A i \in D : memoryRecords[i] # NoRecord
    BY <1>4 DEF InvalidateDependencies, Held
  <2> HIDE DEF D
  <2>2. D \in SUBSET RecordIds
    BY DEF D
  <2> QED BY <2>1, <2>2, TombstonesKeep
<1>5. CASE BackUpMemory \/ RestoreMemory
  BY <1>5 DEF BackUpMemory, RestoreMemory, MemoryInv
<1>6. CASE MemoryTick
  BY <1>1, <1>6 DEF MemoryTick
<1> QED BY <1>1, <1>2, <1>3, <1>4, <1>5, <1>6, SummaryKeeps DEF MemoryNext, memoryVars

\* The records a query could see are a set that has the sources of each of them.
LEMMA SummariesByInvariant == MemoryInv => SummariesTellNoMore
<1> SUFFICES ASSUME MemoryInv, NEW tenant \in Tenants, NEW allowed \in SUBSET Labels, NEW minimum \in Trusts,
                    NEW id \in Retrieve(tenant, allowed, minimum), NEW s \in Sources(id)
             PROVE  /\ Held(s) /\ memoryRecords[s].tenant = tenant
                    /\ memoryRecords[s].labels \subseteq allowed
                    /\ memoryRecords[s].trust >= minimum
  BY DEF SummariesTellNoMore
<1> DEFINE seen == {i \in RecordIds : /\ Held(i) /\ memoryRecords[i].tenant = tenant
                                      /\ memoryRecords[i].labels \subseteq allowed
                                      /\ memoryRecords[i].trust >= minimum}
<1>1. \A i \in RecordIds : Held(i) => /\ memoryRecords[i].provenance \subseteq RecordIds
                                     /\ memoryRecords[i].trust \in Nat /\ minimum \in Nat
  BY MemoryConstants DEF MemoryInv, Held, Record
<1>2. \A i \in seen : memoryRecords[i].provenance \subseteq seen
  BY <1>1 DEF MemoryInv, SourcesCovered, Held
<1>3. id \in seen
  BY DEF Retrieve, Owned
<1> HIDE DEF seen
<1>4. seen \in SUBSET RecordIds
  BY DEF seen
<1>5. s \in seen
  BY <1>2, <1>3, <1>4 DEF Sources
<1> QED BY <1>5 DEF seen

\* For any records, however often summarised, deleted, invalidated or restored: who
\* retrieves a summary compress_records made is of the tenant of every record under
\* it, has their labels and asked for no more trust than they have.
THEOREM SummariesAreGoverned == MemorySpec => []SummariesTellNoMore
  BY MemoryInitial, MemoryStep, SummariesByInvariant, PTL DEF MemorySpec

----------------------------------------------------------------------------
(* DriftSample *)

\* Quotient and remainder are the only ones.
LEMMA DivisionUnique ==
  ASSUME NEW K \in Nat, K > 0, NEW q \in Int, NEW r \in 0 .. K - 1, NEW a \in Int, a = K * q + r
  PROVE  a \div K = q /\ a % K = r
<1> DEFINE p == a \div K
           s == a % K
<1>1. a = K * p + s /\ s \in 0 .. K - 1 /\ p \in Int
  OBVIOUS
<1> HIDE DEF p, s
<1>2. ~(q < p)
  <2> SUFFICES ASSUME q < p PROVE FALSE
    OBVIOUS
  <2>1. K * (p - q - 1) >= 0 /\ K * (p - q - 1) = K * p - K * q - K
    BY <1>1
  <2> QED BY <1>1, <2>1
<1>3. ~(p < q)
  <2> SUFFICES ASSUME p < q PROVE FALSE
    BY <1>1
  <2>1. K * (q - p - 1) >= 0 /\ K * (q - p - 1) = K * q - K * p - K
    BY <1>1
  <2> QED BY <1>1, <2>1
<1>4. p = q
  BY <1>1, <1>2, <1>3
<1> QED BY <1>1, <1>4 DEF p, s

\* An execution is the one to recluster at just when it is the last of its own period;
\* otherwise the last reclustering stays where it was.
LEMMA ReclusteringMoves ==
  ASSUME NEW L \in Nat
  PROVE  /\ (L + 1) % Clusters = 1 => Reclustered(L + 1) = L + 1
         /\ (L + 1) % Clusters # 1 /\ L > 0 => Reclustered(L + 1) = Reclustered(L)
         /\ L < Clusters => Reclustered(L + 1) <= Clusters
         /\ L > 0 => Reclustered(L) \in 1 .. L
<1> DEFINE K == Clusters
           q == L \div K
           r == L % K
<1>1. K \in Nat /\ K > 1
  BY DriftConstants
<1>2. L = K * q + r /\ r \in 0 .. K - 1 /\ q \in Int
  BY <1>1
<1> HIDE DEF K, q, r
<1>3. Reclustered(L + 1) = q * K + 1
  BY <1>1, <1>2 DEF Reclustered, q, K
<1>4. (L + 1) % K = 1 => r = 0
  <2>1. CASE r + 1 < K
    BY <1>1, <1>2, <2>1, DivisionUnique
  <2>2. CASE r + 1 = K
    <3>1. L + 1 = K * (q + 1) + 0
      BY <1>1, <1>2, <2>2
    <3>2. (L + 1) % K = 0
      BY <1>1, <1>2, <3>1, DivisionUnique
    <3> QED BY <3>2
  <2> QED BY <1>1, <1>2, <2>1, <2>2
<1>5. r = 0 => (L + 1) % K = 1
  <2> SUFFICES ASSUME r = 0 PROVE (L + 1) % K = 1
    OBVIOUS
  <2>1. PICK a \in Int, s \in 0 .. K - 1 : a = L + 1 /\ s = 1 /\ a = K * q + s
    BY <1>1, <1>2
  <2>2. a % K = s
    BY <1>1, <1>2, <2>1, DivisionUnique
  <2> QED BY <2>1, <2>2
<1>6. CASE r = 0
  <2>1. Reclustered(L + 1) = L + 1
    BY <1>1, <1>2, <1>3, <1>6
  <2>2. L < K => L = 0
    <3>1. L < K => L \div K = 0
      BY <1>1, DivisionUnique
    <3> QED BY <1>1, <1>2, <1>6, <3>1 DEF q
  <2>3. L > 0 => Reclustered(L) \in 1 .. L
    <3>1. L > 0 => q - 1 \in Nat
      BY <1>1, <1>2, <1>6
    <3>2. L - 1 = K * (q - 1) + (K - 1)
      BY <1>1, <1>2, <1>6
    <3>3. (L - 1) \div K = q - 1
      BY <1>1, <1>2, <3>2, DivisionUnique
    <3>4. Reclustered(L) = (q - 1) * K + 1
      BY <3>3 DEF Reclustered, K
    <3>5. (q - 1) * K = L - K
      BY <1>1, <1>2, <1>6
    <3>6. q - 1 \in Nat => (q - 1) * K >= 0
      BY <1>1, <1>2
    <3> QED BY <1>1, <1>2, <3>1, <3>4, <3>5, <3>6
  <2> QED BY <1>1, <1>5, <1>6, <2>1, <2>2, <2>3 DEF K
<1>7. CASE r # 0
  <2>1. L - 1 = K * q + (r - 1)
    BY <1>1, <1>2, <1>7
  <2>2. (L - 1) \div K = q
    BY <1>1, <1>2, <1>7, <2>1, DivisionUnique
  <2>3. Reclustered(L) = q * K + 1
    BY <2>2 DEF Reclustered, K
  <2>4. q >= 0
    <3> SUFFICES ASSUME q <= -1 PROVE FALSE
      BY <1>2
    <3>1. K * (q + 1) <= 0 /\ K * (q + 1) = K * q + K
      BY <1>1, <1>2
    <3> QED BY <1>1, <1>2, <3>1
  <2>5. q * K >= 0 /\ q * K = L - r
    BY <1>1, <1>2, <2>4
  <2>6. L < K => q = 0
    BY <1>1, <1>2, DivisionUnique DEF q
  <2> QED BY <1>1, <1>2, <1>3, <1>4, <1>7, <2>3, <2>5, <2>6 DEF K
<1> QED BY <1>6, <1>7

\* Before there are Clusters executions nothing was reclustered; later on, what
\* was reclustered ends less than Clusters before the end.
LEMMA EarlyReclustered ==
  ASSUME NEW L \in Nat, L <= Clusters
  PROVE  Reclustered(L) <= Clusters
<1>1. Clusters \in Nat /\ Clusters > 1
  BY DriftConstants
<1>2. CASE L = 0
  <2>1. -1 = Clusters * (-1) + (Clusters - 1)
    BY <1>1
  <2>2. (-1) \div Clusters = -1
    BY <1>1, <2>1, DivisionUnique
  <2>3. (L - 1) \div Clusters = -1
    BY <1>2, <2>2
  <2>4. (-1) * Clusters + 1 <= Clusters
    BY <1>1
  <2> QED BY <2>3, <2>4 DEF Reclustered
<1>3. CASE L > 0
  <2>1. L - 1 = Clusters * 0 + (L - 1) /\ L - 1 \in 0 .. Clusters - 1
    BY <1>1, <1>3
  <2>2. (L - 1) \div Clusters = 0
    BY <1>1, <2>1, DivisionUnique
  <2> QED BY <1>1, <2>2 DEF Reclustered
<1> QED BY <1>2, <1>3

LEMMA LateReclustered ==
  ASSUME NEW L \in Nat, NEW i \in 1 .. L, i + Clusters <= L
  PROVE  /\ Reclustered(L) \in 1 .. L /\ Reclustered(L) > Clusters
         /\ i <= Reclustered(L)
<1> DEFINE q == (L - 1) \div Clusters
           r == (L - 1) % Clusters
<1>1. Clusters \in Nat /\ Clusters > 1
  BY DriftConstants
<1>2. L - 1 = Clusters * q + r /\ r \in 0 .. Clusters - 1 /\ q \in Int
  BY <1>1
<1> HIDE DEF q, r
<1>3. Reclustered(L) = Clusters * q + 1
  BY <1>1, <1>2 DEF Reclustered, q
<1>4. Reclustered(L) = L - r
  BY <1>1, <1>2, <1>3
<1>5. q >= 1
  <2> SUFFICES ASSUME q <= 0 PROVE FALSE
    BY <1>2
  <2>1. Clusters * q <= 0
    BY <1>1, <1>2
  <2> QED BY <1>1, <1>2, <2>1
<1>6. Clusters * q >= Clusters
  BY <1>1, <1>2, <1>5
<1> QED BY <1>1, <1>2, <1>3, <1>4, <1>6

\* The largest of some of the numbers up to L.
LEMMA LargestOf ==
  ASSUME NEW L \in Nat, NEW T \in SUBSET (1 .. L), T # {}
  PROVE  \E x \in T : \A y \in T : y <= x
<1> DEFINE D == {d \in Nat : \E x \in T : d = L - x}
<1>1. D \in SUBSET Nat
  OBVIOUS
<1>2. D # {}
  <2>1. PICK x \in T : TRUE
    OBVIOUS
  <2>2. x \in 1 .. L
    BY <2>1
  <2>3. L - x \in D
    BY <2>2
  <2> QED BY <2>3
<1>3. PICK d \in D : \A y \in D : d <= y
  <2> HIDE DEF D
  <2> QED BY <1>1, <1>2, NatLeast
<1>4. PICK x \in T : d = L - x
  BY <1>3
<1>5. ASSUME NEW y \in T PROVE y <= x
  <2>1. x \in 1 .. L /\ y \in 1 .. L
    BY <1>4
  <2>2. L - y \in D
    BY <2>1
  <2> QED BY <1>3, <1>4, <2>1, <2>2
<1> QED BY <1>5

\* The elements of S below a number.
Under(S, x) == {y \in S : y < x}

\* Fewer elements are below less.
LEMMA FewerBelow ==
  ASSUME NEW L \in Nat, NEW S \in SUBSET (1 .. L), NEW x \in S, NEW y \in S, x <= y
  PROVE  /\ Cardinality(Under(S, x)) <= Cardinality(Under(S, y))
         /\ Cardinality(Under(S, x)) \in Nat /\ Cardinality(Under(S, y)) \in Nat
<1>1. IsFiniteSet(S)
  <2>1. IsFiniteSet(1 .. L)
    BY FS_Interval
  <2> QED BY <2>1, FS_Subset
<1>2. Under(S, x) \subseteq Under(S, y)
  <2>1. \A z \in S : z \in Int
    OBVIOUS
  <2>2. x \in Int /\ y \in Int
    BY <2>1
  <2>3. \A z \in S : z < x => z < y
    BY <2>1, <2>2
  <2> QED BY <2>3 DEF Under
<1>3. Under(S, y) \subseteq S
  BY DEF Under
<1>4. IsFiniteSet(Under(S, y)) /\ IsFiniteSet(Under(S, x))
  BY <1>1, <1>2, <1>3, FS_Subset
<1> QED BY <1>2, <1>4, FS_Subset, FS_CardinalityType

\* The lowest MaxSamples of a set: no more than those, and where one is left out
\* they are that many and all lower.
LEMMA LowestIs ==
  ASSUME NEW L \in Nat, NEW S \in SUBSET (1 .. L)
  PROVE  /\ Lowest(S) \subseteq S /\ Cardinality(Lowest(S)) <= MaxSamples
         /\ \A i \in S : i \in Lowest(S) \/ CutOff(Lowest(S), i)
<1> DEFINE K == Lowest(S)
           B(x) == Under(S, x)
<1>1. /\ K = {i \in S : Cardinality(B(i)) < MaxSamples} /\ K \subseteq S
      /\ MaxSamples \in Nat
  BY DriftConstants DEF Lowest, Under
<1>2. IsFiniteSet(S) /\ IsFiniteSet(K) /\ Cardinality(K) \in Nat
  <2>1. IsFiniteSet(1 .. L)
    BY FS_Interval
  <2>2. IsFiniteSet(S)
    BY <2>1, FS_Subset
  <2> HIDE DEF K
  <2>3. IsFiniteSet(K)
    BY <1>1, <2>2, FS_Subset
  <2> QED BY <2>2, <2>3, FS_CardinalityType
<1>3. ASSUME NEW x \in S, NEW y \in S, x <= y
      PROVE  /\ Cardinality(B(x)) <= Cardinality(B(y))
             /\ Cardinality(B(x)) \in Nat /\ Cardinality(B(y)) \in Nat
  BY <1>3, FewerBelow
<1> HIDE DEF K
<1>4. Cardinality(K) <= MaxSamples
  <2>1. CASE K = {}
    <3>1. Cardinality(K) = 0
      BY <2>1, FS_EmptySet
    <3> QED BY <1>1, <3>1
  <2>2. CASE K # {}
    <3>1. PICK x \in K : \A y \in K : y <= x
      BY <1>1, <2>2, LargestOf
    <3>2. K \subseteq B(x) \cup {x}
      <4>1. \A y \in K : y \in S /\ y \in Int /\ x \in Int /\ y <= x
        BY <1>1, <3>1
      <4>2. \A y \in K : y \in S /\ (y < x \/ y = x)
        BY <4>1
      <4> QED BY <4>2 DEF Under
    <3>3. IsFiniteSet(B(x)) /\ x \notin B(x) /\ Cardinality(B(x)) < MaxSamples
          /\ Cardinality(B(x)) \in Nat
      <4>1. B(x) \subseteq S /\ x \notin B(x)
        BY <1>1, <3>1 DEF Under
      <4> QED BY <1>1, <1>2, <3>1, <4>1, FS_Subset, FS_CardinalityType
    <3> HIDE DEF B
    <3>4. Cardinality(B(x) \cup {x}) = Cardinality(B(x)) + 1 /\ IsFiniteSet(B(x) \cup {x})
      BY <3>3, FS_AddElement
    <3>5. Cardinality(K) <= Cardinality(B(x) \cup {x})
      BY <3>2, <3>4, FS_Subset
    <3> QED BY <1>1, <1>2, <3>3, <3>4, <3>5
  <2> QED BY <2>1, <2>2
<1>5. ASSUME NEW i \in S, i \notin K PROVE CutOff(K, i)
  <2>1. S \ K \in SUBSET Nat /\ S \ K # {}
    <3>1. \A y \in S : y \in Nat
      OBVIOUS
    <3> QED BY <1>5, <3>1
  <2>2. PICK x \in S \ K : \A y \in S \ K : x <= y
    BY <2>1, NatLeast
  <2>3. B(x) \subseteq K
    <3> SUFFICES ASSUME NEW y \in B(x), y \notin K PROVE FALSE
      OBVIOUS
    <3>1. y \in S \ K /\ y < x /\ x \in Nat /\ y \in Nat
      BY <2>2 DEF Under
    <3> QED BY <2>2, <3>1
  <2>4. Cardinality(B(x)) <= Cardinality(K)
    BY <1>2, <2>3, FS_Subset
  <2>5. Cardinality(B(x)) \in Nat /\ ~(Cardinality(B(x)) < MaxSamples)
    BY <1>1, <1>3, <2>2
  <2>6. Cardinality(K) = MaxSamples
    BY <1>1, <1>2, <1>4, <2>4, <2>5
  <2>7. ASSUME NEW j \in K PROVE j < i
    <3>1. j \in S /\ j \in Nat /\ i \in Nat /\ Cardinality(B(j)) < MaxSamples
      BY <1>1, <1>5
    <3>2. ~(Cardinality(B(i)) < MaxSamples) /\ Cardinality(B(i)) \in Nat
      BY <1>1, <1>3, <1>5
    <3>3. i <= j => Cardinality(B(i)) <= Cardinality(B(j)) /\ Cardinality(B(j)) \in Nat
      BY <1>3, <1>5, <3>1
    <3> HIDE DEF B
    <3> QED BY <1>1, <3>1, <3>2, <3>3
  <2> QED BY <2>6, <2>7 DEF CutOff
<1> QED BY <1>1, <1>4, <1>5 DEF K

\* What is greatest is among the first n.
LEMMA GreatestAre ==
  \A history, n : MostRecent(history, n) \subseteq 1 .. n
BY DEF MostRecent, Greatest

\* Which those are, of the executions themselves.
LEMMA MostRecentAre ==
  ASSUME NEW history, NEW n
  PROVE  MostRecent(history, n) =
           {i \in 1 .. n : \A j \in 1 .. n : history[j].class = history[i].class =>
              \/ history[j].timestamp < history[i].timestamp
              \/ history[j].timestamp = history[i].timestamp /\ i <= j}
BY DEF MostRecent, Greatest

\* The sample taken of a history.
LEMMA RepresentativesAre ==
  ASSUME NEW history, NEW L \in Nat, Len(history) = L
  PROVE  SampleOf(Representatives(history), history, L)
<1> DEFINE S == Farthest(history) \cup MostRecent(history, L)
<1>1. S \in SUBSET (1 .. L)
  BY GreatestAre DEF Farthest, Greatest
<1>2. Representatives(history) = Lowest(S)
  BY DEF Representatives
<1>3. MostRecent(history, L) \subseteq S
  OBVIOUS
<1> HIDE DEF S
<1>4. /\ Lowest(S) \subseteq S /\ Cardinality(Lowest(S)) <= MaxSamples
      /\ \A i \in S : i \in Lowest(S) \/ CutOff(Lowest(S), i)
  BY <1>1, LowestIs
<1>5. SampleOf(Lowest(S), history, L)
  BY <1>1, <1>3, <1>4 DEF SampleOf
<1> QED BY <1>2, <1>5

\* The most recent of the first n executions does not depend on later ones.
LEMMA MostRecentStays ==
  ASSUME NEW f, NEW g, NEW n, \A i \in 1 .. n : f[i] = g[i]
  PROVE  MostRecent(f, n) = MostRecent(g, n)
<1> DEFINE class(h) == [i \in 1 .. n |-> h[i].class]
           timestamp(h) == [i \in 1 .. n |-> h[i].timestamp]
<1>1. class(f) = class(g) /\ timestamp(f) = timestamp(g)
  OBVIOUS
<1> QED BY <1>1 DEF MostRecent

\* One more execution.
LEMMA RecordingKeeps ==
  ASSUME DriftInv, NEW class \in TaskClasses, NEW metric \in Metrics, NEW timestamp \in Timestamps,
         RecordExecution(class, metric, timestamp)
  PROVE  DriftInv'
<1> DEFINE L == Len(executions)
           R == [class : TaskClasses, metric : Metrics, timestamp : Timestamps]
           new == [class |-> class, metric |-> metric, timestamp |-> timestamp]
           history == Append(executions, new)
<1>1. executions \in Seq(R) /\ new \in R
  BY DEF DriftInv
<1> HIDE DEF R
<1>2. /\ executions' = history /\ history \in Seq(R) /\ Len(history) = L + 1 /\ L \in Nat
      /\ sample' = IF L + 1 > Clusters /\ (L + 1) % Clusters = 1 THEN Representatives(history) ELSE sample
      /\ \A i \in 1 .. L : history[i] = executions[i]
  <2> HIDE DEF new
  <2>1. history \in Seq(R) /\ Len(history) = L + 1 /\ L \in Nat /\ \A i \in 1 .. L : history[i] = executions[i]
    BY <1>1
  <2> QED BY <2>1 DEF RecordExecution, new
<1> HIDE DEF L, history, new
<1>3. Clusters \in Nat /\ Clusters > 1
  BY DriftConstants
<1>4. Len(executions') = L + 1 /\ L = Len(executions)
  BY <1>2 DEF L
<1>5. CASE L + 1 > Clusters /\ (L + 1) % Clusters = 1
  <2>1. Reclustered(L + 1) = L + 1
    BY <1>2, <1>5, ReclusteringMoves
  <2>2. SampleOf(sample', history, L + 1)
    BY <1>2, <1>5, RepresentativesAre
  <2> QED BY <1>1, <1>2, <1>3, <1>4, <1>5, <2>1, <2>2 DEF DriftInv, R
<1>6. CASE L < Clusters
  <2>1. Reclustered(L + 1) <= Clusters
    BY <1>2, <1>6, ReclusteringMoves
  <2>2. Reclustered(L) <= Clusters
    BY <1>2, <1>3, <1>6, EarlyReclustered
  <2>3. sample = {}
    BY <1>4, <2>2 DEF DriftInv
  <2>4. sample' = {}
    BY <1>2, <1>3, <1>6, <2>3
  <2> QED BY <1>1, <1>2, <1>4, <2>1, <2>4 DEF DriftInv, R
<1>7. CASE L >= Clusters /\ (L + 1) % Clusters # 1
  <2> DEFINE n == Reclustered(L)
  <2>0. sample' = sample /\ L > 0
    BY <1>2, <1>3, <1>7
  <2>1. Reclustered(L + 1) = n /\ n \in 1 .. L /\ sample' = sample
    BY <1>2, <1>7, <2>0, ReclusteringMoves
  <2>2. IF n <= Clusters THEN sample = {} ELSE SampleOf(sample, executions, n)
    BY <1>4 DEF DriftInv
  <2>3. Reclustered(Len(executions')) = n
    BY <1>4, <2>1
  <2> HIDE DEF n
  <2>4. MostRecent(history, n) = MostRecent(executions, n)
    BY <1>2, <2>1, MostRecentStays
  <2>5. SampleOf(sample, executions, n) => SampleOf(sample', executions', n)
    BY <1>2, <2>1, <2>4 DEF SampleOf
  <2> QED BY <1>1, <1>2, <2>1, <2>2, <2>3, <2>5 DEF DriftInv, R
<1> QED BY <1>2, <1>3, <1>5, <1>6, <1>7

\* What is still the most recent of its class was so when the sample was taken,
\* if it was there: the sample holds it or the cap has cut it off.
LEMMA DriftByInvariant == DriftInv => DriftSampleNewest
<1> SUFFICES ASSUME DriftInv PROVE DriftSampleNewest
  OBVIOUS
<1> DEFINE L == Len(executions)
           n == Reclustered(L)
           R == [class : TaskClasses, metric : Metrics, timestamp : Timestamps]
<1>1. /\ executions \in Seq(R) /\ L \in Nat /\ Clusters \in Nat /\ Clusters > 1
      /\ IF n <= Clusters THEN sample = {} ELSE SampleOf(sample, executions, n)
  BY DriftConstants DEF DriftInv
<1> HIDE DEF L, n
<1>2. ASSUME NEW i \in MostRecent(executions, L), NEW m \in Metrics,
             i + Clusters <= L, m # executions[i].metric
      PROVE  i \in DriftViolations(m, 0) \/ CutOff(sample, i)
  <2>1. i \in 1 .. L
    BY GreatestAre
  <2>2. n \in 1 .. L /\ n > Clusters /\ i <= n
    BY <1>1, <1>2, <2>1, LateReclustered DEF n
  <2>3. i \in MostRecent(executions, n)
    BY <1>1, <1>2, <2>1, <2>2, MostRecentAre
  <2>4. i \in sample \/ CutOff(sample, i)
    BY <1>1, <2>2, <2>3 DEF SampleOf
  <2>5. executions[i].metric \in Int /\ m \in Int
    <3>1. executions[i] \in R
      <4> HIDE DEF R
      <4> QED BY <1>1, <2>1, ElementOfSeq DEF L
    <3> QED BY <3>1, DriftConstants
  <2>6. Distance(executions[i].metric, m) > 0
    BY <1>2, <2>5 DEF Distance
  <2> QED BY <2>4, <2>6 DEF DriftViolations
<1> HIDE DEF R
<1> QED BY <1>1, <1>2 DEF DriftSampleNewest, n, L

\* For every period, cap, set of task classes, metrics and timestamps: once the
\* sample has been taken it is within the cap and holds the most recent execution
\* of each class as of then, or the cap has cut it off and keeps only earlier
\* ones; so an execution that is still the most recent of its class is missed, as
\* what a metric may drift from, only while fewer than a period follow it or when
\* cut off (DriftChecker.record_execution and is_within_drift_bound).
THEOREM NewestIsSampled == DriftSpec => []DriftSampleNewest
<1>1. DriftInit => DriftInv
  <2> SUFFICES ASSUME DriftInit PROVE DriftInv
    OBVIOUS
  <2>1. executions = <<>> /\ sample = {} /\ Len(executions) = 0
    BY DEF DriftInit
  <2>2. Reclustered(0) <= Clusters
    BY DriftConstants, EarlyReclustered
  <2> QED BY <2>1, <2>2 DEF DriftInv
<1>2. DriftInv /\ [DriftNext]_driftVars => DriftInv'
  <2>1. CASE UNCHANGED driftVars
    BY <2>1 DEF driftVars, DriftInv
  <2> QED BY <2>1, RecordingKeeps DEF DriftNext
<1>3. DriftInv => DriftSampleNewest
  BY DriftByInvariant
<1> QED BY <1>1, <1>2, <1>3, PTL DEF DriftSpec

----------------------------------------------------------------------------
(* Halting: clusters *)

\* Neither fold depends on anything but the attempts.
Unparameterised == {}

PlaceStep(p, clusters, a) == Place(clusters, a)
TokenStep(p, n, a) == n + a.tokens

Placing == INSTANCE FoldTheorems WITH Step <- PlaceStep
Spending == INSTANCE FoldTheorems WITH Step <- TokenStep

\* The clusters of a sequence of attempts, as a fold of the fold theorems.
LEMMA ClustersAreRun ==
  \A s : cluster_attempts(s) = Placing!Run(Unparameterised, <<>>, s)
BY DEF cluster_attempts, PlaceStep, FoldLeft, MapThenFoldSet, Max,
       Placing!Run, Placing!FoldLeft, Placing!MapThenFoldSet, Placing!Max

\* What a sequence of attempts has used.
LEMMA TokensAreRun ==
  \A s : TokensOf(s) = Spending!Run(Unparameterised, 0, s)
BY DEF TokensOf, TokenStep, FoldLeft, MapThenFoldSet, Max,
       Spending!Run, Spending!FoldLeft, Spending!MapThenFoldSet, Spending!Max

\* The tokens used are counted.
LEMMA TokensCounted ==
  ASSUME NEW s \in Seq(AttemptRecord)
  PROVE  TokensOf(s) \in Nat
<1>1. \A k \in DOMAIN s : \A n \in Nat : TokenStep(Unparameterised, n, s[k]) \in Nat
  <2>1. \A k \in DOMAIN s : s[k] \in AttemptRecord
    BY ElementOfSeq
  <2>2. \A a \in AttemptRecord : a.tokens \in Nat
    BY BudgetAssumption DEF AttemptRecord
  <2> QED BY <2>1, <2>2 DEF TokenStep
<1> DEFINE A == Nat
<1>2. 0 \in A
  OBVIOUS
<1>3. \A k \in DOMAIN s : \A n \in A : TokenStep(Unparameterised, n, s[k]) \in A
  BY <1>1
<1> HIDE DEF A
<1>4. Spending!Run(Unparameterised, 0, s) \in A
  BY <1>2, <1>3, Spending!RunStays
<1> QED BY <1>4, TokensAreRun DEF A

\* A new attempt is placed among the clusters of those before it.
LEMMA ClustersGrow ==
  ASSUME NEW s \in Seq(AttemptRecord), NEW a
  PROVE  cluster_attempts(Append(s, a)) = Place(cluster_attempts(s), a)
<1>1. Placing!Run(Unparameterised, <<>>, Append(s, a))
        = PlaceStep(Unparameterised, Placing!Run(Unparameterised, <<>>, s), a)
  BY Placing!RunAppend
<1> QED BY <1>1, ClustersAreRun DEF PlaceStep

Cluster == Seq(AttemptRecord) \ {<<>>}

\* The first cluster that begins like a.
LEMMA IndexIs ==
  ASSUME NEW clusters \in Seq(Cluster), NEW a
  PROVE  LET like == {i \in DOMAIN clusters :
                        <<clusters[i][1].conclusion, a.conclusion>> \in Similar}
             k == ClusterIndex(clusters, a)
         IN  IF like = {} THEN k = Len(clusters) + 1
             ELSE k \in like /\ \A i \in like : k <= i
<1> DEFINE like == {i \in DOMAIN clusters :
                      <<clusters[i][1].conclusion, a.conclusion>> \in Similar}
<1>1. ClusterIndex(clusters, a)
        = IF like = {} THEN Len(clusters) + 1 ELSE CHOOSE i \in like : \A j \in like : i <= j
  BY DEF ClusterIndex
<1>2. like \in SUBSET Nat
  OBVIOUS
<1> HIDE DEF like
<1>3. like # {} => \E i \in like : \A j \in like : i <= j
  BY <1>2, Placing!LeastExists
<1> QED BY <1>1, <1>3 DEF like

\* It is found by the conclusion alone.
LEMMA IndexByConclusion ==
  ASSUME NEW clusters \in Seq(Cluster), NEW a, NEW b, a.conclusion = b.conclusion
  PROVE  ClusterIndex(clusters, a) = ClusterIndex(clusters, b)
BY DEF ClusterIndex

\* The groups of a cluster with one attempt more.
LEMMA GroupsGrow ==
  ASSUME NEW c \in Seq(AttemptRecord), NEW a \in AttemptRecord
  PROVE  /\ CorrelationGroups(Append(c, a)) = CorrelationGroups(c) \cup {a.group}
         /\ CorrelationGroups(<<a>>) = {a.group}
<1> DEFINE d == Append(c, a)
<1>1. /\ DOMAIN d = 1 .. Len(c) + 1 /\ DOMAIN c = 1 .. Len(c) /\ Len(c) \in Nat
      /\ d[Len(c) + 1] = a /\ \A i \in 1 .. Len(c) : d[i] = c[i]
  OBVIOUS
<1> HIDE DEF d
<1>2. CorrelationGroups(d) = CorrelationGroups(c) \cup {a.group}
  BY <1>1 DEF CorrelationGroups
<1>3. CorrelationGroups(<<a>>) = {a.group}
  <2>1. DOMAIN <<a>> = {1} /\ <<a>>[1] = a
    OBVIOUS
  <2> QED BY <2>1 DEF CorrelationGroups
<1> QED BY <1>2, <1>3 DEF d

\* Placing an attempt that is like no cluster opens one.
LEMMA Opens ==
  ASSUME NEW clusters \in Seq(Cluster), NEW a \in AttemptRecord,
         ClusterIndex(clusters, a) > Len(clusters)
  PROVE  /\ Place(clusters, a) = Append(clusters, <<a>>)
         /\ Place(clusters, a) \in Seq(Cluster)
<1>1. Place(clusters, a) = Append(clusters, <<a>>)
  BY DEF Place
<1>2. <<a>> \in Cluster
  BY DEF Cluster
<1> QED BY <1>1, <1>2

\* Otherwise it joins the first that it is like, which begins as before.
LEMMA Joins ==
  ASSUME NEW clusters \in Seq(Cluster), NEW a \in AttemptRecord,
         ~ (ClusterIndex(clusters, a) > Len(clusters))
  PROVE  LET k == ClusterIndex(clusters, a)
             more == Place(clusters, a)
         IN  /\ k \in DOMAIN clusters /\ more \in Seq(Cluster) /\ DOMAIN more = DOMAIN clusters
             /\ more[k] = Append(clusters[k], a)
             /\ \A i \in DOMAIN clusters : i # k => more[i] = clusters[i]
             /\ \A i \in DOMAIN clusters : more[i][1] = clusters[i][1]
<1> DEFINE k == ClusterIndex(clusters, a)
           more == Place(clusters, a)
           c == Append(clusters[k], a)
<1>1. k \in DOMAIN clusters
  <2>1. Len(clusters) \in Nat /\ Len(clusters) + 1 > Len(clusters)
    OBVIOUS
  <2> QED BY <2>1, IndexIs
<1>2. more = [clusters EXCEPT ![k] = c]
  BY DEF Place
<1>3. clusters[k] \in Seq(AttemptRecord) /\ clusters[k] # <<>>
  BY <1>1, ElementOfSeq DEF Cluster
<1>4. c \in Cluster /\ c[1] = clusters[k][1]
  <2>1. c \in Seq(AttemptRecord) /\ c # <<>> /\ c[1] = clusters[k][1]
    BY <1>3
  <2> QED BY <2>1 DEF Cluster
<1> HIDE DEF k, c, more
<1>5. more \in Seq(Cluster) /\ DOMAIN more = DOMAIN clusters
  BY <1>1, <1>2, <1>4, ExceptSeq
<1>6. more[k] = c /\ \A i \in DOMAIN clusters : i # k => more[i] = clusters[i]
  BY <1>1, <1>2
<1> QED BY <1>1, <1>4, <1>5, <1>6 DEF k, c, more

\* Clusters are sequences of attempts that are not empty.
LEMMA ClustersType ==
  ASSUME NEW s \in Seq(AttemptRecord)
  PROVE  cluster_attempts(s) \in Seq(Cluster)
<1>1. ASSUME NEW k \in DOMAIN s, NEW clusters \in Seq(Cluster)
      PROVE  PlaceStep(Unparameterised, clusters, s[k]) \in Seq(Cluster)
  <2>1. s[k] \in AttemptRecord
    BY ElementOfSeq
  <2> QED BY <2>1, Opens, Joins DEF PlaceStep
<1>2. <<>> \in Seq(Cluster)
  OBVIOUS
<1> DEFINE A == Seq(Cluster)
<1> HIDE DEF A
<1>3. Placing!Run(Unparameterised, <<>>, s) \in A
  BY <1>1, <1>2, Placing!RunStays DEF A
<1> QED BY <1>3, ClustersAreRun DEF A

\* Where an attempt would be placed, once another has been: in the cluster it
\* would have been placed in, which has kept its groups.
LEMMA PlacesKept ==
  ASSUME NEW clusters \in Seq(Cluster), NEW a \in AttemptRecord, NEW b \in AttemptRecord,
         ClusterIndex(clusters, b) \in DOMAIN clusters
  PROVE  LET k == ClusterIndex(clusters, b)
             more == Place(clusters, a)
         IN  /\ ClusterIndex(more, b) = k /\ k \in DOMAIN more
             /\ CorrelationGroups(clusters[k]) \subseteq CorrelationGroups(more[k])
<1> DEFINE k == ClusterIndex(clusters, b)
           l == ClusterIndex(clusters, a)
           more == Place(clusters, a)
           like == {i \in DOMAIN clusters :
                      <<clusters[i][1].conclusion, b.conclusion>> \in Similar}
           likeNow == {i \in DOMAIN more : <<more[i][1].conclusion, b.conclusion>> \in Similar}
<1>0. Len(clusters) \in Nat /\ DOMAIN clusters = 1 .. Len(clusters)
  OBVIOUS
<1>1. k \in like /\ \A i \in like : k <= i
  <2>1. k # Len(clusters) + 1
    BY <1>0
  <2> QED BY <2>1, IndexIs
<1>2. CASE l > Len(clusters)
  <2>1. more = Append(clusters, <<a>>) /\ more \in Seq(Cluster)
    BY <1>2, Opens
  <2>2. /\ DOMAIN more = 1 .. Len(clusters) + 1
        /\ \A i \in DOMAIN clusters : more[i] = clusters[i]
    BY <2>1
  <2>3. k \in likeNow /\ \A i \in likeNow : k <= i
    <3> HIDE DEF k, more
    <3> QED BY <1>0, <1>1, <2>2
  <2>4. ClusterIndex(more, b) \in likeNow /\ \A i \in likeNow : ClusterIndex(more, b) <= i
    <3> HIDE DEF k
    <3>1. likeNow # {}
      BY <2>3
    <3> QED BY <2>1, <3>1, IndexIs
  <2>5. ClusterIndex(more, b) = k
    <3> DEFINE n == ClusterIndex(more, b)
    <3>1. k \in Nat /\ n \in Nat
      BY <2>1, <2>3, <2>4
    <3>2. k <= n /\ n <= k
      BY <2>3, <2>4
    <3> HIDE DEF k, n
    <3> QED BY <3>1, <3>2 DEF n
  <2> QED BY <1>1, <2>2, <2>3, <2>5
<1>3. CASE ~ (l > Len(clusters))
  <2>1. /\ more \in Seq(Cluster) /\ DOMAIN more = DOMAIN clusters
        /\ l \in DOMAIN clusters /\ more[l] = Append(clusters[l], a)
        /\ \A i \in DOMAIN clusters : i # l => more[i] = clusters[i]
        /\ \A i \in DOMAIN clusters : more[i][1] = clusters[i][1]
    BY <1>3, Joins
  <2>2. likeNow = like
    <3> HIDE DEF k, l, more
    <3> QED BY <2>1
  <2>3. ClusterIndex(more, b) = k
    <3> DEFINE n == ClusterIndex(more, b)
    <3>1. n \in likeNow /\ \A i \in likeNow : n <= i
      <4>1. likeNow # {}
        BY <1>1, <2>2
      <4> QED BY <2>1, <4>1, IndexIs
    <3>2. k \in Nat /\ n \in Nat
      BY <1>1, <2>1, <3>1
    <3>3. k <= n /\ n <= k
      BY <1>1, <2>2, <3>1
    <3> HIDE DEF k, n
    <3> QED BY <3>2, <3>3 DEF n
  <2>4. CorrelationGroups(clusters[k]) \subseteq CorrelationGroups(more[k])
    <3>1. CASE k = l
      <4>1. clusters[l] \in Seq(AttemptRecord)
        BY <2>1, ElementOfSeq DEF Cluster
      <4> QED BY <2>1, <3>1, <4>1, GroupsGrow
    <3>2. CASE k # l
      BY <1>1, <2>1, <3>2
    <3> QED BY <3>1, <3>2
  <2> QED BY <1>1, <2>1, <2>3, <2>4
<1> QED BY <1>2, <1>3

\* Clusters hold a place for every attempt that made them.
PlacesFor(s) ==
  LET clusters == cluster_attempts(s)
  IN  \A i \in DOMAIN s :
        LET k == ClusterIndex(clusters, s[i])
        IN  k \in DOMAIN clusters /\ s[i].group \in CorrelationGroups(clusters[k])

\* One attempt more has its place, and takes no other's.
LEMMA PlacesGrow ==
  ASSUME NEW s \in Seq(AttemptRecord), PlacesFor(s), NEW a \in AttemptRecord
  PROVE  PlacesFor(Append(s, a))
<1> DEFINE clusters == cluster_attempts(s)
           more == Place(clusters, a)
           t == Append(s, a)
<1>1. clusters \in Seq(Cluster) /\ cluster_attempts(t) = more
  BY ClustersType, ClustersGrow
<1>2. /\ Len(s) \in Nat /\ DOMAIN s = 1 .. Len(s) /\ DOMAIN t = 1 .. Len(s) + 1
      /\ t[Len(s) + 1] = a /\ \A i \in DOMAIN s : t[i] = s[i] /\ s[i] \in AttemptRecord
  BY ElementOfSeq
<1> HIDE DEF clusters, t
<1>3. ASSUME NEW i \in DOMAIN s
      PROVE  LET k == ClusterIndex(more, t[i])
             IN  k \in DOMAIN more /\ t[i].group \in CorrelationGroups(more[k])
  <2> DEFINE k == ClusterIndex(clusters, s[i])
  <2>1. k \in DOMAIN clusters /\ s[i].group \in CorrelationGroups(clusters[k])
    BY DEF PlacesFor, clusters
  <2>2. /\ ClusterIndex(more, s[i]) = k /\ k \in DOMAIN more
        /\ CorrelationGroups(clusters[k]) \subseteq CorrelationGroups(more[k])
    BY <1>1, <1>2, <2>1, PlacesKept
  <2> QED BY <1>2, <2>1, <2>2
<1>4. LET k == ClusterIndex(more, a)
      IN  k \in DOMAIN more /\ a.group \in CorrelationGroups(more[k])
  <2> DEFINE l == ClusterIndex(clusters, a)
  <2>1. CASE l > Len(clusters)
    <3>1. more = Append(clusters, <<a>>) /\ more \in Seq(Cluster)
      BY <1>1, <2>1, Opens
    <3> DEFINE like == {i \in DOMAIN more : <<more[i][1].conclusion, a.conclusion>> \in Similar}
    <3>2. /\ Len(clusters) \in Nat /\ DOMAIN clusters = 1 .. Len(clusters)
          /\ DOMAIN more = 1 .. Len(clusters) + 1 /\ more[Len(clusters) + 1] = <<a>>
          /\ \A i \in DOMAIN clusters : more[i] = clusters[i]
      BY <1>1, <3>1
    <3>3. \A i \in DOMAIN clusters : <<clusters[i][1].conclusion, a.conclusion>> \notin Similar
      <4> DEFINE before == {i \in DOMAIN clusters :
                              <<clusters[i][1].conclusion, a.conclusion>> \in Similar}
      <4>1. before = {} \/ l \in before
        BY <1>1, IndexIs
      <4>2. l \notin before
        BY <2>1, <3>2
      <4> HIDE DEF l
      <4> QED BY <4>1, <4>2
    <3>4. Len(clusters) + 1 \in like /\ \A i \in like : i = Len(clusters) + 1
      <4>1. <<a.conclusion, a.conclusion>> \in Similar
        BY SimilarAssumption DEF AttemptRecord
      <4>2. <<a>>[1] = a
        OBVIOUS
      <4> HIDE DEF more, l
      <4>3. Len(clusters) + 1 \in like
        BY <3>2, <4>1, <4>2
      <4>4. ASSUME NEW i \in like PROVE i = Len(clusters) + 1
        <5>1. i \notin DOMAIN clusters
          BY <3>2, <3>3
        <5> QED BY <3>2, <5>1
      <4> QED BY <4>3, <4>4
    <3>5. ClusterIndex(more, a) = Len(clusters) + 1
      <4>1. like # {}
        BY <3>4
      <4>2. ClusterIndex(more, a) \in like
        BY <3>1, <4>1, IndexIs
      <4> QED BY <3>4, <4>2
    <3>6. CorrelationGroups(<<a>>) = {a.group}
      <4>1. <<>> \in Seq(AttemptRecord)
        OBVIOUS
      <4> QED BY <4>1, GroupsGrow
    <3> HIDE DEF more, l, like
    <3> QED BY <3>2, <3>5, <3>6
  <2>2. CASE ~ (l > Len(clusters))
    <3>1. /\ l \in DOMAIN clusters /\ DOMAIN more = DOMAIN clusters
          /\ more[l] = Append(clusters[l], a)
      BY <1>1, <2>2, Joins
    <3>2. ClusterIndex(more, a) = l
      BY <1>1, <3>1, PlacesKept
    <3>3. clusters[l] \in Seq(AttemptRecord)
      BY <1>1, <3>1, ElementOfSeq DEF Cluster
    <3>4. CorrelationGroups(Append(clusters[l], a)) = CorrelationGroups(clusters[l]) \cup {a.group}
      BY <3>3, GroupsGrow
    <3> HIDE DEF l, more
    <3> QED BY <3>1, <3>2, <3>4
  <2> QED BY <2>1, <2>2
<1> HIDE DEF more
<1>5. \A i \in DOMAIN t : LET k == ClusterIndex(more, t[i])
                          IN  k \in DOMAIN more /\ t[i].group \in CorrelationGroups(more[k])
  BY <1>2, <1>3, <1>4
<1> QED BY <1>1, <1>5 DEF PlacesFor, t

\* A repetition joins a cluster that holds its group already.
LEMMA RepeatWeighsNothing ==
  ASSUME NEW s \in Seq(AttemptRecord), PlacesFor(s), NEW a \in AttemptRecord,
         NEW i \in DOMAIN s, s[i].conclusion = a.conclusion, s[i].group = a.group
  PROVE  Agreement(Append(s, a)) = Agreement(s)
<1> DEFINE clusters == cluster_attempts(s)
           more == Place(clusters, a)
           t == Append(s, a)
           k == ClusterIndex(clusters, a)
<1>1. clusters \in Seq(Cluster) /\ cluster_attempts(t) = more
  BY ClustersType, ClustersGrow
<1>2. t # <<>> /\ s # <<>>
  OBVIOUS
<1>3. k = ClusterIndex(clusters, s[i])
  BY <1>1, IndexByConclusion
<1>4. k \in DOMAIN clusters /\ a.group \in CorrelationGroups(clusters[k])
  BY <1>3 DEF PlacesFor
<1>5. /\ DOMAIN more = DOMAIN clusters /\ more[k] = Append(clusters[k], a)
      /\ \A j \in DOMAIN clusters : j # k => more[j] = clusters[j]
  <2>1. ~ (k > Len(clusters))
    BY <1>1, <1>4
  <2> QED BY <1>1, <2>1, Joins
<1>6. CorrelationGroups(more[k]) = CorrelationGroups(clusters[k])
  <2>1. clusters[k] \in Seq(AttemptRecord)
    BY <1>1, <1>4, ElementOfSeq DEF Cluster
  <2>2. CorrelationGroups(Append(clusters[k], a)) = CorrelationGroups(clusters[k]) \cup {a.group}
    BY <2>1, GroupsGrow
  <2> HIDE DEF k, more
  <2> QED BY <1>4, <1>5, <2>2
<1> HIDE DEF clusters, more, t, k
<1>7. \A j \in DOMAIN clusters : IndependentWeight(more[j]) = IndependentWeight(clusters[j])
  BY <1>5, <1>6 DEF IndependentWeight
<1>8. Weights(more) = Weights(clusters)
  BY <1>5, <1>7 DEF Weights
<1> QED BY <1>1, <1>2, <1>8 DEF Agreement, clusters, t

----------------------------------------------------------------------------
(* The policies *)

\* One rule of the adaptive policy applies, and it is the first that does.
LEMMA AdaptiveDecides ==
  /\ AdaptiveHaltingPolicy \in InferenceAction
  /\ AdaptiveHaltingPolicy \in {"SAMPLE", "DIVERSIFY"} => ~Exhausted(attempts)
<1> DEFINE rules == <<
        <<"ambiguous" \in facts /\ "ASK" \in exposed, "ASK">>,
        <<"missing" \in facts /\ "RETRIEVE" \in exposed, "RETRIEVE">>,
        <<"contradiction" \in facts /\ "VERIFY" \in exposed, "VERIFY">>,
        <<"shifted" \in facts /\ "DIVERSIFY" \in exposed
              /\ ~Exhausted(attempts), "DIVERSIFY">>,
        <<"shifted" \in facts \/ Exhausted(attempts), "ABSTAIN">>,
        <<attempts /= <<>> /\ Agreement(attempts)[1] < MinimumGroups
              /\ "DIVERSIFY" \in exposed, "DIVERSIFY">>,
        <<MayStop /\ "STOP" \in exposed, "STOP">>,
        <<TRUE, KeepGoing>> >>
           first == CHOOSE i \in DOMAIN rules : rules[i][1] /\ \A j \in 1 .. (i - 1) : ~rules[j][1]
<1>1. AdaptiveHaltingPolicy = rules[first][2]
  BY DEF AdaptiveHaltingPolicy
<1>2. /\ DOMAIN rules = 1 .. 8 /\ rules[8][1] = TRUE /\ rules[8][2] = KeepGoing
      /\ rules[1][2] = "ASK" /\ rules[2][2] = "RETRIEVE" /\ rules[3][2] = "VERIFY"
      /\ rules[4][2] = "DIVERSIFY" /\ rules[5][2] = "ABSTAIN" /\ rules[6][2] = "DIVERSIFY"
      /\ rules[7][2] = "STOP"
  OBVIOUS
<1>3. /\ rules[4][1] => ~Exhausted(attempts)
      /\ ~rules[5][1] => ~Exhausted(attempts)
  OBVIOUS
<1>4. KeepGoing \in Asked
  BY DEF KeepGoing, Asked
<1> HIDE DEF rules
<1>5. first \in 1 .. 8 /\ rules[first][1] /\ \A j \in 1 .. (first - 1) : ~rules[j][1]
  <2> DEFINE T == {i \in 1 .. 8 : rules[i][1]}
  <2>1. 8 \in T /\ T \in SUBSET Nat
    BY <1>2
  <2> HIDE DEF T
  <2>2. PICK i \in T : \A j \in T : i <= j
    BY <2>1, Placing!LeastExists
  <2>3. i \in DOMAIN rules /\ rules[i][1] /\ \A j \in 1 .. (i - 1) : ~rules[j][1]
    BY <1>2, <2>2 DEF T
  <2> QED BY <1>2, <2>3
<1> HIDE DEF first
<1>6. AdaptiveHaltingPolicy \in InferenceAction
  <2>1. \A i \in 1 .. 8 : rules[i][2] \in InferenceAction
    BY <1>2, <1>4 DEF InferenceAction, Asked
  <2> QED BY <1>1, <1>5, <2>1
<1>7. ASSUME AdaptiveHaltingPolicy \in {"SAMPLE", "DIVERSIFY"} PROVE ~Exhausted(attempts)
  <2>1. first \in {4, 6, 7, 8}
    BY <1>1, <1>2, <1>5, <1>7
  <2>2. first = 4 \/ 5 \in 1 .. (first - 1)
    BY <2>1
  <2> QED BY <1>3, <1>5, <2>2
<1> QED BY <1>6, <1>7

\* Every policy decides on an action, and on another attempt only within the
\* budget.
LEMMA PoliciesDecide ==
  ASSUME HaltingInv, Decide
  PROVE  /\ decision' \in InferenceAction
         /\ decision' \in {"SAMPLE", "DIVERSIFY"} => ~Exhausted(attempts)
<1>1. mode \in {"FIXED_ATTEMPT", "FIXED_REFINEMENT", "SELF_CONSISTENCY", "ADAPTIVE"}
  BY DEF HaltingInv, HaltingInvariant, HaltingTypeOK, HaltingPolicyMode
<1>2. CASE mode = "FIXED_ATTEMPT"
  BY <1>2 DEF Decide, FixedAttemptPolicy, InferenceAction, Asked
<1>3. CASE mode = "FIXED_REFINEMENT"
  BY <1>3 DEF Decide, FixedRefinementPolicy, InferenceAction, Asked
<1>4. CASE mode = "SELF_CONSISTENCY"
  BY <1>4 DEF Decide, SelfConsistencyPolicy, InferenceAction, Asked
<1>5. CASE mode = "ADAPTIVE"
  <2>1. decision' = AdaptiveHaltingPolicy
    BY <1>5 DEF Decide
  <2> QED BY <2>1, AdaptiveDecides
<1> QED BY <1>1, <1>2, <1>3, <1>4, <1>5

----------------------------------------------------------------------------
(* The invariant *)

\* What the invariant says of a state depends on the attempts and the decision.
LEMMA ClusteredIs == Clustered <=> PlacesFor(attempts)
BY DEF Clustered, PlacesFor

\* A task starts with nothing attempted.
LEMMA NothingAttempted ==
  ASSUME attempts' = <<>>, decision' \notin {"SAMPLE", "DIVERSIFY"}
  PROVE  (BudgetOverrunByOne /\ DuplicatesAddNothing /\ AttemptsAffordable /\ Clustered)'
<1>1. Len(attempts') = 0 /\ DOMAIN attempts' = {}
  OBVIOUS
<1> QED BY <1>1 DEF BudgetOverrunByOne, DuplicatesAddNothing, AttemptsAffordable, Clustered

\* Every task starts within its budget.
LEMMA HaltingStarts == HaltingInit => HaltingInv
<1> SUFFICES ASSUME HaltingInit PROVE HaltingInv
  OBVIOUS
<1>1. attempts = <<>> /\ Len(attempts) = 0 /\ DOMAIN attempts = {} /\ decision = "none"
  BY DEF HaltingInit
<1>2. HaltingTypeOK
  BY FactsAssumption DEF HaltingInit, HaltingTypeOK
<1>3. BudgetOverrunByOne /\ DuplicatesAddNothing /\ AttemptsAffordable /\ Clustered
  BY <1>1 DEF BudgetOverrunByOne, DuplicatesAddNothing, AttemptsAffordable, Clustered
<1> QED BY <1>2, <1>3 DEF HaltingInv, HaltingInvariant

\* Another attempt, begun within the budget.
LEMMA AttemptKeeps ==
  ASSUME HaltingInv, Attempt
  PROVE  HaltingInv'
<1>1. PICK a \in AttemptRecord : attempts' = Append(attempts, a)
  BY DEF Attempt
<1>2. /\ decision \in {"SAMPLE", "DIVERSIFY"} /\ decision' = "none"
      /\ facts' \in {facts, facts \cup {"contradiction"}}
      /\ UNCHANGED <<confidence, mode, exposed, estimate>>
  BY DEF Attempt
<1>3. attempts \in Seq(AttemptRecord) /\ PlacesFor(attempts) /\ ~Exhausted(attempts)
  BY <1>2, ClusteredIs DEF HaltingInv, HaltingInvariant, HaltingTypeOK, AttemptsAffordable
<1>4. HaltingTypeOK'
  <2>1. attempts' \in Seq(AttemptRecord)
    BY <1>1, <1>3
  <2>2. facts' \subseteq Facts
    BY <1>2 DEF HaltingInv, HaltingInvariant, HaltingTypeOK, Facts
  <2> QED BY <1>2, <2>1, <2>2 DEF HaltingInv, HaltingInvariant, HaltingTypeOK
<1>5. Front(attempts') = attempts /\ Last(attempts') = a
  BY <1>1, <1>3 DEF Front, Last
<1>6. /\ Len(attempts') = Len(attempts) + 1 /\ Len(attempts) \in Nat
      /\ DOMAIN attempts = 1 .. Len(attempts)
      /\ \A i \in DOMAIN attempts : attempts'[i] = attempts[i]
  BY <1>1, <1>3
<1>7. BudgetOverrunByOne'
  <2>1. /\ TokensOf(attempts) \in Nat
        /\ \A i \in DOMAIN attempts : attempts[i].tokens \in Nat
    <3>1. \A i \in DOMAIN attempts : attempts[i] \in AttemptRecord
      BY <1>3, ElementOfSeq
    <3>2. \A x \in AttemptRecord : x.tokens \in Nat
      BY BudgetAssumption DEF AttemptRecord
    <3> QED BY <1>3, <3>1, <3>2, TokensCounted
  <2>2. MaxAttempts \in Nat /\ MaxTokens \in Nat /\ TailTokens \in Nat
    BY BudgetAssumption
  <2>3. /\ Len(attempts) < MaxAttempts /\ TokensOf(attempts) < MaxTokens
        /\ \A i \in DOMAIN attempts : attempts[i].tokens <= TailTokens
    BY <1>3, <1>6, <2>1, <2>2 DEF Exhausted
  <2>4. Len(attempts') <= MaxAttempts
    BY <1>6, <2>2, <2>3
  <2>5. \A i \in 1 .. (Len(attempts') - 1) : attempts'[i].tokens <= TailTokens
    BY <1>6, <2>3
  <2> QED BY <1>5, <2>3, <2>4, <2>5 DEF BudgetOverrunByOne
<1>8. DuplicatesAddNothing'
  <2> SUFFICES ASSUME NEW i \in 1 .. (Len(attempts') - 1),
                      attempts'[i].conclusion = Last(attempts').conclusion,
                      attempts'[i].group = Last(attempts').group
               PROVE  Agreement(attempts') = Agreement(Front(attempts'))
    BY DEF DuplicatesAddNothing
  <2>1. i \in DOMAIN attempts
    BY <1>6
  <2> QED BY <1>1, <1>3, <1>5, <1>6, <2>1, RepeatWeighsNothing
<1>9. AttemptsAffordable'
  BY <1>2 DEF AttemptsAffordable
<1>10. Clustered'
  <2>1. PlacesFor(attempts')
    BY <1>1, <1>3, PlacesGrow
  <2> QED BY <2>1 DEF Clustered, PlacesFor
<1> QED BY <1>4, <1>7, <1>8, <1>9, <1>10 DEF HaltingInv, HaltingInvariant

\* Every step of a task keeps the invariant.
LEMMA HaltingStep == HaltingInv /\ [HaltingNext]_haltingVars => HaltingInv'
<1> SUFFICES ASSUME HaltingInv, [HaltingNext]_haltingVars PROVE HaltingInv'
  OBVIOUS
<1>0. /\ HaltingTypeOK /\ BudgetOverrunByOne /\ DuplicatesAddNothing
      /\ AttemptsAffordable /\ Clustered
  BY DEF HaltingInv, HaltingInvariant
<1>1. ASSUME UNCHANGED attempts, HaltingTypeOK', AttemptsAffordable'
      PROVE  HaltingInv'
  BY <1>0, <1>1 DEF HaltingInv, HaltingInvariant, BudgetOverrunByOne, DuplicatesAddNothing, Clustered
<1>2. CASE UNCHANGED haltingVars
  <2>1. UNCHANGED attempts /\ HaltingTypeOK' /\ AttemptsAffordable'
    BY <1>0, <1>2 DEF haltingVars, HaltingTypeOK, AttemptsAffordable
  <2> QED BY <1>1, <2>1
<1>3. CASE Decide
  <2>1. UNCHANGED <<attempts, facts, confidence, mode, exposed, estimate>>
    BY <1>3 DEF Decide
  <2>2. HaltingTypeOK'
    BY <1>0, <1>3, <2>1, PoliciesDecide DEF HaltingTypeOK
  <2>3. AttemptsAffordable'
    BY <1>3, <2>1, PoliciesDecide DEF AttemptsAffordable
  <2> QED BY <1>1, <2>1, <2>2, <2>3
<1>4. CASE Attempt
  BY <1>4, AttemptKeeps
<1>5. CASE Verify \/ Learn
  <2>1. /\ UNCHANGED <<attempts, mode, exposed, estimate>> /\ decision' = "none"
        /\ facts' \subseteq Facts /\ confidence' \in Confidences
    BY <1>0, <1>5 DEF Verify, Learn, HaltingTypeOK, Facts
  <2>2. HaltingTypeOK' /\ AttemptsAffordable'
    BY <1>0, <2>1 DEF HaltingTypeOK, AttemptsAffordable
  <2> QED BY <1>1, <2>1, <2>2
<1>6. CASE NextTask
  <2>1. /\ attempts' = <<>> /\ decision' = "none"
        /\ facts' \in InitialFacts /\ confidence' \in Confidences
        /\ UNCHANGED <<mode, exposed, estimate>>
    BY <1>6 DEF NextTask
  <2>2. HaltingTypeOK'
    BY <1>0, <2>1, FactsAssumption DEF HaltingTypeOK
  <2>3. (BudgetOverrunByOne /\ DuplicatesAddNothing /\ AttemptsAffordable /\ Clustered)'
    BY <2>1, NothingAttempted
  <2> QED BY <2>2, <2>3 DEF HaltingInv, HaltingInvariant
<1> QED BY <1>2, <1>3, <1>4, <1>5, <1>6 DEF HaltingNext

\* Of any task under any policy and any attempts: the budget is overrun by the
\* last attempt at most, and repeating an attempt adds no agreement
\* (budget_status, cluster_attempts).
THEOREM TasksHaltWithinBudget == HaltingSpec => []HaltingInvariant
<1>1. HaltingInv => HaltingInvariant
  BY DEF HaltingInv
<1> QED BY <1>1, HaltingStarts, HaltingStep, PTL DEF HaltingSpec

----------------------------------------------------------------------------
(* ControlChoice: candidates *)

SeenStep(p, unique, c) == AddUnlessSeen(unique, c)

Deduplicating == INSTANCE FoldTheorems WITH Step <- SeenStep

\* Deduplication as a fold of the fold theorems.
LEMMA DeduplicateIsRun == \A s : Deduplicate(s) = Deduplicating!Run({}, <<>>, s)
BY DEF Deduplicate, SeenStep, FoldLeft, MapThenFoldSet, Max,
       Deduplicating!Run, Deduplicating!FoldLeft, Deduplicating!MapThenFoldSet, Deduplicating!Max

\* No two candidates that are left have one id.
LEMMA DeduplicateTellsApart ==
  ASSUME NEW s \in Seq(ActionCandidate)
  PROVE  /\ Deduplicate(s) \in Seq(ActionCandidate)
         /\ \A i, j \in DOMAIN Deduplicate(s) :
              Id(Deduplicate(s)[i]) = Id(Deduplicate(s)[j]) => i = j
<1> DEFINE A == {u \in Seq(ActionCandidate) : \A i, j \in DOMAIN u : Id(u[i]) = Id(u[j]) => i = j}
<1>1. <<>> \in A
  OBVIOUS
<1>2. ASSUME NEW k \in DOMAIN s, NEW u \in A
      PROVE  SeenStep({}, u, s[k]) \in A
  <2>1. s[k] \in ActionCandidate
    BY ElementOfSeq
  <2>2. CASE \E i \in DOMAIN u : Id(u[i]) = Id(s[k]) \/ SemanticKey(u[i]) = SemanticKey(s[k])
    BY <2>2 DEF SeenStep, AddUnlessSeen
  <2>3. CASE ~\E i \in DOMAIN u : Id(u[i]) = Id(s[k]) \/ SemanticKey(u[i]) = SemanticKey(s[k])
    <3> DEFINE c == s[k]
               v == Append(u, c)
               m == Len(u) + 1
    <3>1. SeenStep({}, u, c) = v
      BY <2>3 DEF SeenStep, AddUnlessSeen
    <3>2. u \in Seq(ActionCandidate) /\ c \in ActionCandidate
      BY <2>1
    <3>3. \A i \in DOMAIN u : Id(u[i]) # Id(c)
      BY <2>3
    <3>4. \A i, j \in DOMAIN u : Id(u[i]) = Id(u[j]) => i = j
      OBVIOUS
    <3> HIDE DEF c
    <3>5. /\ v \in Seq(ActionCandidate) /\ DOMAIN v = DOMAIN u \cup {m} /\ v[m] = c
          /\ \A i \in DOMAIN u : v[i] = u[i] /\ i # m
      BY <3>2
    <3> HIDE DEF v, m
    <3>6. \A i, j \in DOMAIN v : Id(v[i]) = Id(v[j]) => i = j
      BY <3>3, <3>4, <3>5
    <3> QED BY <3>1, <3>5, <3>6 DEF c
  <2> QED BY <2>2, <2>3
<1> HIDE DEF A
<1>3. Deduplicating!Run({}, <<>>, s) \in A
  BY <1>1, <1>2, Deduplicating!RunStays
<1>4. Deduplicate(s) \in A
  BY <1>3, DeduplicateIsRun
<1> QED BY <1>4 DEF A

\* What the rules offer, and every generator.
LEMMA RulesOfferCandidates == RuleCandidates \in Seq(ActionCandidate)
<1>1. \A action \in CognitiveActionType, source \in CandidateSource, q, i, n \in Nat :
        Candidate(action, source, q, i, n) \in ActionCandidate
  BY DEF Candidate, ActionCandidate
<1> DEFINE When(fact, s) == IF fact \in known THEN s ELSE <<>>
           Rule(action, q, i) == Candidate(action, "RULE", q, i, 0)
           Free(c) == [c EXCEPT !.safety = 0]
<1>2. \A action \in CognitiveActionType, q, i \in Nat : Rule(action, q, i) \in ActionCandidate
  BY <1>1 DEF CandidateSource
<1>3. \A c \in ActionCandidate : Free(c) \in ActionCandidate /\ [c EXCEPT !.cost = 0] \in ActionCandidate
  BY DEF ActionCandidate
<1>4. \A fact, s : s \in Seq(ActionCandidate) => When(fact, s) \in Seq(ActionCandidate)
  OBVIOUS
<1>5. \A c, d \in ActionCandidate : <<c, d>> \in Seq(ActionCandidate)
  OBVIOUS
<1>6. <<Rule("VERIFY", 0, 8), Rule("REPAIR", 5, 0)>> \in Seq(ActionCandidate)
  BY <1>2, <1>5 DEF CognitiveActionType
<1>7. <<Rule("RETRIEVE", 0, 7), Rule("ASK", 0, 9)>> \in Seq(ActionCandidate)
  BY <1>2, <1>5 DEF CognitiveActionType
<1>8. <<Candidate("OBSERVE_OR_TEST", "HYPOTHESIS", 0, 9, 0),
        Candidate("BRANCH", "HYPOTHESIS", 0, 5, 0)>> \in Seq(ActionCandidate)
  BY <1>1, <1>5 DEF CognitiveActionType, CandidateSource
<1>9. <<Candidate("VERIFY", "VERIFIER", 0, 0, 8),
        [Free(Rule("STOP", 10, 0)) EXCEPT !.cost = 0]>> \in Seq(ActionCandidate)
  BY <1>1, <1>2, <1>3, <1>5 DEF CognitiveActionType, CandidateSource
<1>10. <<Rule("REASON", 6, 0), Rule("CONTINUE", 4, 0)>> \in Seq(ActionCandidate)
  BY <1>2, <1>5 DEF CognitiveActionType
<1>11. <<Free(Rule("ESCALATE", 0, 0)), Free(Rule("ABSTAIN", 0, 0))>> \in Seq(ActionCandidate)
  BY <1>2, <1>3, <1>5 DEF CognitiveActionType
<1>12. RuleCandidates =
         When("contradiction", <<Rule("VERIFY", 0, 8), Rule("REPAIR", 5, 0)>>)
         \o When("missing", <<Rule("RETRIEVE", 0, 7), Rule("ASK", 0, 9)>>)
         \o When("hypothesis", <<Candidate("OBSERVE_OR_TEST", "HYPOTHESIS", 0, 9, 0),
                                 Candidate("BRANCH", "HYPOTHESIS", 0, 5, 0)>>)
         \o (IF "answer" \in known
             THEN <<Candidate("VERIFY", "VERIFIER", 0, 0, 8),
                    [Free(Rule("STOP", 10, 0)) EXCEPT !.cost = 0]>>
             ELSE <<Rule("REASON", 6, 0), Rule("CONTINUE", 4, 0)>>)
         \o When("limit", <<Free(Rule("ESCALATE", 0, 0)), Free(Rule("ABSTAIN", 0, 0))>>)
  BY DEF RuleCandidates
<1> HIDE DEF When, Rule, Free
<1>13. \A s, t \in Seq(ActionCandidate) : s \o t \in Seq(ActionCandidate)
  OBVIOUS
<1> QED BY <1>4, <1>6, <1>7, <1>8, <1>9, <1>10, <1>11, <1>12, <1>13, Zenon

\* The authorized candidates are finitely many, and told apart by their ids.
LEMMA AuthorizedToldApart ==
  ASSUME NEW offer \in Offers
  PROVE  /\ AuthorizedOf(offer) \subseteq ActionCandidate /\ IsFiniteSet(AuthorizedOf(offer))
         /\ \A c, d \in AuthorizedOf(offer) : Id(c) = Id(d) => c = d
<1> DEFINE s == Deduplicate(Candidates(offer))
<1>1. Candidates(offer) \in Seq(ActionCandidate)
  BY RulesOfferCandidates, OffersAssumption DEF Candidates
<1>2. s \in Seq(ActionCandidate) /\ \A i, j \in DOMAIN s : Id(s[i]) = Id(s[j]) => i = j
  BY <1>1, DeduplicateTellsApart
<1> HIDE DEF s
<1>3. IsFiniteSet(Range(s)) /\ \A c \in Range(s) : c \in ActionCandidate /\ \E i \in DOMAIN s : s[i] = c
  <2>1. IsFiniteSet(DOMAIN s)
    BY <1>2, FS_Interval
  <2>2. s \in Surjection(DOMAIN s, Range(s))
    BY <1>2 DEF Surjection, Range
  <2>3. IsFiniteSet(Range(s))
    BY <2>1, <2>2, FS_Surjection
  <2>4. \A i \in DOMAIN s : s[i] \in ActionCandidate
    BY <1>2, ElementOfSeq
  <2> QED BY <2>3, <2>4 DEF Range
<1>4. AuthorizedOf(offer) = {c \in Range(s) : Authorized(c)}
  BY DEF AuthorizedOf, s
<1>5. AuthorizedOf(offer) \in SUBSET Range(s)
  BY <1>4
<1> QED BY <1>2, <1>3, <1>5, FS_Subset

----------------------------------------------------------------------------
(* ControlChoice: the lexicographic order *)

\* A word of the vocabulary has a rank of its own.
LEMMA RankIs ==
  ASSUME NEW word \in CandidateSource \cup CognitiveActionType
  PROVE  TextRank(word) \in 1 .. 20 /\ Words[TextRank(word)] = word
<1>1. /\ Words[1] = "HYPOTHESIS" /\ Words[2] = "MODEL" /\ Words[3] = "PLANNER" /\ Words[4] = "RULE"
      /\ Words[5] = "SKILL" /\ Words[6] = "VERIFIER" /\ Words[7] = "ABSTAIN" /\ Words[8] = "ASK"
      /\ Words[9] = "BRANCH" /\ Words[10] = "CONTINUE" /\ Words[11] = "ESCALATE"
      /\ Words[12] = "OBSERVE_OR_TEST" /\ Words[13] = "REASON" /\ Words[14] = "REPAIR"
      /\ Words[15] = "RESTRUCTURE" /\ Words[16] = "RESUME" /\ Words[17] = "RETRIEVE"
      /\ Words[18] = "REUSE_SKILL" /\ Words[19] = "STOP" /\ Words[20] = "VERIFY"
  BY DEF Words
<1>2. \E i \in 1 .. 20 : Words[i] = word
  BY <1>1 DEF CandidateSource, CognitiveActionType
<1> QED BY <1>2 DEF TextRank

\* Four parts and two make six.
LEMMA FourAndTwo ==
  ASSUME NEW a, NEW b, NEW c, NEW d, NEW e, NEW f
  PROVE  <<a, b, c, d>> \o <<e, f>> = <<a, b, c, d, e, f>>
<1> DEFINE s == <<a, b, c, d>>
           t == <<e, f>>
           u == <<a, b, c, d, e, f>>
           S == {a, b, c, d, e, f}
<1>1. s \in Seq(S) /\ t \in Seq(S) /\ u \in Seq(S)
  OBVIOUS
<1>2. /\ Len(s) = 4 /\ s[1] = a /\ s[2] = b /\ s[3] = c /\ s[4] = d
      /\ Len(t) = 2 /\ t[1] = e /\ t[2] = f
      /\ Len(u) = 6 /\ u[1] = a /\ u[2] = b /\ u[3] = c /\ u[4] = d /\ u[5] = e /\ u[6] = f
  OBVIOUS
<1> HIDE DEF s, t, u, S
<1>3. /\ s \o t \in Seq(S) /\ Len(s \o t) = Len(s) + Len(t)
      /\ \A i \in 1 .. Len(s) + Len(t) :
           (s \o t)[i] = IF i <= Len(s) THEN s[i] ELSE t[i - Len(s)]
  BY <1>1, ConcatProperties
<1>4. Len(s \o t) = 6 /\ \A i \in 1 .. 6 : (s \o t)[i] = u[i]
  BY <1>2, <1>3
<1>5. s \o t = u
  BY <1>1, <1>2, <1>3, <1>4, SeqEqual, Zenon
<1> QED BY <1>5 DEF s, t, u

\* The six parts of a key.
LEMMA KeyIs ==
  ASSUME NEW c \in ActionCandidate
  PROVE  /\ Key(c) = <<c.safety, c.uncertainty, -(c.quality + c.information + c.confidence),
                       c.cost, TextRank(c.source), TextRank(c.action)>>
         /\ \A i \in 1 .. 6 : Key(c)[i] \in Int
<1>1. TextRank(c.source) \in 1 .. 20 /\ TextRank(c.action) \in 1 .. 20
  BY RankIs DEF ActionCandidate
<1>2. /\ c.safety \in Nat /\ c.uncertainty \in Nat /\ c.quality \in Nat /\ c.information \in Nat
      /\ c.confidence \in Nat /\ c.cost \in Nat
  BY DEF ActionCandidate
<1>3. Key(c) = <<c.safety, c.uncertainty, -(c.quality + c.information + c.confidence),
                 c.cost, TextRank(c.source), TextRank(c.action)>>
  BY FourAndTwo DEF Key, LexicographicKey
<1> QED BY <1>1, <1>2, <1>3

\* Keys are compared part by part.
LEMMA PrecedesIs ==
  ASSUME NEW k, NEW l, DOMAIN k = 1 .. 6
  PROVE  Precedes(k, l) <=>
           \/ k[1] < l[1]
           \/ k[1] = l[1] /\ k[2] < l[2]
           \/ k[1] = l[1] /\ k[2] = l[2] /\ k[3] < l[3]
           \/ k[1] = l[1] /\ k[2] = l[2] /\ k[3] = l[3] /\ k[4] < l[4]
           \/ k[1] = l[1] /\ k[2] = l[2] /\ k[3] = l[3] /\ k[4] = l[4] /\ k[5] < l[5]
           \/ /\ k[1] = l[1] /\ k[2] = l[2] /\ k[3] = l[3] /\ k[4] = l[4] /\ k[5] = l[5]
              /\ k[6] < l[6]
<1> DEFINE equal(i) == \A j \in 1 .. (i - 1) : k[j] = l[j]
<1>1. Precedes(k, l) <=> \E i \in 1 .. 6 : k[i] < l[i] /\ equal(i)
  BY DEF Precedes
<1>2. /\ equal(1) <=> TRUE
      /\ equal(2) <=> k[1] = l[1]
      /\ equal(3) <=> k[1] = l[1] /\ k[2] = l[2]
      /\ equal(4) <=> k[1] = l[1] /\ k[2] = l[2] /\ k[3] = l[3]
      /\ equal(5) <=> k[1] = l[1] /\ k[2] = l[2] /\ k[3] = l[3] /\ k[4] = l[4]
      /\ equal(6) <=> k[1] = l[1] /\ k[2] = l[2] /\ k[3] = l[3] /\ k[4] = l[4] /\ k[5] = l[5]
  <2>1. /\ 1 .. (1 - 1) = {} /\ 1 .. (2 - 1) = {1} /\ 1 .. (3 - 1) = {1, 2}
        /\ 1 .. (4 - 1) = {1, 2, 3} /\ 1 .. (5 - 1) = {1, 2, 3, 4}
        /\ 1 .. (6 - 1) = {1, 2, 3, 4, 5}
    OBVIOUS
  <2> QED BY <2>1
<1> HIDE DEF equal
<1>3. 1 .. 6 = {1, 2, 3, 4, 5, 6}
  OBVIOUS
<1> QED BY <1>1, <1>2, <1>3

\* The order prefers one of any two candidates with different ids.
LEMMA KeysOrder ==
  ASSUME NEW b \in ActionCandidate, NEW c \in ActionCandidate, NEW d \in ActionCandidate
  PROVE  /\ ~Precedes(Key(b), Key(b))
         /\ Precedes(Key(b), Key(c)) /\ Precedes(Key(c), Key(d)) => Precedes(Key(b), Key(d))
         /\ Id(b) # Id(c) => Precedes(Key(b), Key(c)) \/ Precedes(Key(c), Key(b))
<1> DEFINE k == Key(b)
           l == Key(c)
           m == Key(d)
<1>1. DOMAIN k = 1 .. 6 /\ DOMAIN l = 1 .. 6 /\ DOMAIN m = 1 .. 6
  BY KeyIs
<1>2. \A i \in 1 .. 6 : k[i] \in Int /\ l[i] \in Int /\ m[i] \in Int
  BY KeyIs
<1>3. Id(b) # Id(c) => k[5] # l[5] \/ k[6] # l[6]
  <2>1. /\ k[5] = TextRank(b.source) /\ k[6] = TextRank(b.action)
        /\ l[5] = TextRank(c.source) /\ l[6] = TextRank(c.action)
    BY KeyIs
  <2>2. /\ b.source \in CandidateSource /\ b.action \in CognitiveActionType
        /\ c.source \in CandidateSource /\ c.action \in CognitiveActionType
    BY DEF ActionCandidate
  <2> QED BY <2>1, <2>2, RankIs DEF Id
<1> HIDE DEF k, l, m
<1>4. /\ k[1] \in Int /\ k[2] \in Int /\ k[3] \in Int /\ k[4] \in Int /\ k[5] \in Int /\ k[6] \in Int
      /\ l[1] \in Int /\ l[2] \in Int /\ l[3] \in Int /\ l[4] \in Int /\ l[5] \in Int /\ l[6] \in Int
      /\ m[1] \in Int /\ m[2] \in Int /\ m[3] \in Int /\ m[4] \in Int /\ m[5] \in Int /\ m[6] \in Int
  BY <1>2
<1>5. ~Precedes(k, k)
  BY <1>1, <1>4, PrecedesIs
<1>6. Precedes(k, l) /\ Precedes(l, m) => Precedes(k, m)
  BY <1>1, <1>4, PrecedesIs
<1>7. Id(b) # Id(c) => Precedes(k, l) \/ Precedes(l, k)
  BY <1>1, <1>3, <1>4, PrecedesIs
<1> QED BY <1>5, <1>6, <1>7 DEF k, l, m

\* Of finitely many candidates with different ids one precedes all others.
LEMMA LeastCandidate ==
  ASSUME NEW cs \in SUBSET ActionCandidate, IsFiniteSet(cs), cs # {},
         \A c, d \in cs : Id(c) = Id(d) => c = d
  PROVE  \E b \in cs : \A d \in cs \ {b} : Precedes(Key(b), Key(d))
<1> DEFINE Before(c) == {d \in cs : Precedes(Key(d), Key(c))}
           T == {Cardinality(Before(c)) : c \in cs}
<1>1. \A c \in cs : IsFiniteSet(Before(c)) /\ Cardinality(Before(c)) \in Nat
  <2>1. \A c \in cs : Before(c) \in SUBSET cs
    OBVIOUS
  <2> HIDE DEF Before
  <2> QED BY <2>1, FS_Subset, FS_CardinalityType
<1>2. PICK b \in cs : \A c \in cs : Cardinality(Before(b)) <= Cardinality(Before(c))
  <2> HIDE DEF Before
  <2>1. T \in SUBSET Nat /\ T # {}
    BY <1>1
  <2>2. \E x \in T : \A y \in T : x <= y
    <3> HIDE DEF T
    <3> QED BY <2>1, Deduplicating!LeastExists
  <2> QED BY <2>2
<1>3. ASSUME NEW d \in cs PROVE ~Precedes(Key(d), Key(b))
  <2> SUFFICES ASSUME Precedes(Key(d), Key(b)) PROVE FALSE
    OBVIOUS
  <2>1. Before(d) \in SUBSET (Before(b) \ {d}) /\ d \in Before(b)
    BY KeysOrder
  <2> HIDE DEF Before
  <2>2. /\ IsFiniteSet(Before(b) \ {d})
        /\ Cardinality(Before(b) \ {d}) = Cardinality(Before(b)) - 1
    BY <1>1, <2>1, FS_RemoveElement
  <2>3. Cardinality(Before(d)) <= Cardinality(Before(b) \ {d})
    BY <2>1, <2>2, FS_Subset
  <2> QED BY <1>1, <1>2, <2>2, <2>3
<1>4. ASSUME NEW d \in cs \ {b} PROVE Precedes(Key(b), Key(d))
  <2>1. Id(b) # Id(d)
    OBVIOUS
  <2> QED BY <1>3, <2>1, KeysOrder
<1> QED BY <1>4

\* It is the one that is chosen.
LEMMA MinIs ==
  ASSUME NEW cs \in SUBSET ActionCandidate, NEW b \in cs,
         \A d \in cs \ {b} : Precedes(Key(b), Key(d))
  PROVE  LexicographicMin(cs) = b
<1> DEFINE least(c) == \A d \in cs \ {c} : Precedes(Key(c), Key(d))
<1>1. \A c \in cs : least(c) => c = b
  <2> SUFFICES ASSUME NEW c \in cs, least(c), c # b PROVE FALSE
    OBVIOUS
  <2>1. Precedes(Key(c), Key(b)) /\ Precedes(Key(b), Key(c))
    OBVIOUS
  <2> QED BY <2>1, KeysOrder
<1>2. LexicographicMin(cs) = CHOOSE c \in cs : least(c)
  BY DEF LexicographicMin
<1>3. least(b)
  OBVIOUS
<1> HIDE DEF least
<1> QED BY <1>1, <1>2, <1>3

----------------------------------------------------------------------------
(* ControlChoice: pruning *)

\* What dominates an equally uncertain candidate precedes it.
LEMMA DominatingPrecedes ==
  ASSUME NEW c \in ActionCandidate, NEW d \in ActionCandidate, c.uncertainty = d.uncertainty,
         Dominates(d, c)
  PROVE  Precedes(Key(d), Key(c))
<1>1. /\ c.safety \in Nat /\ c.uncertainty \in Nat /\ c.quality \in Nat /\ c.information \in Nat
      /\ c.confidence \in Nat /\ c.cost \in Nat
      /\ d.safety \in Nat /\ d.uncertainty \in Nat /\ d.quality \in Nat /\ d.information \in Nat
      /\ d.confidence \in Nat /\ d.cost \in Nat
  BY DEF ActionCandidate
<1>2. /\ d.quality >= c.quality /\ d.information >= c.information
      /\ d.confidence >= c.confidence /\ -d.cost >= -c.cost /\ -d.safety >= -c.safety
      /\ \/ d.quality > c.quality \/ d.information > c.information
         \/ d.confidence > c.confidence \/ -d.cost > -c.cost \/ -d.safety > -c.safety
  <2> DEFINE x == Objectives(d)
             y == Objectives(c)
  <2>1. /\ DOMAIN x = {1, 2, 3, 4, 5}
        /\ x[1] = d.quality /\ x[2] = d.information /\ x[3] = d.confidence
        /\ x[4] = -d.cost /\ x[5] = -d.safety
        /\ y[1] = c.quality /\ y[2] = c.information /\ y[3] = c.confidence
        /\ y[4] = -c.cost /\ y[5] = -c.safety
    BY DEF Objectives
  <2>2. (\A i \in DOMAIN x : x[i] >= y[i]) /\ (\E i \in DOMAIN x : x[i] > y[i])
    BY DEF Dominates
  <2> HIDE DEF x, y
  <2> QED BY <2>1, <2>2
<1>3. /\ DOMAIN Key(d) = 1 .. 6
      /\ Key(d)[1] = d.safety /\ Key(d)[2] = d.uncertainty
      /\ Key(d)[3] = -(d.quality + d.information + d.confidence) /\ Key(d)[4] = d.cost
      /\ Key(c)[1] = c.safety /\ Key(c)[2] = c.uncertainty
      /\ Key(c)[3] = -(c.quality + c.information + c.confidence) /\ Key(c)[4] = c.cost
  BY KeyIs
<1> DEFINE k == Key(d)
           l == Key(c)
           more == d.quality + d.information + d.confidence
           most == c.quality + c.information + c.confidence
<1> HIDE DEF k, l
<1>4. /\ d.safety <= c.safety /\ d.cost <= c.cost /\ more >= most
      /\ d.safety < c.safety \/ d.cost < c.cost \/ more > most
  BY <1>1, <1>2
<1>5. /\ k[1] = d.safety /\ k[2] = c.uncertainty /\ k[3] = -more /\ k[4] = d.cost
      /\ l[1] = c.safety /\ l[2] = c.uncertainty /\ l[3] = -most /\ l[4] = c.cost
  BY <1>3 DEF k, l
<1>6. more \in Int /\ most \in Int
  BY <1>1
<1> HIDE DEF more, most
<1>7. \/ k[1] < l[1]
      \/ k[1] = l[1] /\ k[2] = l[2] /\ k[3] < l[3]
      \/ k[1] = l[1] /\ k[2] = l[2] /\ k[3] = l[3] /\ k[4] < l[4]
  BY <1>1, <1>4, <1>5, <1>6
<1>8. DOMAIN k = 1 .. 6
  BY <1>3 DEF k
<1>9. Precedes(k, l)
  BY <1>7, <1>8, PrecedesIs
<1> QED BY <1>9 DEF k, l

\* Pruning leaves the first of equally uncertain candidates, and it stays first.
LEMMA PruningKeeps == PruningKeepsTheBest
<1> SUFFICES ASSUME NEW offer \in Offers, AuthorizedOf(offer) # {},
                    \A c, d \in AuthorizedOf(offer) : c.uncertainty = d.uncertainty
             PROVE  Select(offer) = LexicographicMin(AuthorizedOf(offer))
  BY DEF PruningKeepsTheBest
<1> DEFINE cs == AuthorizedOf(offer)
<1>1. /\ cs \in SUBSET ActionCandidate /\ IsFiniteSet(cs) /\ cs # {}
      /\ \A c, d \in cs : Id(c) = Id(d) => c = d
      /\ \A c, d \in cs : c.uncertainty = d.uncertainty
  BY AuthorizedToldApart
<1>2. Select(offer) = LexicographicMin(ParetoPrune(cs))
  BY DEF Select
<1> HIDE DEF cs
<1>3. PICK b \in cs : \A d \in cs \ {b} : Precedes(Key(b), Key(d))
  BY <1>1, LeastCandidate
<1>4. ASSUME NEW d \in cs PROVE ~Dominates(d, b)
  <2> SUFFICES ASSUME Dominates(d, b) PROVE FALSE
    OBVIOUS
  <2>1. Precedes(Key(d), Key(b))
    BY <1>1, DominatingPrecedes
  <2>2. CASE d = b
    BY <1>1, <2>1, <2>2, KeysOrder
  <2>3. CASE d # b
    BY <1>1, <1>3, <2>1, <2>3, KeysOrder
  <2> QED BY <2>2, <2>3
<1>5. b \in ParetoPrune(cs) /\ ParetoPrune(cs) \in SUBSET cs
  BY <1>4 DEF ParetoPrune
<1>6. LexicographicMin(cs) = b
  BY <1>1, <1>3, MinIs
<1>7. LexicographicMin(ParetoPrune(cs)) = b
  <2>1. ParetoPrune(cs) \in SUBSET ActionCandidate
    BY <1>1, <1>5
  <2>2. \A d \in ParetoPrune(cs) \ {b} : Precedes(Key(b), Key(d))
    BY <1>3, <1>5
  <2> HIDE DEF ParetoPrune
  <2> QED BY <1>5, <2>1, <2>2, MinIs
<1> QED BY <1>2, <1>6, <1>7 DEF cs

\* The reference controller never proposes what halt() contradicts, and pruning
\* the dominated candidates keeps the one the lexicographic order prefers
\* (SemanticCognitiveController.select, pareto_prune).
THEOREM ChoiceIsSettled == ControlSpec => []ChoiceInvariant
<1>1. HaltAgreesWithNext
  BY DEF HaltAgreesWithNext, AuthorizeProposal, ProposeNext, Halt, CanStop
<1>2. ChoiceInvariant
  BY <1>1, PruningKeeps DEF ChoiceInvariant
<1> QED BY <1>2, PTL

----------------------------------------------------------------------------
(* Adaptation: the kinds of proposals *)

KindSet == {"expand", "wire", "specialize", "compose"}

\* The kinds, as a set.
LEMMA KindsAre == Range(Kinds) = KindSet /\ Kinds \in Seq(KindSet)
BY DEF Kinds, Range, KindSet

KeepStep(p, a, x) == IF x \in p THEN Append(a, x) ELSE a

Keeping == INSTANCE FoldTheorems WITH Step <- KeepStep

\* Choosing among the kinds is a fold of the fold theorems.
LEMMA OnlyIsRun == \A kinds, chosen : OnlyKinds(kinds, chosen) = Keeping!Run(chosen, <<>>, kinds)
BY DEF OnlyKinds, KeepStep, FoldLeft, MapThenFoldSet, Max,
       Keeping!Run, Keeping!FoldLeft, Keeping!MapThenFoldSet, Keeping!Max

\* None of no kinds are chosen.
LEMMA OnlyOfNone == \A chosen : OnlyKinds(<<>>, chosen) = <<>>
BY OnlyIsRun, Keeping!RunEmpty

\* One more kind is kept when it is chosen.
LEMMA OnlyAppend ==
  ASSUME NEW chosen, NEW s \in Seq(KindSet), NEW k \in KindSet
  PROVE  OnlyKinds(Append(s, k), chosen) =
           IF k \in chosen THEN Append(OnlyKinds(s, chosen), k) ELSE OnlyKinds(s, chosen)
BY OnlyIsRun, Keeping!RunAppend DEF KeepStep

\* What is kept are kinds of the sequence that were chosen.
LEMMA OnlyAre ==
  ASSUME NEW chosen, NEW s \in Seq(KindSet)
  PROVE  /\ OnlyKinds(s, chosen) \in Seq(KindSet)
         /\ \A i \in DOMAIN OnlyKinds(s, chosen) :
              OnlyKinds(s, chosen)[i] \in Range(s) \cap chosen
<1> DEFINE T == Range(s) \cap chosen
           A == Seq(T)
<1>1. <<>> \in A
  OBVIOUS
<1>2. ASSUME NEW k \in DOMAIN s, NEW a \in A PROVE KeepStep(chosen, a, s[k]) \in A
  <2>1. s[k] \in Range(s)
    BY DEF Range
  <2>2. CASE s[k] \in chosen
    <3>1. s[k] \in T
      BY <2>1, <2>2
    <3>2. Append(a, s[k]) \in Seq(T)
      <4> HIDE DEF T
      <4> QED BY <3>1
    <3> QED BY <2>2, <3>2 DEF KeepStep
  <2>3. CASE s[k] \notin chosen
    BY <2>3 DEF KeepStep
  <2> QED BY <2>2, <2>3
<1>3. OnlyKinds(s, chosen) \in A
  <2> HIDE DEF A
  <2>1. Keeping!Run(chosen, <<>>, s) \in A
    BY <1>1, <1>2, Keeping!RunStays
  <2> QED BY <2>1, OnlyIsRun
<1>4. T \subseteq KindSet
  BY DEF Range
<1> HIDE DEF T
<1>5. A \subseteq Seq(KindSet)
  BY <1>4
<1>6. \A i \in DOMAIN OnlyKinds(s, chosen) : OnlyKinds(s, chosen)[i] \in T
  BY <1>3
<1> QED BY <1>3, <1>5, <1>6 DEF T

\* A sequence without a chosen kind keeps nothing.
LEMMA OnlyNothing ==
  ASSUME NEW chosen, NEW s \in Seq(KindSet), \A i \in DOMAIN s : s[i] \notin chosen
  PROVE  OnlyKinds(s, chosen) = <<>>
<1> DEFINE o == OnlyKinds(s, chosen)
<1>1. o \in Seq(KindSet) /\ \A i \in DOMAIN o : o[i] \in Range(s) \cap chosen
  BY OnlyAre
<1>2. Range(s) \cap chosen = {}
  BY DEF Range
<1> HIDE DEF o
<1>3. DOMAIN o = {}
  BY <1>1, <1>2
<1>4. Len(o) \in Nat /\ DOMAIN o = 1 .. Len(o)
  BY <1>1
<1>5. Len(o) = 0
  BY <1>3, <1>4
<1>6. o = <<>>
  BY <1>1, <1>5, EmptySeq
<1> QED BY <1>6 DEF o

----------------------------------------------------------------------------
(* Adaptation: learning never reorders *)

IsInfluence(f) ==
  /\ f.preferred \in {{"ADD_UNIT", "CONNECT_UNITS"}, {}}
  /\ f.avoided \in {{"COMPOSE_UNITS", "SPECIALIZE_UNIT"}, {}}

\* The rank of each kind: the ones learning may prefer before the ones it may avoid.
LEMMA RanksAre ==
  ASSUME NEW units \in Nat, NEW f, IsInfluence(f)
  PROVE  /\ RankScore("expand", units, f) \in {4, 2, 0}
         /\ RankScore("wire", units, f) \in {2, 0}
         /\ RankScore("specialize", units, f) \in {0, -3}
         /\ RankScore("compose", units, f) = RankScore("specialize", units, f)
         /\ RankScore("expand", units, f) >= RankScore("wire", units, f)
<1> DEFINE A == {"ADD_UNIT", "CONNECT_UNITS"}
           S == {"COMPOSE_UNITS", "SPECIALIZE_UNIT"}
<1>1. Cardinality({}) = 0 /\ Cardinality({"ADD_UNIT"}) = 1 /\ Cardinality(A) = 2
      /\ Cardinality({"CONNECT_UNITS"}) = 1 /\ Cardinality({"SPECIALIZE_UNIT"}) = 1
      /\ Cardinality({"COMPOSE_UNITS"}) = 1
  <2>1. A = {"ADD_UNIT"} \cup {"CONNECT_UNITS"} /\ "CONNECT_UNITS" \notin {"ADD_UNIT"}
    OBVIOUS
  <2>2. /\ IsFiniteSet({"ADD_UNIT"}) /\ Cardinality({"ADD_UNIT"}) = 1
        /\ Cardinality({"CONNECT_UNITS"}) = 1 /\ Cardinality({"SPECIALIZE_UNIT"}) = 1
        /\ Cardinality({"COMPOSE_UNITS"}) = 1
    BY FS_Singleton
  <2>3. Cardinality({"ADD_UNIT"} \cup {"CONNECT_UNITS"}) = 1 + 1
    BY <2>1, <2>2, FS_AddElement
  <2> QED BY <2>1, <2>2, <2>3, FS_EmptySet
<1> DEFINE P(kind) == Cardinality(Operations(kind, units) \cap f.preferred)
           Q(kind) == Cardinality(Operations(kind, units) \cap f.avoided)
<1>2. /\ Operations("expand", units) \in {{"ADD_UNIT"}, A}
      /\ Operations("wire", units) = {"CONNECT_UNITS"}
      /\ Operations("specialize", units) = {"SPECIALIZE_UNIT"}
      /\ Operations("compose", units) = {"COMPOSE_UNITS"}
  BY DEF Operations
<1>3. f.preferred \in {A, {}} /\ f.avoided \in {S, {}}
  BY DEF IsInfluence
<1>4. /\ A \cap A = A /\ {"ADD_UNIT"} \cap A = {"ADD_UNIT"}
      /\ {"CONNECT_UNITS"} \cap A = {"CONNECT_UNITS"}
      /\ {"SPECIALIZE_UNIT"} \cap A = {} /\ {"COMPOSE_UNITS"} \cap A = {}
      /\ A \cap S = {} /\ {"ADD_UNIT"} \cap S = {} /\ {"CONNECT_UNITS"} \cap S = {}
      /\ {"SPECIALIZE_UNIT"} \cap S = {"SPECIALIZE_UNIT"}
      /\ {"COMPOSE_UNITS"} \cap S = {"COMPOSE_UNITS"}
      /\ \A T : T \cap {} = {}
  OBVIOUS
<1> HIDE DEF A, S
<1>5. ASSUME NEW kind PROVE RankScore(kind, units, f) = 2 * P(kind) - 3 * Q(kind)
  BY DEF RankScore
<1>6. P("specialize") = 0 /\ P("compose") = 0
  <2>1. /\ {"SPECIALIZE_UNIT"} \cap f.preferred = {}
        /\ {"COMPOSE_UNITS"} \cap f.preferred = {}
    BY <1>3, <1>4
  <2> QED BY <1>1, <1>2, <2>1
<1>7. Q("expand") = 0 /\ Q("wire") = 0
  <2>1. /\ A \cap f.avoided = {} /\ {"ADD_UNIT"} \cap f.avoided = {}
        /\ {"CONNECT_UNITS"} \cap f.avoided = {}
    BY <1>3, <1>4
  <2> QED BY <1>1, <1>2, <2>1
<1>8. Q("specialize") \in {0, 1} /\ Q("compose") = Q("specialize")
  <2>1. CASE f.avoided = {}
    BY <1>1, <2>1, <1>4
  <2>2. CASE f.avoided = S
    <3>1. /\ {"SPECIALIZE_UNIT"} \cap f.avoided = {"SPECIALIZE_UNIT"}
          /\ {"COMPOSE_UNITS"} \cap f.avoided = {"COMPOSE_UNITS"}
      BY <1>4, <2>2
    <3> QED BY <1>1, <1>2, <3>1
  <2> QED BY <1>3, <2>1, <2>2
<1>9. \/ P("expand") = 0 /\ P("wire") = 0
      \/ P("expand") \in {1, 2} /\ P("wire") = 1
  <2>1. CASE f.preferred = {}
    BY <1>1, <2>1, <1>4
  <2>2. CASE f.preferred = A
    <3>1. /\ {"CONNECT_UNITS"} \cap f.preferred = {"CONNECT_UNITS"}
          /\ {"ADD_UNIT"} \cap f.preferred = {"ADD_UNIT"} /\ A \cap f.preferred = A
      BY <1>4, <2>2
    <3> QED BY <1>1, <1>2, <3>1
  <2> QED BY <1>3, <2>1, <2>2
<1> HIDE DEF P, Q
<1> QED BY <1>5, <1>6, <1>7, <1>8, <1>9

\* A proposal that ranks no higher than those before it stays behind them.
LEMMA RankedAppend ==
  ASSUME NEW units \in Nat, NEW f, NEW s \in Seq(KindSet), NEW k \in KindSet,
         RankedByLearning(s, units, f) = s,
         RankScore(k, units, f) \in {4, 2, 0, -3},
         \A i \in DOMAIN s : RankScore(s[i], units, f) \in {4, 2, 0, -3}
                             /\ RankScore(s[i], units, f) >= RankScore(k, units, f)
  PROVE  RankedByLearning(Append(s, k), units, f) = Append(s, k)
<1> DEFINE r == RankScore(k, units, f)
           C(v) == {kind \in Range(Kinds) : RankScore(kind, units, f) = v}
           O(v) == OnlyKinds(s, C(v))
           N(v) == OnlyKinds(Append(s, k), C(v))
<1>1. \A v : O(v) \in Seq(KindSet)
  BY OnlyAre
<1>2. \A v : N(v) = IF r = v THEN Append(O(v), k) ELSE O(v)
  BY OnlyAppend, KindsAre
<1>3. ASSUME NEW v \in {4, 2, 0, -3}, v < r PROVE O(v) = <<>>
  <2>1. \A i \in DOMAIN s : s[i] \notin C(v)
    BY <1>3
  <2> QED BY <2>1, OnlyNothing
<1>4. O(4) \o O(2) \o O(0) \o O(-3) = s
  BY DEF RankedByLearning
<1>5. RankedByLearning(Append(s, k), units, f) = N(4) \o N(2) \o N(0) \o N(-3)
  BY DEF RankedByLearning
<1>6. r \in {4, 2, 0, -3}
  OBVIOUS
<1> HIDE DEF O, N, r
<1>7. N(4) \o N(2) \o N(0) \o N(-3) = Append(s, k)
  <2> DEFINE a == O(4)
             b == O(2)
             c == O(0)
             d == O(-3)
  <2>1. a \in Seq(KindSet) /\ b \in Seq(KindSet) /\ c \in Seq(KindSet) /\ d \in Seq(KindSet)
    BY <1>1
  <2>2. CASE r = -3
    <3>1. N(4) = a /\ N(2) = b /\ N(0) = c /\ N(-3) = Append(d, k)
      BY <1>2, <2>2
    <3> HIDE DEF a, b, c, d
    <3>2. a \o b \o c \o Append(d, k) = Append(a \o b \o c \o d, k)
      BY <2>1
    <3> QED BY <1>4, <3>1, <3>2 DEF a, b, c, d
  <2>3. CASE r = 0
    <3>1. N(4) = a /\ N(2) = b /\ N(0) = Append(c, k) /\ N(-3) = <<>> /\ d = <<>>
      BY <1>2, <1>3, <2>3
    <3> HIDE DEF a, b, c, d
    <3>2. a \o b \o Append(c, k) \o <<>> = Append(a \o b \o c \o <<>>, k)
      BY <2>1
    <3> QED BY <1>4, <3>1, <3>2 DEF a, b, c, d
  <2>4. CASE r = 2
    <3>1. N(4) = a /\ N(2) = Append(b, k) /\ N(0) = <<>> /\ N(-3) = <<>> /\ c = <<>> /\ d = <<>>
      BY <1>2, <1>3, <2>4
    <3> HIDE DEF a, b, c, d
    <3>2. a \o Append(b, k) \o <<>> \o <<>> = Append(a \o b \o <<>> \o <<>>, k)
      BY <2>1
    <3> QED BY <1>4, <3>1, <3>2 DEF a, b, c, d
  <2>5. CASE r = 4
    <3>1. /\ N(4) = Append(a, k) /\ N(2) = <<>> /\ N(0) = <<>> /\ N(-3) = <<>>
          /\ b = <<>> /\ c = <<>> /\ d = <<>>
      BY <1>2, <1>3, <2>5
    <3> HIDE DEF a, b, c, d
    <3>2. Append(a, k) \o <<>> \o <<>> \o <<>> = Append(a \o <<>> \o <<>> \o <<>>, k)
      BY <2>1
    <3> QED BY <1>4, <3>1, <3>2 DEF a, b, c, d
  <2> QED BY <1>6, <2>2, <2>3, <2>4, <2>5
<1> QED BY <1>5, <1>7

\* Four stages: the proposals learned about are the proposals, in their order.
LEMMA ProposalsStay ==
  ASSUME NEW chosen, NEW units \in Nat, NEW f, IsInfluence(f)
  PROVE  RankedByLearning(OnlyKinds(Kinds, chosen), units, f) = OnlyKinds(Kinds, chosen)
<1> DEFINE e == <<>>
           k1 == Append(e, "expand")
           k2 == Append(k1, "wire")
           k3 == Append(k2, "specialize")
           k4 == Append(k3, "compose")
           R(kind) == RankScore(kind, units, f)
           o(s) == OnlyKinds(s, chosen)
           Stays(s) == RankedByLearning(o(s), units, f) = o(s)
<1>1. Kinds = k4
  BY DEF Kinds
<1>2. e \in Seq(KindSet) /\ k1 \in Seq(KindSet) /\ k2 \in Seq(KindSet) /\ k3 \in Seq(KindSet)
  BY DEF KindSet
<1>3. /\ Range(e) = {} /\ Range(k1) = {"expand"} /\ Range(k2) = {"expand", "wire"}
      /\ Range(k3) = {"expand", "wire", "specialize"}
  BY DEF Range
<1>4. \A kind \in KindSet : R(kind) \in {4, 2, 0, -3}
  BY RanksAre DEF KindSet
<1>5. ASSUME NEW s \in Seq(KindSet), NEW k \in KindSet, Stays(s),
             \A kind \in Range(s) : R(kind) >= R(k)
      PROVE  Stays(Append(s, k))
  <2>1. o(s) \in Seq(KindSet) /\ \A i \in DOMAIN o(s) : o(s)[i] \in Range(s) \cap chosen
    BY OnlyAre
  <2>2. \A i \in DOMAIN o(s) : o(s)[i] \in KindSet
    BY <2>1
  <2>3. CASE k \in chosen
    <3>1. o(Append(s, k)) = Append(o(s), k)
      BY <2>3, OnlyAppend
    <3>2. \A i \in DOMAIN o(s) : R(o(s)[i]) \in {4, 2, 0, -3} /\ R(o(s)[i]) >= R(k)
      BY <1>4, <1>5, <2>1, <2>2
    <3>3. R(k) \in {4, 2, 0, -3}
      BY <1>4
    <3> HIDE DEF o
    <3>4. RankedByLearning(Append(o(s), k), units, f) = Append(o(s), k)
      BY <1>5, <2>1, <3>2, <3>3, RankedAppend
    <3> QED BY <3>1, <3>4
  <2>4. CASE k \notin chosen
    <3>1. o(Append(s, k)) = o(s)
      BY <2>4, OnlyAppend
    <3> QED BY <1>5, <3>1
  <2> QED BY <2>3, <2>4
<1>6. Stays(e)
  <2>1. o(e) = e /\ \A c : OnlyKinds(e, c) = e
    BY OnlyOfNone
  <2>2. e \o e = e
    OBVIOUS
  <2> HIDE DEF e, o
  <2> QED BY <2>1, <2>2 DEF RankedByLearning
<1>7. /\ "expand" \in KindSet /\ "wire" \in KindSet /\ "specialize" \in KindSet /\ "compose" \in KindSet
  BY DEF KindSet
<1>8. /\ R("expand") \in {4, 2, 0} /\ R("wire") \in {2, 0} /\ R("specialize") \in {0, -3}
      /\ R("compose") = R("specialize") /\ R("expand") >= R("wire")
  BY RanksAre
<1> HIDE DEF e, R, Stays
<1>9. Stays(k1)
  BY <1>2, <1>3, <1>5, <1>6, <1>7
<1> HIDE DEF k1
<1>10. Stays(k2)
  BY <1>2, <1>3, <1>5, <1>7, <1>8, <1>9
<1> HIDE DEF k2
<1>11. Stays(k3)
  <2>1. \A kind \in Range(k2) : R(kind) >= R("specialize")
    BY <1>3, <1>8
  <2> QED BY <1>2, <1>5, <1>7, <1>10, <2>1
<1> HIDE DEF k3
<1>12. Stays(k4)
  <2>1. \A kind \in Range(k3) : R(kind) >= R("compose")
    BY <1>3, <1>8
  <2> QED BY <1>2, <1>5, <1>7, <1>11, <2>1
<1> QED BY <1>1, <1>12 DEF Stays

\* What is learned is an influence.
LEMMA InfluenceIs == \A k : IsInfluence(Influence(k))
BY DEF IsInfluence, Influence

----------------------------------------------------------------------------
(* Adaptation: what is authorized and executed *)

IsContext(x) ==
  /\ x.units \in Nat /\ x.edges \in Nat /\ x.since \in 0 .. Settled /\ x.recent \in Nat
  /\ x.baseline \in Int

\* Utilities are measured in whole parts of a ten-thousandth.
LEMMA PartsAre ==
  /\ TenThousandth \in Nat \ {0} /\ Hundredth = 100 * TenThousandth
  /\ Precision \in Nat \ {0} /\ Objective.max_units \in Nat \ {0}
<1>1. Precision \in Nat \ {0} /\ Objective.max_units \in Nat \ {0}
  BY CycleBounds, ObjectiveAssumption
<1>2. \A a, b \in Nat \ {0} : a * b \in Nat \ {0}
  OBVIOUS
<1> QED BY <1>1, <1>2 DEF TenThousandth, Hundredth

\* A penalty never rewards.
LEMMA PenaltiesAre ==
  ASSUME NEW x, IsContext(x)
  PROVE  ComplexityPenalty(x) \in Nat /\ ChurnPenalty(x) \in Nat
<1>1. ComplexityPenalty(x) \in Nat
  <2> DEFINE n == 2 * x.units - Objective.max_units
             m == 1500 * Precision * n
  <2>1. n \in Int
    BY PartsAre DEF IsContext
  <2> HIDE DEF n
  <2>2. m \in Int
    BY <2>1, PartsAre
  <2> HIDE DEF m
  <2>3. Most(0, m) \in Nat
    BY <2>2 DEF Most
  <2> QED BY <2>3 DEF ComplexityPenalty, m, n
<1>2. ChurnPenalty(x) \in Nat
  <2> DEFINE c == IF x.since < 3 THEN Most(0, 2000 - 700 * x.since)
                  ELSE IF x.recent > ChurnAfter THEN Least(1000, 100 * (x.recent - ChurnAfter)) ELSE 0
  <2>1. c \in Nat
    BY CycleBounds DEF Most, Least, IsContext, Settled
  <2>2. ChurnPenalty(x) = TenThousandth * c
    BY DEF ChurnPenalty
  <2> HIDE DEF c
  <2>3. TenThousandth * c \in Nat
    BY <2>1, PartsAre
  <2> QED BY <2>2, <2>3
<1> QED BY <1>1, <1>2

\* The least a kind must be expected to gain to reach the threshold.
NeededMargin == [wire |-> 460, specialize |-> 3800, compose |-> 1800]

\* The bonus against the gain: nothing for no gain, at most twice the net gain
\* where that is below 0.05 or so, at most the net gain above.
LEMMA BonusIs ==
  ASSUME NEW t \in Nat \ {0}, t = TenThousandth, NEW marginal \in Int, NEW net \in Nat, NEW x
  PROVE  /\ TwiceBonus(marginal, net, x) \in Nat
         /\ marginal <= 0 => TwiceBonus(marginal, net, x) = 0
         /\ \/ net <= 500 * t /\ TwiceBonus(marginal, net, x) <= 2 * net
            \/ TwiceBonus(marginal, net, x) <= net
<1> DEFINE b == TwiceBonus(marginal, net, x)
<1>1. CASE marginal <= 0
  BY <1>1 DEF TwiceBonus
<1>2. CASE ~(marginal <= 0) /\ Below(net, 500 * t, "bonus", x.rounding)
  <2>1. b = 2 * net
    BY <1>2 DEF TwiceBonus
  <2>2. net <= 500 * t
    <3> DEFINE l == 500 * t
    <3>1. l \in Int
      OBVIOUS
    <3> HIDE DEF l
    <3>2. net < l \/ net = l
      BY <1>2 DEF Below, l
    <3> QED BY <3>1, <3>2 DEF l
  <2> QED BY <1>2, <2>1, <2>2
<1>3. CASE ~(marginal <= 0) /\ ~Below(net, 500 * t, "bonus", x.rounding)
  <2>1. b = Least(4000 * t, net)
    BY <1>3 DEF TwiceBonus
  <2>2. b \in Nat /\ b <= net
    BY <2>1 DEF Least
  <2> QED BY <1>3, <2>2
<1> QED BY <1>1, <1>2, <1>3

\* A change other than an expansion is authorized only when it is expected to pay.
LEMMA AuthorizedPays ==
  ASSUME NEW x, IsContext(x), NEW kind \in KindSet, kind # "expand", Authorizes(kind, x)
  PROVE  Margin(kind, x) >= NeededMargin[kind] * TenThousandth
<1> DEFINE c == ComplexityPenalty(x)
           h == ChurnPenalty(x)
           t == TenThousandth
           m == Margin(kind, x)
           net == Most(0, m - c - h)
           bonus == TwiceBonus(m, net, x)
           base == BaseScore(kind)
           needed == NeededMargin[kind]
<1>1. c \in Nat /\ h \in Nat /\ t \in Nat \ {0}
  BY PenaltiesAre, PartsAre
<1>2. m \in Int
  <2>1. ExpectedUtility[kind] \in Nat /\ x.baseline \in Int
    BY DEF KindSet, ExpectedUtility, IsContext
  <2>2. ExpectedUtility[kind] * Hundredth \in Int
    BY <2>1, PartsAre
  <2> QED BY <2>1, <2>2 DEF Margin
<1>3. \/ kind = "wire" /\ base = 7540 /\ needed = 460
      \/ kind = "specialize" /\ base = 6100 /\ needed = 3800
      \/ kind = "compose" /\ base = 7100 /\ needed = 1800
  BY DEF KindSet, BaseScore, ExpectedUtility, EstimatedCost, RiskScore, NeededMargin
<1>4. TwiceScore(kind, x) = Least(20000 * t, 2 * base * t + bonus)
  BY DEF TwiceScore
<1>5. ~Below(TwiceScore(kind, x), 16000 * t, "authorize", x.rounding)
  BY DEF Authorizes
<1> HIDE DEF c, h, m, base, needed
<1>6. net \in Nat /\ (m > 0 => net <= m)
  BY <1>1, <1>2 DEF Most
<1> HIDE DEF net
<1>7. /\ bonus \in Nat /\ (m <= 0 => bonus = 0)
      /\ (net <= 500 * t /\ bonus <= 2 * net) \/ bonus <= net
  BY <1>1, <1>2, <1>6, BonusIs
<1> HIDE DEF bonus, t
<1>8. ~(TwiceScore(kind, x) < 16000 * t)
  BY <1>5 DEF Below
<1>9. m >= needed * t
  <2>1. CASE base = 7540 /\ needed = 460
    BY <1>1, <1>2, <1>4, <1>6, <1>7, <1>8, <2>1 DEF Least
  <2>2. CASE base = 6100 /\ needed = 3800
    BY <1>1, <1>2, <1>4, <1>6, <1>7, <1>8, <2>2 DEF Least
  <2>3. CASE base = 7100 /\ needed = 1800
    BY <1>1, <1>2, <1>4, <1>6, <1>7, <1>8, <2>3 DEF Least
  <2> QED BY <1>3, <2>1, <2>2, <2>3
<1> QED BY <1>9 DEF m, needed, t

\* Proposals are kinds, and what is authorized of them are kinds of theirs that
\* the controller authorizes.
LEMMA AuthorizedAre ==
  ASSUME NEW x, NEW y, NEW s, s = Proposals(y)
  PROVE  /\ s \in Seq(KindSet) /\ Len(s) \in Nat
         /\ AuthorizedProposals(s, x) \in Seq(KindSet)
         /\ \A i \in DOMAIN AuthorizedProposals(s, x) :
              /\ AuthorizedProposals(s, x)[i] \in KindSet
              /\ Authorizes(AuthorizedProposals(s, x)[i], x)
              /\ Needed(AuthorizedProposals(s, x)[i], y)
<1> DEFINE N == {kind \in Range(Kinds) : Needed(kind, y)}
           C == {kind \in Range(Kinds) : Authorizes(kind, x)}
<1>1. s \in Seq(KindSet) /\ \A i \in DOMAIN s : s[i] \in Range(Kinds) \cap N
  BY KindsAre, OnlyAre DEF Proposals
<1>2. Range(s) \subseteq N
  BY <1>1 DEF Range
<1>3. /\ AuthorizedProposals(s, x) \in Seq(KindSet)
      /\ \A i \in DOMAIN AuthorizedProposals(s, x) :
           AuthorizedProposals(s, x)[i] \in Range(s) \cap C
  BY <1>1, OnlyAre DEF AuthorizedProposals
<1> QED BY <1>1, <1>2, <1>3, KindsAre

\* The first of a sequence of kinds that is not empty, and the best of it.
LEMMA TopIsKind ==
  ASSUME NEW x, NEW s \in Seq(KindSet), s # <<>>
  PROVE  /\ s[1] \in KindSet /\ 1 \in DOMAIN s
         /\ TopScoring(s, x) \subseteq KindSet
<1>1. Len(s) \in Nat \ {0} /\ DOMAIN s = 1 .. Len(s)
  BY EmptySeq
<1>2. Range(s) \subseteq KindSet
  BY <1>1 DEF Range
<1> QED BY <1>1, <1>2 DEF TopScoring

\* What a decision must be, and what a structure must be, in any state.
IsDecision(d) ==
  /\ d \in [authorized : KindSet \cup {NoKind}, executed : KindSet \cup {NoKind},
            margin : Int, reordered : BOOLEAN]
  /\ ~d.reordered
  /\ d.executed \notin {NoKind, "expand"} => d.margin >= NeededMargin[d.executed] * TenThousandth

IsStructure(g) ==
  /\ g = [units |-> g.units, edges |-> g.edges, version |-> g.version]
  /\ g.units \in Nat /\ g.version \in Nat
  /\ g.edges \subseteq (1 .. g.units) \X (1 .. g.units)
  /\ g.units <= Objective.max_units /\ Cardinality(g.edges) <= Objective.max_edges

IsPacing(p) == p \in [since : 0 .. Settled, recent : Nat, harmed : BOOLEAN, observed : Int]

IsTally(t) ==
  t \in [cycles : Nat, generated : Nat, authorized : Nat, commits : Nat, rollbacks : Nat]

Accounted(d, g, t) ==
  /\ d = "control" \/ (d = "system" /\ EnableMutation) => t.authorized = t.commits + t.rollbacks
  /\ g.version = t.commits

\* The inductive invariant, one variable at a time.
LEMMA InvParts ==
  AdaptationInv <=> /\ driver \in {"system", "learned", "control"}
                    /\ IsStructure(structure) /\ IsPacing(pacing) /\ IsTally(tally)
                    /\ IsDecision(decided) /\ Accounted(driver, structure, tally)
                    /\ knowledge \in Seq(BOOLEAN)
                    /\ assessed \in Utilities \cup {NoAssessment}
<1>1. AdaptationInv => /\ driver \in {"system", "learned", "control"}
                       /\ IsStructure(structure) /\ IsPacing(pacing) /\ IsTally(tally)
                       /\ IsDecision(decided) /\ Accounted(driver, structure, tally)
                       /\ knowledge \in Seq(BOOLEAN)
                       /\ assessed \in Utilities \cup {NoAssessment}
  BY KindsAre
  DEF AdaptationInv, AdaptationRecords, AdaptationInvariant, AdaptationTypeOK, GrowthAccounted,
      MarginalGate, LearningNeverReorders, IsStructure, IsPacing, IsTally, IsDecision, Accounted,
      NeededMargin
<1>2. ASSUME /\ driver \in {"system", "learned", "control"}
             /\ IsStructure(structure) /\ IsPacing(pacing) /\ IsTally(tally)
             /\ IsDecision(decided) /\ Accounted(driver, structure, tally)
             /\ knowledge \in Seq(BOOLEAN)
             /\ assessed \in Utilities \cup {NoAssessment}
      PROVE  AdaptationInv
  BY <1>2, KindsAre
  DEF AdaptationInv, AdaptationRecords, AdaptationInvariant, AdaptationTypeOK, GrowthAccounted,
      MarginalGate, LearningNeverReorders, IsStructure, IsPacing, IsTally, IsDecision, Accounted,
      NeededMargin
<1> QED BY <1>1, <1>2

\* The same of the state after a step.
LEMMA InvPartsNext ==
  AdaptationInv' <=> /\ driver' \in {"system", "learned", "control"}
                     /\ IsStructure(structure') /\ IsPacing(pacing') /\ IsTally(tally')
                     /\ IsDecision(decided') /\ Accounted(driver', structure', tally')
                     /\ knowledge' \in Seq(BOOLEAN)
                     /\ assessed' \in Utilities \cup {NoAssessment}
BY KindsAre
DEF AdaptationInv, AdaptationRecords, AdaptationInvariant, AdaptationTypeOK, GrowthAccounted,
    MarginalGate, LearningNeverReorders, IsStructure, IsPacing, IsTally, IsDecision, Accounted,
    NeededMargin

\* A decision to execute what is first of the authorized.
LEMMA DecisionIs ==
  ASSUME NEW x, IsContext(x), NEW e, e = AuthorizedProposals(Proposals(x), x), e # <<>>
  PROVE  /\ \A d \in Decisions(e, x, FALSE) : IsDecision(d)
         /\ Executed(e, x) \in KindSet /\ Needed(Executed(e, x), x)
<1> DEFINE k == Executed(e, x)
<1>1. e \in Seq(KindSet)
  BY AuthorizedAre
<1>2. k \in KindSet /\ 1 \in DOMAIN e /\ TopScoring(e, x) \subseteq KindSet /\ k = e[1]
  BY <1>1, TopIsKind DEF Executed
<1>3. Authorizes(k, x) /\ Needed(k, x)
  BY <1>2, AuthorizedAre
<1>4. Margin(k, x) \in Int
  <2>1. ExpectedUtility[k] \in Nat /\ x.baseline \in Int
    BY <1>2 DEF KindSet, ExpectedUtility, IsContext
  <2>2. ExpectedUtility[k] * Hundredth \in Int
    BY <2>1, PartsAre
  <2> QED BY <2>1, <2>2 DEF Margin
<1>5. k # "expand" => Margin(k, x) >= NeededMargin[k] * TenThousandth
  BY <1>2, <1>3, AuthorizedPays
<1>6. ASSUME NEW d \in Decisions(e, x, FALSE) PROVE IsDecision(d)
  <2> HIDE DEF k
  <2>1. PICK top \in TopScoring(e, x) :
          d = [authorized |-> top, executed |-> k, margin |-> Margin(k, x), reordered |-> FALSE]
    BY <1>6 DEF Decisions, k
  <2> DEFINE M == Margin(k, x)
  <2>2. top \in KindSet /\ M \in Int
    BY <1>2, <1>4
  <2>3. d = [authorized |-> top, executed |-> k, margin |-> M, reordered |-> FALSE]
    BY <2>1
  <2>4. k # "expand" => M >= NeededMargin[k] * TenThousandth
    BY <1>5
  <2> HIDE DEF M
  <2>5. /\ d.authorized = top /\ d.executed = k /\ d.margin = M /\ d.reordered = FALSE
        /\ d \in [authorized : KindSet \cup {NoKind}, executed : KindSet \cup {NoKind},
                  margin : Int, reordered : BOOLEAN]
    BY <1>2, <2>2, <2>3
  <2> QED BY <2>4, <2>5 DEF IsDecision
<1> QED BY <1>2, <1>3, <1>6

\* No decision.
LEMMA UndecidedIs == IsDecision(Undecided)
BY DEF IsDecision, Undecided

\* The edges of a structure are finitely many, and one more is at most one more.
LEMMA EdgesAre ==
  ASSUME NEW n \in Nat, NEW E \in SUBSET ((1 .. n) \X (1 .. n)), NEW e
  PROVE  /\ IsFiniteSet(E) /\ Cardinality(E) \in Nat
         /\ Cardinality(E \cup {e}) <= Cardinality(E) + 1
<1>1. IsFiniteSet(1 .. n)
  BY FS_Interval
<1>2. IsFiniteSet((1 .. n) \X (1 .. n))
  BY <1>1, FS_Product
<1>3. IsFiniteSet(E)
  BY <1>2, FS_Subset
<1>4. Cardinality(E) \in Nat
  BY <1>3, FS_CardinalityType
<1>5. Cardinality(E \cup {e}) <= Cardinality(E) + 1
  BY <1>3, <1>4, FS_AddElement
<1> QED BY <1>3, <1>4, <1>5

\* A change that was needed and commits keeps the structure within its limits.
LEMMA MutatedIs ==
  ASSUME NEW g, IsStructure(g), NEW k \in KindSet, MayCommit(k, g), NEW x,
         x.units = g.units, x.edges = Cardinality(g.edges), Needed(k, x)
  PROVE  IsStructure(Mutated(k, g)) /\ Mutated(k, g).version = g.version + 1
<1>1. /\ g.units \in Nat /\ g.version \in Nat /\ g.edges \subseteq (1 .. g.units) \X (1 .. g.units)
      /\ g.units <= Objective.max_units /\ Cardinality(g.edges) <= Objective.max_edges
      /\ g = [units |-> g.units, edges |-> g.edges, version |-> g.version]
  BY DEF IsStructure
<1>2. Objective.max_units \in Nat \ {0} /\ Objective.max_edges \in Nat \ {0}
  BY ObjectiveAssumption
<1>3. /\ Cardinality(g.edges) \in Nat
      /\ \A e : Cardinality(g.edges \cup {e}) <= Cardinality(g.edges) + 1
  BY <1>1, EdgesAre
<1> DEFINE U == g.units
           E == g.edges
           V == g.version
<1>4. CASE k = "expand"
  <2> DEFINE new == {<<1, U + 1>>}
  <2>1. U < Objective.max_units /\ (U = 0 \/ Cardinality(E) < Objective.max_edges)
    BY <1>4 DEF Needed, NeedsExpansion
  <2>2. Mutated(k, g) = [units |-> U + 1, edges |-> E \cup (IF U = 0 THEN {} ELSE new),
                         version |-> V + 1]
    BY <1>4 DEF Mutated
  <2>3. \A i \in 1 .. U : i \in 1 .. U + 1
    BY <1>1
  <2>4. E \subseteq (1 .. U + 1) \X (1 .. U + 1)
    BY <1>1, <2>3
  <2>5. CASE U = 0
    <3>1. Mutated(k, g) = [units |-> U + 1, edges |-> E, version |-> V + 1]
      BY <2>2, <2>5
    <3> DEFINE m == [units |-> U + 1, edges |-> E, version |-> V + 1]
    <3>2. m.units = U + 1 /\ m.edges = E /\ m.version = V + 1
      OBVIOUS
    <3>3. m = [units |-> m.units, edges |-> m.edges, version |-> m.version]
      OBVIOUS
    <3> HIDE DEF m, U, E, V
    <3>4. IsStructure(m)
      BY <1>1, <1>2, <2>1, <2>4, <3>2, <3>3 DEF IsStructure, U, E, V
    <3> QED BY <3>1, <3>2, <3>4 DEF m, V
  <2>6. CASE U # 0
    <3> DEFINE F == E \cup new
               m == [units |-> U + 1, edges |-> F, version |-> V + 1]
    <3>1. Mutated(k, g) = m
      BY <2>2, <2>6
    <3>2. m.units = U + 1 /\ m.edges = F /\ m.version = V + 1
      OBVIOUS
    <3>3. m = [units |-> m.units, edges |-> m.edges, version |-> m.version]
      OBVIOUS
    <3>4. Cardinality(F) <= Cardinality(E) + 1 /\ Cardinality(F) \in Nat
          /\ F \subseteq (1 .. U + 1) \X (1 .. U + 1)
      <4>1. 1 \in 1 .. U + 1 /\ U + 1 \in 1 .. U + 1 /\ U + 1 \in Nat
        BY <1>1
      <4>2. F \subseteq (1 .. U + 1) \X (1 .. U + 1)
        BY <2>4, <4>1
      <4>3. Cardinality(F) <= Cardinality(E) + 1
        BY <1>3
      <4>4. F \in SUBSET ((1 .. U + 1) \X (1 .. U + 1))
        BY <4>2
      <4> HIDE DEF F, U
      <4>5. Cardinality(F) \in Nat
        BY <4>1, <4>4, EdgesAre
      <4> QED BY <4>2, <4>3, <4>5
    <3> HIDE DEF m, F
    <3>5. Cardinality(F) <= Objective.max_edges /\ U + 1 <= Objective.max_units
      BY <1>1, <1>2, <1>3, <2>1, <2>6, <3>4
    <3>6. IsStructure(m)
      BY <1>1, <3>2, <3>3, <3>4, <3>5 DEF IsStructure
    <3> QED BY <3>1, <3>2, <3>6
  <2> QED BY <2>5, <2>6
<1>5. CASE k # "expand"
  <2> DEFINE F == E \cup {<<U, 1>>}
             m == [units |-> U, edges |-> F, version |-> V + 1]
  <2>1. k = "wire"
    BY <1>5 DEF MayCommit
  <2>2. U >= 2 /\ Cardinality(E) < Objective.max_edges
    BY <2>1 DEF Needed, NeedsWiring
  <2>3. Mutated(k, g) = m
    BY <1>1, <1>5 DEF Mutated
  <2>4. m.units = U /\ m.edges = F /\ m.version = V + 1
    OBVIOUS
  <2>5. m = [units |-> m.units, edges |-> m.edges, version |-> m.version]
    OBVIOUS
  <2>6. Cardinality(F) <= Cardinality(E) + 1 /\ Cardinality(F) \in Nat
        /\ F \subseteq (1 .. U) \X (1 .. U)
    <3>1. 1 \in 1 .. U /\ U \in 1 .. U
      BY <1>1, <2>2
    <3>2. F \in SUBSET ((1 .. U) \X (1 .. U))
      BY <1>1, <3>1
    <3>3. Cardinality(F) <= Cardinality(E) + 1
      BY <1>3
    <3> HIDE DEF F
    <3>4. Cardinality(F) \in Nat
      BY <1>1, <3>2, EdgesAre
    <3> QED BY <3>2, <3>3, <3>4
  <2> HIDE DEF m, F
  <2>7. Cardinality(F) <= Objective.max_edges
    BY <1>1, <1>2, <1>3, <2>2, <2>6
  <2>8. IsStructure(m)
    BY <1>1, <2>4, <2>5, <2>6, <2>7 DEF IsStructure
  <2> QED BY <2>3, <2>4, <2>8
<1> QED BY <1>4, <1>5

----------------------------------------------------------------------------
(* Adaptation: the invariant *)

\* Counters that are set to naturals.
LEMMA TallySets ==
  ASSUME NEW t, IsTally(t), NEW a \in Nat, NEW b \in Nat, NEW c \in Nat
  PROVE  /\ IsTally([t EXCEPT !.cycles = a, !.generated = b])
         /\ IsTally([t EXCEPT !.authorized = a, !.commits = b])
         /\ IsTally([t EXCEPT !.authorized = a])
         /\ IsTally([t EXCEPT !.commits = a])
         /\ IsTally([t EXCEPT !.rollbacks = a])
<1>1. IsTally([t EXCEPT !.cycles = a, !.generated = b])
  BY DEF IsTally
<1>2. IsTally([t EXCEPT !.authorized = a, !.commits = b])
  BY DEF IsTally
<1>3. /\ IsTally([t EXCEPT !.authorized = a]) /\ IsTally([t EXCEPT !.commits = a])
      /\ IsTally([t EXCEPT !.rollbacks = a])
  BY DEF IsTally
<1> QED BY <1>1, <1>2, <1>3

\* The counters are naturals.
LEMMA TallyFields ==
  ASSUME NEW t, IsTally(t)
  PROVE  /\ t.cycles \in Nat /\ t.generated \in Nat /\ t.authorized \in Nat
         /\ t.commits \in Nat /\ t.rollbacks \in Nat
BY DEF IsTally

\* The counters of a cycle.
LEMMA CountedIs ==
  ASSUME IsTally(tally), NEW n \in Nat
  PROVE  /\ IsTally(Counted(n)) /\ Counted(n).authorized = tally.authorized
         /\ Counted(n).commits = tally.commits /\ Counted(n).rollbacks = tally.rollbacks
<1> DEFINE a == tally.cycles + 1
           b == tally.generated + n
<1>1. a \in Nat /\ b \in Nat
  BY TallyFields
<1>2. Counted(n) = [tally EXCEPT !.cycles = a, !.generated = b]
  BY DEF Counted
<1> HIDE DEF a, b
<1>3. IsTally([tally EXCEPT !.cycles = a, !.generated = b])
  BY <1>1, TallySets
<1> QED BY <1>2, <1>3 DEF IsTally

\* The pacing, with its first counters set.
LEMMA PacingSets ==
  ASSUME NEW p, IsPacing(p), NEW a \in 0 .. Settled, NEW b \in Nat
  PROVE  IsPacing([p EXCEPT !.since = a, !.recent = b])
BY DEF IsPacing

\* A cycle without a commit only grows the pause.
LEMMA PausedIs ==
  ASSUME NEW p, IsPacing(p)
  PROVE  IsPacing(Paused(p))
BY DEF IsPacing, Paused, Least, Settled

\* The observed utility is a number of parts at first.
LEMMA PacingInit == IsPacing([since |-> Settled, recent |-> 0, harmed |-> FALSE, observed |-> 75 * Hundredth])
<1>1. 75 * Hundredth \in Int
  BY PartsAre
<1>2. Settled \in 0 .. Settled
  BY DEF Settled
<1> HIDE DEF Settled
<1> QED BY <1>1, <1>2 DEF IsPacing

\* Initially.
LEMMA AdaptationInitInv == AdaptationInit => AdaptationInv
<1> SUFFICES ASSUME AdaptationInit PROVE AdaptationInv
  OBVIOUS
<1>1. IsStructure(structure) /\ structure.version = 0
  <2>1. /\ structure = [units |-> structure.units, edges |-> structure.edges, version |-> 0]
        /\ structure.units \in 0 .. Objective.max_units
        /\ structure.edges \subseteq (1 .. structure.units) \X (1 .. structure.units)
        /\ Cardinality(structure.edges) <= Objective.max_edges
    BY StructuresAssumption DEF AdaptationInit
  <2>2. structure.version = 0
    BY <2>1
  <2>3. Objective.max_units \in Nat
    BY ObjectiveAssumption
  <2> QED BY <2>1, <2>2, <2>3 DEF IsStructure
<1>2. IsPacing(pacing)
  BY PacingInit DEF AdaptationInit
<1>3. IsTally(tally) /\ Accounted(driver, structure, tally)
  BY <1>1 DEF AdaptationInit, IsTally, Accounted
<1>4. IsDecision(decided)
  BY UndecidedIs DEF AdaptationInit
<1> QED BY <1>1, <1>2, <1>3, <1>4, InvParts DEF AdaptationInit

\* What the generator is told in a cycle of the system.
LEMMA ContextIs ==
  ASSUME AdaptationInv, NEW prior, NEW signals, NEW rounding
  PROVE  /\ IsContext(Context(prior, signals, rounding))
         /\ Context(prior, signals, rounding).units = structure.units
         /\ Context(prior, signals, rounding).edges = Cardinality(structure.edges)
<1>1. IsStructure(structure) /\ IsPacing(pacing)
  BY InvParts
<1>2. Cardinality(structure.edges) \in Nat
  BY <1>1, EdgesAre DEF IsStructure
<1> QED BY <1>1, <1>2 DEF IsContext, Context, IsStructure, IsPacing

\* Nothing authorized: run_cycle returns with its counters one further.
LEMMA DeclinedInv ==
  ASSUME AdaptationInv, NEW prior, NEW signals, NEW rounding,
         DeclinedCycle(prior, signals, rounding)
  PROVE  AdaptationInv'
<1> DEFINE n == Len(Proposals(Context(prior, signals, rounding)))
<1>1. n \in Nat
  BY AuthorizedAre
<1>2. /\ tally' = Counted(n) /\ pacing' = Paused(pacing) /\ decided' = Undecided
      /\ UNCHANGED <<driver, structure, knowledge, assessed>>
  BY DEF DeclinedCycle
<1>3. /\ driver \in {"system", "learned", "control"}
      /\ IsStructure(structure) /\ IsPacing(pacing) /\ IsTally(tally)
      /\ Accounted(driver, structure, tally) /\ knowledge \in Seq(BOOLEAN)
      /\ assessed \in Utilities \cup {NoAssessment}
  BY InvParts
<1> HIDE DEF n
<1>4. IsTally(tally') /\ Accounted(driver', structure', tally')
  BY <1>1, <1>2, <1>3, CountedIs DEF Accounted
<1> QED BY <1>2, <1>3, <1>4, PausedIs, UndecidedIs, InvPartsNext

\* What the core measures is a pacing and something learned.
LEMMA AssessedIs ==
  ASSUME NEW p, IsPacing(p), NEW utility \in Utilities, NEW before,
         NEW q \in AssessedPacing(p, utility, before)
  PROVE  IsPacing(q)
<1>1. PICK b \in {utility - before < -2 * Hundredth, utility - before <= -2 * Hundredth} :
        q = [p EXCEPT !.harmed = b, !.observed = utility]
  BY DEF AssessedPacing
<1>2. (utility - before < -2 * Hundredth) \in BOOLEAN
  OBVIOUS
<1>3. (utility - before <= -2 * Hundredth) \in BOOLEAN
  OBVIOUS
<1>4. b \in BOOLEAN
  BY <1>1, <1>2, <1>3, Zenon
<1>5. utility \in Int
  BY CycleBounds
<1> QED BY <1>1, <1>4, <1>5 DEF IsPacing

\* A proposal authorized: it rolls back, or commits and is assessed or not.
LEMMA AuthorizedInv ==
  ASSUME AdaptationInv, NEW prior \in BOOLEAN, NEW signals, NEW rounding,
         AuthorizedCycle(prior, signals, rounding)
  PROVE  AdaptationInv'
<1> DEFINE x == Context(prior, signals, rounding)
           e == AuthorizedProposals(Proposals(x), x)
           n == Len(Proposals(x))
           k == Executed(e, x)
           counted == [Counted(n) EXCEPT !.authorized = @ + 1]
           committed == IF EnableMutation THEN [pacing EXCEPT !.since = 0, !.recent = @ + 1]
                        ELSE Paused(pacing)
<1>1. /\ driver = "system" /\ IsStructure(structure) /\ IsPacing(pacing) /\ IsTally(tally)
      /\ Accounted(driver, structure, tally) /\ knowledge \in Seq(BOOLEAN)
      /\ assessed \in Utilities \cup {NoAssessment}
  BY InvParts DEF AuthorizedCycle, MayCycle
<1>2. n \in Nat
  BY AuthorizedAre
<1>3. e # <<>> /\ decided' \in Decisions(e, x, FALSE) /\ driver' = driver
  BY DEF AuthorizedCycle
<1>4. IsContext(x) /\ x.units = structure.units /\ x.edges = Cardinality(structure.edges)
  BY ContextIs
<1>5. IsDecision(decided') /\ k \in KindSet /\ Needed(k, x)
  BY <1>3, <1>4, DecisionIs
<1>6. /\ IsTally(counted) /\ counted.authorized = tally.authorized + 1
      /\ counted.commits = tally.commits /\ counted.rollbacks = tally.rollbacks
  <2>1. /\ IsTally(Counted(n)) /\ Counted(n).authorized = tally.authorized
        /\ Counted(n).commits = tally.commits /\ Counted(n).rollbacks = tally.rollbacks
    BY <1>1, <1>2, CountedIs
  <2> QED BY <2>1 DEF IsTally
<1> DEFINE RollsBack == /\ EnableMutation
                        /\ tally' = [counted EXCEPT !.rollbacks = @ + 1]
                        /\ pacing' = Paused(pacing)
                        /\ UNCHANGED <<structure, knowledge, assessed>>
           GoesOn ==
             /\ EnableMutation => MayCommit(k, structure)
             /\ tally' = IF EnableMutation THEN [counted EXCEPT !.commits = @ + 1] ELSE counted
             /\ structure' = IF EnableMutation THEN Mutated(k, structure) ELSE structure
             /\ \/ \E utility \in Utilities :
                     /\ assessed' = utility
                     /\ pacing' \in AssessedPacing(committed, utility, LastUtility(prior))
                     /\ knowledge' = IF EnableLearning /\ prior
                                     THEN Learned(knowledge, utility > LastUtility(prior))
                                     ELSE knowledge
                \/ pacing' = committed /\ UNCHANGED <<assessed, knowledge>>
<1>7. CASE RollsBack
  <2>1. /\ tally' = [counted EXCEPT !.rollbacks = @ + 1] /\ pacing' = Paused(pacing)
        /\ UNCHANGED <<structure, knowledge, assessed>>
    BY <1>7
  <2> HIDE DEF counted
  <2>2. /\ IsTally(tally') /\ tally'.authorized = tally.authorized + 1
        /\ tally'.commits = tally.commits /\ tally'.rollbacks = tally.rollbacks + 1
    BY <1>6, <2>1 DEF IsTally
  <2>3. Accounted(driver', structure', tally')
    <3>1. /\ tally.authorized \in Nat /\ tally.commits \in Nat /\ tally.rollbacks \in Nat
      BY <1>1 DEF IsTally
    <3> QED BY <1>1, <1>3, <2>1, <2>2, <3>1 DEF Accounted
  <2> QED BY <1>1, <1>3, <1>5, <2>1, <2>2, <2>3, PausedIs, InvPartsNext
<1>8. CASE GoesOn
  <2>1. /\ EnableMutation => MayCommit(k, structure)
        /\ tally' = IF EnableMutation THEN [counted EXCEPT !.commits = @ + 1] ELSE counted
        /\ structure' = IF EnableMutation THEN Mutated(k, structure) ELSE structure
        /\ \/ \E utility \in Utilities :
                /\ assessed' = utility
                /\ pacing' \in AssessedPacing(committed, utility, LastUtility(prior))
                /\ knowledge' = IF EnableLearning /\ prior
                                THEN Learned(knowledge, utility > LastUtility(prior))
                                ELSE knowledge
           \/ pacing' = committed /\ UNCHANGED <<assessed, knowledge>>
    BY <1>8
  <2>2. IsPacing(committed)
    <3> DEFINE r == pacing.recent + 1
               q == [pacing EXCEPT !.since = 0, !.recent = r]
    <3>1. r \in Nat
      BY <1>1 DEF IsPacing
    <3>2. committed = IF EnableMutation THEN q ELSE Paused(pacing)
      OBVIOUS
    <3> HIDE DEF r
    <3>3. IsPacing(q)
      <4>1. 0 \in 0 .. Settled
        BY DEF Settled
      <4> QED BY <1>1, <3>1, <4>1, PacingSets
    <3> HIDE DEF q, committed
    <3> QED BY <1>1, <3>2, <3>3, PausedIs
  <2> HIDE DEF counted, committed, GoesOn, RollsBack
  <2>3. /\ IsStructure(structure')
        /\ structure'.version = IF EnableMutation THEN structure.version + 1 ELSE structure.version
    <3>1. CASE EnableMutation
      BY <1>1, <1>4, <1>5, <2>1, <3>1, MutatedIs
    <3>2. CASE ~EnableMutation
      BY <1>1, <2>1, <3>2
    <3> QED BY <3>1, <3>2
  <2>4. /\ IsTally(tally') /\ tally'.authorized = tally.authorized + 1
        /\ tally'.commits = IF EnableMutation THEN tally.commits + 1 ELSE tally.commits
        /\ tally'.rollbacks = tally.rollbacks
    BY <1>6, <2>1 DEF IsTally
  <2>5. Accounted(driver', structure', tally')
    <3>1. /\ tally.authorized \in Nat /\ tally.commits \in Nat /\ tally.rollbacks \in Nat
      BY <1>1 DEF IsTally
    <3> QED BY <1>1, <1>3, <2>3, <2>4, <3>1 DEF Accounted
  <2>6. IsPacing(pacing') /\ knowledge' \in Seq(BOOLEAN) /\ assessed' \in Utilities \cup {NoAssessment}
    <3>1. CASE pacing' = committed /\ UNCHANGED <<assessed, knowledge>>
      BY <1>1, <2>2, <3>1
    <3>2. ASSUME NEW utility \in Utilities, assessed' = utility,
                 pacing' \in AssessedPacing(committed, utility, LastUtility(prior)),
                 knowledge' = IF EnableLearning /\ prior
                              THEN Learned(knowledge, utility > LastUtility(prior))
                              ELSE knowledge
          PROVE  IsPacing(pacing') /\ knowledge' \in Seq(BOOLEAN) /\ assessed' \in Utilities \cup {NoAssessment}
      <4>1. IsPacing(pacing')
        BY <2>2, <3>2, AssessedIs
      <4>2. knowledge' \in Seq(BOOLEAN)
        <5> DEFINE b == (utility > LastUtility(prior))
        <5>1. knowledge' = IF EnableLearning /\ prior THEN Append(knowledge, b) ELSE knowledge
          BY <3>2 DEF Learned
        <5>2. b \in BOOLEAN
          OBVIOUS
        <5> HIDE DEF b
        <5>3. Append(knowledge, b) \in Seq(BOOLEAN)
          BY <1>1, <5>2, AppendProperties
        <5> QED BY <1>1, <5>1, <5>3
      <4> QED BY <3>2, <4>1, <4>2
    <3> QED BY <2>1, <3>1, <3>2
  <2> QED BY <1>1, <1>3, <1>5, <2>3, <2>4, <2>5, <2>6, InvPartsNext
<1>9. RollsBack \/ GoesOn
  <2> HIDE DEF counted, committed, e, n
  <2> QED BY DEF AuthorizedCycle, counted, committed, e, n
<1> QED BY <1>7, <1>8, <1>9

\* execute_adaptation_cycle only decides.
LEMMA AdaptationCycleInv ==
  ASSUME AdaptationInv, NEW improved \in BOOLEAN \cup {NoAssessment}, NEW signals,
         NEW utility \in Utilities, NEW rounding,
         AdaptationCycle(improved, signals, utility, rounding)
  PROVE  AdaptationInv'
<1> DEFINE k == IF improved = NoAssessment THEN knowledge ELSE Learned(knowledge, improved)
           x == [units |-> structure.units, edges |-> Cardinality(structure.edges),
                 utility |-> utility, since |-> Settled, recent |-> 0, harmed |-> FALSE,
                 signals |-> signals, baseline |-> 70 * Hundredth, rounding |-> rounding]
           p == Proposals(x)
           ranked == IF improved = NoAssessment THEN p
                     ELSE RankedByLearning(p, x.units, Influence(k))
           e == AuthorizedProposals(ranked, x)
<1>1. /\ driver = "learned" /\ IsStructure(structure) /\ IsPacing(pacing) /\ IsTally(tally)
      /\ knowledge \in Seq(BOOLEAN) /\ assessed \in Utilities \cup {NoAssessment}
  BY InvParts DEF AdaptationCycle, MayCycle
<1>2. knowledge' = k /\ k \in Seq(BOOLEAN)
  <2>1. knowledge' = k
    BY DEF AdaptationCycle
  <2>2. CASE improved = NoAssessment
    BY <1>1, <2>1, <2>2
  <2>3. CASE improved # NoAssessment
    <3>1. improved \in BOOLEAN
      BY <2>3
    <3>2. Append(knowledge, improved) \in Seq(BOOLEAN)
      BY <1>1, <3>1, AppendProperties
    <3>3. k = Append(knowledge, improved)
      BY <2>3 DEF Learned
    <3> QED BY <2>1, <3>2, <3>3
  <2> QED BY <2>2, <2>3
<1>3. IsContext(x) /\ x.units \in Nat
  <2>1. Cardinality(structure.edges) \in Nat /\ structure.units \in Nat
    BY <1>1, EdgesAre DEF IsStructure
  <2>2. 70 * Hundredth \in Int
    BY PartsAre
  <2> QED BY <2>1, <2>2 DEF IsContext, Settled
<1>4. /\ IF e = <<>>
         THEN /\ tally' = Counted(0)
              /\ decided' = [Undecided EXCEPT !.reordered = ranked # p]
         ELSE /\ tally' = [Counted(Len(ranked)) EXCEPT !.authorized = @ + 1]
              /\ decided' \in Decisions(e, x, ranked # p)
      /\ UNCHANGED <<driver, structure, pacing, assessed>>
  BY DEF AdaptationCycle
<1> HIDE DEF x, k
<1>5. ranked = p
  <2>1. RankedByLearning(p, x.units, Influence(k)) = p
    BY <1>3, InfluenceIs, ProposalsStay DEF Proposals
  <2> QED BY <2>1
<1>6. Len(ranked) \in Nat
  BY <1>5, AuthorizedAre
<1> HIDE DEF p, ranked
<1>7. IsTally(tally') /\ IsDecision(decided')
  <2>1. CASE e = <<>>
    <3>1. decided' = Undecided
      BY <1>4, <1>5, <2>1 DEF Undecided
    <3> QED BY <1>1, <1>4, <2>1, <3>1, CountedIs, UndecidedIs
  <2>2. CASE e # <<>>
    <3>1. decided' \in Decisions(e, x, FALSE)
      <4>1. (ranked # p) = FALSE
        BY <1>5
      <4>2. decided' \in Decisions(e, x, ranked # p)
        BY <1>4, <2>2
      <4> HIDE DEF e
      <4> QED BY <4>1, <4>2
    <3>2. e = AuthorizedProposals(Proposals(x), x)
      BY <1>5 DEF p
    <3> HIDE DEF e
    <3>3. IsDecision(decided')
      BY <1>3, <2>2, <3>1, <3>2, DecisionIs
    <3>4. tally' = [Counted(Len(ranked)) EXCEPT !.authorized = @ + 1]
      BY <1>4, <2>2 DEF e
    <3>5. IsTally(Counted(Len(ranked)))
      BY <1>1, <1>6, CountedIs
    <3>6. IsTally(tally')
      BY <3>4, <3>5 DEF IsTally
    <3> QED BY <3>3, <3>6
  <2> QED BY <2>1, <2>2
<1>8. Accounted(driver', structure', tally')
  <2>1. Accounted(driver, structure, tally)
    BY InvParts
  <2>2. tally'.commits = tally.commits
    <3>1. \A n \in Nat : Counted(n).commits = tally.commits /\ IsTally(Counted(n))
      BY <1>1, CountedIs
    <3>2. tally' = Counted(0) \/ tally' = [Counted(Len(ranked)) EXCEPT !.authorized = @ + 1]
      BY <1>4
    <3> QED BY <1>6, <3>1, <3>2 DEF IsTally
  <2> QED BY <1>1, <1>4, <2>1, <2>2 DEF Accounted
<1> QED BY <1>1, <1>2, <1>4, <1>7, <1>8, InvPartsNext

\* The phase 6 cycle makes the first unit, the first edge, or nothing, or fails.
LEMMA ControlInv ==
  ASSUME AdaptationInv, ControlCycle
  PROVE  AdaptationInv'
<1> DEFINE fresh == structure.units = 0
           unwired == structure.units >= 2 /\ structure.edges = {}
           n == IF fresh \/ unwired THEN 1 ELSE 0
           grown == IF fresh THEN [structure EXCEPT !.units = 1, !.version = @ + 1]
                    ELSE IF unwired THEN [structure EXCEPT !.edges = {<<1, 2>>}, !.version = @ + 1]
                    ELSE structure
           counted == [Counted(n) EXCEPT !.authorized = @ + n]
<1>1. /\ driver = "control" /\ IsStructure(structure) /\ IsPacing(pacing) /\ IsTally(tally)
      /\ IsDecision(decided)
      /\ knowledge \in Seq(BOOLEAN) /\ assessed \in Utilities \cup {NoAssessment}
  BY InvParts DEF ControlCycle, MayCycle
<1>2. /\ \/ structure' = grown /\ tally' = [counted EXCEPT !.commits = @ + n]
         \/ UNCHANGED structure /\ tally' = [counted EXCEPT !.rollbacks = @ + n]
      /\ UNCHANGED <<driver, pacing, knowledge, assessed, decided>>
  BY DEF ControlCycle
<1>3. /\ IsTally(counted) /\ n \in Nat /\ counted.authorized = tally.authorized + n
      /\ counted.commits = tally.commits /\ counted.rollbacks = tally.rollbacks
  <2>1. n \in Nat
    OBVIOUS
  <2>2. /\ IsTally(Counted(n)) /\ Counted(n).authorized = tally.authorized
        /\ Counted(n).commits = tally.commits /\ Counted(n).rollbacks = tally.rollbacks
    BY <1>1, <2>1, CountedIs
  <2> HIDE DEF n
  <2> QED BY <2>1, <2>2 DEF IsTally
<1> DEFINE U == structure.units
           E == structure.edges
           V == structure.version
<1>4. /\ U \in Nat /\ V \in Nat /\ E \subseteq (1 .. U) \X (1 .. U)
      /\ U <= Objective.max_units /\ Cardinality(E) <= Objective.max_edges
      /\ structure = [units |-> U, edges |-> E, version |-> V]
  BY <1>1 DEF IsStructure
<1>5. Objective.max_units \in Nat \ {0} /\ Objective.max_edges \in Nat \ {0}
  BY ObjectiveAssumption
<1>6. IsStructure(grown) /\ grown.version = structure.version + n
  <2>1. CASE fresh
    <3> DEFINE m == [units |-> 1, edges |-> E, version |-> V + 1]
    <3>1. grown = m
      BY <1>4, <2>1
    <3>2. m.units = 1 /\ m.edges = E /\ m.version = V + 1
          /\ m = [units |-> m.units, edges |-> m.edges, version |-> m.version]
      OBVIOUS
    <3>3. E \subseteq (1 .. 1) \X (1 .. 1)
      BY <1>4, <2>1
    <3> HIDE DEF m, E, V
    <3>4. IsStructure(m)
      BY <1>4, <1>5, <3>2, <3>3 DEF IsStructure
    <3>5. n = 1
      BY <2>1
    <3> HIDE DEF n, grown
    <3> QED BY <1>4, <3>1, <3>2, <3>4, <3>5 DEF V
  <2>2. CASE ~fresh /\ unwired
    <3> DEFINE m == [units |-> U, edges |-> {<<1, 2>>}, version |-> V + 1]
    <3>1. grown = m
      BY <1>4, <2>2
    <3>2. m.units = U /\ m.edges = {<<1, 2>>} /\ m.version = V + 1
          /\ m = [units |-> m.units, edges |-> m.edges, version |-> m.version]
      OBVIOUS
    <3>3. Cardinality({<<1, 2>>}) = 1
      BY FS_Singleton
    <3>4. {<<1, 2>>} \subseteq (1 .. U) \X (1 .. U)
      BY <1>4, <2>2
    <3> HIDE DEF m, U, V
    <3>5. IsStructure(m)
      BY <1>4, <1>5, <3>2, <3>3, <3>4 DEF IsStructure
    <3>6. n = 1
      BY <2>2
    <3> HIDE DEF n, grown
    <3> QED BY <1>4, <3>1, <3>2, <3>5, <3>6 DEF V
  <2>3. CASE ~fresh /\ ~unwired
    BY <1>1, <1>4, <2>3
  <2> QED BY <2>1, <2>2, <2>3
<1> HIDE DEF n, grown, counted
<1>7. /\ IsStructure(structure') /\ IsTally(tally') /\ Accounted(driver', structure', tally')
  <2>1. /\ Accounted(driver, structure, tally) /\ tally.authorized \in Nat
        /\ tally.commits \in Nat /\ tally.rollbacks \in Nat
    BY <1>1, InvParts, TallyFields
  <2>2. CASE structure' = grown /\ tally' = [counted EXCEPT !.commits = @ + n]
    <3>1. /\ IsTally(tally') /\ tally'.authorized = tally.authorized + n
          /\ tally'.commits = tally.commits + n /\ tally'.rollbacks = tally.rollbacks
      BY <1>3, <2>2 DEF IsTally
    <3> QED BY <1>1, <1>2, <1>3, <1>6, <2>1, <2>2, <3>1 DEF Accounted
  <2>3. CASE UNCHANGED structure /\ tally' = [counted EXCEPT !.rollbacks = @ + n]
    <3>1. /\ IsTally(tally') /\ tally'.authorized = tally.authorized + n
          /\ tally'.commits = tally.commits /\ tally'.rollbacks = tally.rollbacks + n
      BY <1>3, <2>3 DEF IsTally
    <3> QED BY <1>1, <1>2, <1>3, <2>1, <2>3, <3>1 DEF Accounted
  <2> QED BY <1>2, <2>2, <2>3
<1> QED BY <1>1, <1>2, <1>7, InvPartsNext

\* Every step.
LEMMA AdaptationNextInv ==
  ASSUME AdaptationInv, [AdaptationNext]_adaptationVars
  PROVE  AdaptationInv'
<1>1. CASE UNCHANGED adaptationVars
  <2>1. UNCHANGED <<driver, structure, pacing, tally, knowledge, assessed, decided>>
    BY <1>1 DEF adaptationVars
  <2> QED BY <2>1, InvParts, InvPartsNext
<1>2. ASSUME NEW prior \in BOOLEAN, NEW signals \in SignalSets, NEW rounding \in SUBSET FineLimits,
             DeclinedCycle(prior, signals, rounding)
      PROVE  AdaptationInv'
  BY <1>2, DeclinedInv
<1>3. ASSUME NEW prior \in BOOLEAN, NEW signals \in SignalSets, NEW rounding \in SUBSET FineLimits,
             AuthorizedCycle(prior, signals, rounding)
      PROVE  AdaptationInv'
  BY <1>3, AuthorizedInv
<1>4. ASSUME NEW improved \in BOOLEAN \cup {NoAssessment}, NEW signals \in SignalSets,
             NEW utility \in Utilities, NEW rounding \in SUBSET FineLimits,
             AdaptationCycle(improved, signals, utility, rounding)
      PROVE  AdaptationInv'
  BY <1>4, AdaptationCycleInv
<1>5. CASE ControlCycle
  BY <1>5, ControlInv
<1> QED BY <1>1, <1>2, <1>3, <1>4, <1>5 DEF AdaptationNext

\* A graph adapted cycle after cycle, by any of the three drivers, for every
\* objective with room for a unit and an edge, every set of signals and utilities:
\* it stays within its limits, every commit is a version, a change other than an
\* expansion is executed only when it is expected to pay by what its kind needs,
\* and learning reorders no proposal.
THEOREM AdaptationIsSafe == AdaptationSpec => []AdaptationInvariant
<1>1. AdaptationInit => AdaptationInv
  BY AdaptationInitInv
<1>2. AdaptationInv /\ [AdaptationNext]_adaptationVars => AdaptationInv'
  BY AdaptationNextInv
<1>3. AdaptationInv => AdaptationInvariant
  BY DEF AdaptationInv
<1> QED BY <1>1, <1>2, <1>3, PTL DEF AdaptationSpec
============================================================================
