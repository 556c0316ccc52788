---------------------------- MODULE FoldTheorems ----------------------------
(***************************************************************************)
(* What FoldLeft computes, for any step: the library defines it by a       *)
(* recursion over the subsets of a sequence's domain.  A module that folds *)
(* with a step of its own instantiates this one with that step; p is what  *)
(* the step depends on besides the accumulator and the element.            *)
(***************************************************************************)
EXTENDS Integers, Sequences, SequencesExt, SequenceTheorems, WellFoundedInduction, TLAPS

CONSTANT Step(_, _, _)

Run(p, b, s) == FoldLeft(LAMBDA a, x : Step(p, a, x), b, s)

\* The natural numbers are well-ordered.
LEMMA LeastExists ==
  ASSUME NEW T \in SUBSET Nat, T # {}
  PROVE  \E x \in T : \A y \in T : x <= y
<1> DEFINE R == {ss \in Nat \X Nat : ss[1] < ss[2]}
<1>1. IsWellFoundedOn(R, Nat)
  BY NatLessThanWellFounded, Zenon DEF OpToRel
<1> HIDE DEF R
<1>2. PICK x \in T : \A y \in T : ~ (<<y, x>> \in R)
  BY <1>1, WFMin
<1>3. ASSUME NEW y \in T PROVE x <= y
  <2>1. <<y, x>> \notin R
    BY <1>2
  <2>2. x \in Nat /\ y \in Nat
    OBVIOUS
  <2>3. ~ (y < x)
    BY <2>1, <2>2 DEF R
  <2> QED BY <2>2, <2>3
<1> QED BY <1>3

\* The recursion the library folds with, over the subsets of 1 .. m.
Body(p, b, s, it, S) ==
  IF S = {} THEN b ELSE Step(p, it[S \ {Max(S)}], s[Max(S)])

\* The greatest element of an initial segment.
LEMMA MaxOfPrefix ==
  ASSUME NEW m \in Nat, NEW S \in SUBSET (1 .. m), m \in S
  PROVE  Max(S) = m
<1>1. \A x \in S : (\A y \in S : x >= y) => x = m
  OBVIOUS
<1>2. \E x \in S : \A y \in S : x >= y
  OBVIOUS
<1> QED BY <1>1, <1>2 DEF Max

\* The recursion has a solution.
LEMMA IterExists ==
  ASSUME NEW p, NEW b, NEW s, NEW n \in Nat
  PROVE  \E it : it = [S \in SUBSET (1 .. n) |-> Body(p, b, s, it, S)]
<1> DEFINE Has(m) == \E it : it = [S \in SUBSET (1 .. m) |-> Body(p, b, s, it, S)]
           T == {m \in Nat : ~Has(m)}
<1> SUFFICES ASSUME T # {} PROVE FALSE
  OBVIOUS
<1>1. PICK m \in T : \A k \in T : m <= k
  <2>1. T \in SUBSET Nat
    OBVIOUS
  <2> HIDE DEF T
  <2> QED BY <2>1, LeastExists
<1>2. m # 0
  <2> DEFINE it == [S \in SUBSET (1 .. 0) |-> b]
  <2>1. SUBSET (1 .. 0) = {{}}
    OBVIOUS
  <2>2. it = [S \in SUBSET (1 .. 0) |-> Body(p, b, s, it, S)]
    BY <2>1 DEF Body
  <2> HIDE DEF it
  <2> QED BY <2>2
<1>3. m - 1 \in Nat /\ m - 1 \notin T
  <2>1. m \in Nat
    OBVIOUS
  <2> HIDE DEF T
  <2> QED BY <1>1, <1>2, <2>1
<1>4. PICK f : f = [S \in SUBSET (1 .. m - 1) |-> Body(p, b, s, f, S)]
  BY <1>3
<1> DEFINE it == [S \in SUBSET (1 .. m) |->
                    IF m \in S THEN Step(p, f[S \ {m}], s[m]) ELSE f[S]]
<1>5. ASSUME NEW S \in SUBSET (1 .. m) PROVE it[S] = Body(p, b, s, it, S)
  <2>1. CASE m \in S
    <3>1. Max(S) = m
      BY <2>1, MaxOfPrefix
    <3>2. S \ {m} \in SUBSET (1 .. m) /\ m \notin S \ {m} /\ S # {}
      BY <2>1
    <3>3. it[S \ {m}] = f[S \ {m}]
      BY <3>2
    <3> QED BY <2>1, <3>1, <3>2, <3>3 DEF Body
  <2>2. CASE m \notin S
    <3>1. S \in SUBSET (1 .. m - 1)
      BY <2>2
    <3>2. it[S] = f[S]
      BY <2>2
    <3>3. f[S] = Body(p, b, s, f, S)
      BY <1>4, <3>1
    <3>4. S \ {Max(S)} \in SUBSET (1 .. m) /\ m \notin S \ {Max(S)}
      BY <2>2
    <3>5. it[S \ {Max(S)}] = f[S \ {Max(S)}]
      BY <3>4
    <3> HIDE DEF it
    <3> QED BY <3>2, <3>3, <3>5 DEF Body
  <2> QED BY <2>1, <2>2
<1>6. it = [S \in SUBSET (1 .. m) |-> it[S]]
  OBVIOUS
<1> HIDE DEF it
<1>7. it = [S \in SUBSET (1 .. m) |-> Body(p, b, s, it, S)]
  BY <1>5, <1>6
<1>8. Has(m)
  BY <1>7
<1> QED BY <1>8, <1>1

Iter(p, b, s, n) == CHOOSE it : it = [S \in SUBSET (1 .. n) |-> Body(p, b, s, it, S)]

\* What the fold is after n elements.
LEMMA IterIs ==
  ASSUME NEW p, NEW b, NEW s, NEW n \in Nat
  PROVE  /\ Iter(p, b, s, n)[{}] = b
         /\ \A k \in 1 .. n : Iter(p, b, s, n)[1 .. k] =
              Step(p, Iter(p, b, s, n)[1 .. k - 1], s[k])
<1> DEFINE it == Iter(p, b, s, n)
<1>1. it = [S \in SUBSET (1 .. n) |-> Body(p, b, s, it, S)]
  BY IterExists DEF Iter
<1> HIDE DEF it
<1>2. it[{}] = b
  <2>1. it[{}] = Body(p, b, s, it, {})
    BY <1>1
  <2> QED BY <2>1 DEF Body
<1>3. ASSUME NEW k \in 1 .. n PROVE it[1 .. k] = Step(p, it[1 .. k - 1], s[k])
  <2>1. 1 .. k \in SUBSET (1 .. n) /\ 1 .. k # {} /\ k \in Nat /\ k \in 1 .. k
    OBVIOUS
  <2>2. Max(1 .. k) = k
    BY <2>1, MaxOfPrefix
  <2>3. (1 .. k) \ {k} = 1 .. k - 1
    OBVIOUS
  <2>4. it[1 .. k] = Body(p, b, s, it, 1 .. k)
    BY <1>1, <2>1
  <2> QED BY <2>1, <2>2, <2>3, <2>4 DEF Body
<1> QED BY <1>2, <1>3 DEF it

\* The fold is its recursion at the last element.
LEMMA RunIsIter ==
  ASSUME NEW p, NEW b, NEW s, NEW n \in Nat, DOMAIN s = 1 .. n
  PROVE  Run(p, b, s) = Iter(p, b, s, n)[1 .. n]
BY DEF Run, FoldLeft, MapThenFoldSet, Iter, Body

\* The fold of nothing is the base.
THEOREM RunEmpty == ASSUME NEW p, NEW b PROVE Run(p, b, <<>>) = b
<1>1. DOMAIN <<>> = 1 .. 0
  OBVIOUS
<1>2. Run(p, b, <<>>) = Iter(p, b, <<>>, 0)[1 .. 0]
  BY <1>1, RunIsIter
<1>3. 1 .. 0 = {}
  OBVIOUS
<1> QED BY <1>2, <1>3, IterIs

\* The first n elements of s under p, and of t under q, make the same steps.
SameSteps(p, s, q, t, n) == \A k \in 1 .. n : \A a : Step(p, a, s[k]) = Step(q, a, t[k])

\* Two folds whose steps agree along the way agree.
LEMMA IterAgree ==
  ASSUME NEW p, NEW b, NEW s, NEW q, NEW t, NEW n \in Nat, NEW m \in Nat, NEW l \in Nat,
         n <= m, n <= l, SameSteps(p, s, q, t, n)
  PROVE  Iter(p, b, s, m)[1 .. n] = Iter(q, b, t, l)[1 .. n]
<1> DEFINE f == Iter(p, b, s, m)
           g == Iter(q, b, t, l)
           T == {k \in 0 .. n : f[1 .. k] # g[1 .. k]}
<1>1. f[{}] = b /\ g[{}] = b
  BY IterIs
<1>2. \A k \in 1 .. n : f[1 .. k] = Step(p, f[1 .. k - 1], s[k])
  BY IterIs
<1>3. \A k \in 1 .. n : g[1 .. k] = Step(q, g[1 .. k - 1], t[k])
  BY IterIs
<1> HIDE DEF f, g
<1> SUFFICES ASSUME T # {} PROVE FALSE
  BY DEF f, g
<1>4. PICK k \in T : \A j \in T : k <= j
  <2>1. T \in SUBSET Nat
    OBVIOUS
  <2> HIDE DEF T
  <2> QED BY <2>1, LeastExists
<1>5. k \in 0 .. n /\ f[1 .. k] # g[1 .. k]
  OBVIOUS
<1>6. k # 0
  <2>1. 1 .. 0 = {}
    OBVIOUS
  <2> QED BY <1>1, <1>5, <2>1
<1>7. f[1 .. k - 1] = g[1 .. k - 1]
  <2>1. k - 1 \in 0 .. n /\ k - 1 \notin T
    <3> HIDE DEF T
    <3> QED BY <1>4, <1>5, <1>6
  <2> QED BY <2>1
<1>8. k \in 1 .. n
  BY <1>5, <1>6
<1> QED BY <1>2, <1>3, <1>5, <1>7, <1>8 DEF SameSteps

\* One more element is one more step.
THEOREM RunAppend ==
  ASSUME NEW p, NEW b, NEW S, NEW s \in Seq(S), NEW x
  PROVE  Run(p, b, Append(s, x)) = Step(p, Run(p, b, s), x)
<1> DEFINE t == Append(s, x)
           n == Len(s)
<1>1. /\ n \in Nat /\ DOMAIN s = 1 .. n /\ DOMAIN t = 1 .. n + 1
      /\ t[n + 1] = x /\ \A k \in 1 .. n : t[k] = s[k]
  OBVIOUS
<1> HIDE DEF t, n
<1>2. Run(p, b, t) = Iter(p, b, t, n + 1)[1 .. n + 1]
  BY <1>1, RunIsIter
<1>3. Iter(p, b, t, n + 1)[1 .. n + 1] = Step(p, Iter(p, b, t, n + 1)[1 .. n], x)
  <2>1. n + 1 \in Nat /\ n + 1 \in 1 .. n + 1 /\ (n + 1) - 1 = n
    BY <1>1
  <2> QED BY <1>1, <2>1, IterIs
<1>4. Iter(p, b, t, n + 1)[1 .. n] = Iter(p, b, s, n)[1 .. n]
  <2> DEFINE m == n + 1
  <2>1. n \in Nat /\ m \in Nat /\ n <= m /\ n <= n
    BY <1>1
  <2>2. SameSteps(p, t, p, s, n)
    BY <1>1 DEF SameSteps
  <2> HIDE DEF m
  <2>3. Iter(p, b, t, m)[1 .. n] = Iter(p, b, s, n)[1 .. n]
    BY <2>1, <2>2, IterAgree
  <2> QED BY <2>3 DEF m
<1>5. Run(p, b, s) = Iter(p, b, s, n)[1 .. n]
  BY <1>1, RunIsIter
<1> QED BY <1>2, <1>3, <1>4, <1>5 DEF t

\* The fold sees of p only what the elements make the step read.
THEOREM RunAgree ==
  ASSUME NEW p, NEW q, NEW b, NEW S, NEW s \in Seq(S),
         \A k \in DOMAIN s : \A a : Step(p, a, s[k]) = Step(q, a, s[k])
  PROVE  Run(p, b, s) = Run(q, b, s)
<1>1. Len(s) \in Nat /\ DOMAIN s = 1 .. Len(s) /\ Len(s) <= Len(s)
  OBVIOUS
<1>2. /\ Run(p, b, s) = Iter(p, b, s, Len(s))[1 .. Len(s)]
      /\ Run(q, b, s) = Iter(q, b, s, Len(s))[1 .. Len(s)]
  BY <1>1, RunIsIter
<1>3. SameSteps(p, s, q, s, Len(s))
  BY <1>1 DEF SameSteps
<1> QED BY <1>1, <1>2, <1>3, IterAgree

\* Folding can begin with the first element already done.
THEOREM RunPrepend ==
  ASSUME NEW p, NEW b, NEW S, NEW s \in Seq(S), NEW x \in S
  PROVE  Run(p, b, <<x>> \o s) = Run(p, Step(p, b, x), s)
<1> DEFINE t == <<x>> \o s
           n == Len(s)
           f == Iter(p, b, t, n + 1)
           g == Iter(p, Step(p, b, x), s, n)
           T == {k \in 0 .. n : f[1 .. k + 1] # g[1 .. k]}
<1>1. /\ n \in Nat /\ DOMAIN s = 1 .. n /\ t \in Seq(S) /\ DOMAIN t = 1 .. n + 1
      /\ t[1] = x /\ \A k \in 1 .. n : t[k + 1] = s[k]
  BY ConcatProperties
<1> HIDE DEF t, n
<1>2. /\ f[{}] = b
      /\ \A k \in 1 .. n + 1 : f[1 .. k] = Step(p, f[1 .. k - 1], t[k])
  <2>1. n + 1 \in Nat
    BY <1>1
  <2> QED BY <2>1, IterIs
<1>3. /\ g[{}] = Step(p, b, x)
      /\ \A k \in 1 .. n : g[1 .. k] = Step(p, g[1 .. k - 1], s[k])
  <2>1. n \in Nat
    BY <1>1
  <2> QED BY <2>1, IterIs
<1>4. Run(p, b, t) = f[1 .. n + 1] /\ Run(p, Step(p, b, x), s) = g[1 .. n]
  BY <1>1, RunIsIter
<1> HIDE DEF f, g
<1>5. f[1 .. 0 + 1] = g[1 .. 0]
  <2>1. 1 .. 0 = {} /\ 1 \in 1 .. n + 1 /\ 1 - 1 = 0 /\ 0 + 1 = 1
    BY <1>1
  <2> QED BY <1>1, <1>2, <1>3, <2>1
<1>6. T = {}
  <2> SUFFICES ASSUME T # {} PROVE FALSE
    OBVIOUS
  <2>1. PICK k \in T : \A j \in T : k <= j
    <3>1. T \in SUBSET Nat
      OBVIOUS
    <3> HIDE DEF T
    <3> QED BY <3>1, LeastExists
  <2>2. k \in 0 .. n /\ f[1 .. k + 1] # g[1 .. k]
    OBVIOUS
  <2>3. k \in 1 .. n /\ k + 1 \in 1 .. n + 1 /\ (k + 1) - 1 = k
    <3> HIDE DEF T
    <3>1. k # 0
      BY <1>5, <2>2
    <3> QED BY <1>1, <2>2, <3>1
  <2>4. f[1 .. k] = g[1 .. k - 1]
    <3>1. k - 1 \in 0 .. n /\ k - 1 \notin T
      <4> HIDE DEF T
      <4> QED BY <1>1, <2>1, <2>3
    <3>2. (k - 1) + 1 = k
      BY <2>3
    <3> QED BY <3>1, <3>2
  <2> QED BY <1>1, <1>2, <1>3, <2>2, <2>3, <2>4
<1>7. f[1 .. n + 1] = g[1 .. n]
  BY <1>1, <1>6
<1> QED BY <1>4, <1>7 DEF t

\* What every step keeps true of the accumulator is true of the fold.
THEOREM RunStays ==
  ASSUME NEW p, NEW b, NEW S, NEW s \in Seq(S), NEW A, b \in A,
         \A k \in DOMAIN s : \A a \in A : Step(p, a, s[k]) \in A
  PROVE  Run(p, b, s) \in A
<1> DEFINE n == Len(s)
           f == Iter(p, b, s, n)
           T == {k \in 0 .. n : f[1 .. k] \notin A}
<1>1. n \in Nat /\ DOMAIN s = 1 .. n
  OBVIOUS
<1> HIDE DEF n
<1>2. /\ f[{}] = b
      /\ \A k \in 1 .. n : f[1 .. k] = Step(p, f[1 .. k - 1], s[k])
  BY <1>1, IterIs
<1>3. Run(p, b, s) = f[1 .. n]
  BY <1>1, RunIsIter
<1> HIDE DEF f
<1>4. T = {}
  <2> SUFFICES ASSUME T # {} PROVE FALSE
    OBVIOUS
  <2>1. PICK k \in T : \A j \in T : k <= j
    <3>1. T \in SUBSET Nat
      BY <1>1
    <3> HIDE DEF T
    <3> QED BY <3>1, LeastExists
  <2>2. k \in 0 .. n /\ f[1 .. k] \notin A
    OBVIOUS
  <2>3. k # 0
    <3>1. 1 .. 0 = {}
      OBVIOUS
    <3> QED BY <1>2, <2>2, <3>1
  <2>4. f[1 .. k - 1] \in A
    <3>1. k - 1 \in 0 .. n /\ k - 1 \notin T
      <4> HIDE DEF T
      <4> QED BY <1>1, <2>1, <2>2, <2>3
    <3> QED BY <3>1
  <2>5. k \in 1 .. n
    BY <1>1, <2>2, <2>3
  <2> QED BY <1>1, <1>2, <2>2, <2>4, <2>5
<1> QED BY <1>1, <1>3, <1>4

\* What each step carries from one set to the next, the whole fold carries from
\* the first to the last.
THEOREM RunAdvances ==
  ASSUME NEW p, NEW b, NEW S, NEW s \in Seq(S), NEW A, b \in A[0],
         \A k \in 1 .. Len(s) : \A a \in A[k - 1] : Step(p, a, s[k]) \in A[k]
  PROVE  Run(p, b, s) \in A[Len(s)]
<1> DEFINE n == Len(s)
           f == Iter(p, b, s, n)
           T == {k \in 0 .. n : f[1 .. k] \notin A[k]}
<1>1. n \in Nat /\ DOMAIN s = 1 .. n /\ n = Len(s)
  OBVIOUS
<1> HIDE DEF n
<1>2. /\ f[{}] = b
      /\ \A k \in 1 .. n : f[1 .. k] = Step(p, f[1 .. k - 1], s[k])
  BY <1>1, IterIs
<1>3. Run(p, b, s) = f[1 .. n]
  BY <1>1, RunIsIter
<1> HIDE DEF f
<1>4. T = {}
  <2> SUFFICES ASSUME T # {} PROVE FALSE
    OBVIOUS
  <2>1. PICK k \in T : \A j \in T : k <= j
    <3>1. T \in SUBSET Nat
      BY <1>1
    <3> HIDE DEF T
    <3> QED BY <3>1, LeastExists
  <2>2. k \in 0 .. n /\ f[1 .. k] \notin A[k]
    OBVIOUS
  <2>3. k # 0
    <3>1. 1 .. 0 = {}
      OBVIOUS
    <3> QED BY <1>2, <2>2, <3>1
  <2>4. f[1 .. k - 1] \in A[k - 1]
    <3>1. k - 1 \in 0 .. n /\ k - 1 \notin T
      <4> HIDE DEF T
      <4> QED BY <1>1, <2>1, <2>2, <2>3
    <3> QED BY <3>1
  <2>5. k \in 1 .. n
    BY <1>1, <2>2, <2>3
  <2> QED BY <1>1, <1>2, <2>2, <2>4, <2>5
<1> QED BY <1>1, <1>3, <1>4

----------------------------------------------------------------------------
(* FlattenSeq *)

Joined(seqs, n, f) ==
  f = [i \in 1 .. n |-> IF i = 1 THEN seqs[i] ELSE f[i - 1] \o seqs[i]]

Joining(seqs, n) == CHOOSE f : Joined(seqs, n, f)

\* The recursion by which a sequence of sequences is flattened has a solution.
LEMMA JoinedExists ==
  ASSUME NEW seqs, NEW n \in Nat
  PROVE  \E f : Joined(seqs, n, f)
<1> DEFINE T == {m \in Nat : ~\E f : Joined(seqs, m, f)}
<1> SUFFICES ASSUME T # {} PROVE FALSE
  OBVIOUS
<1>1. PICK m \in T : \A k \in T : m <= k
  <2>1. T \in SUBSET Nat
    OBVIOUS
  <2> HIDE DEF T
  <2> QED BY <2>1, LeastExists
<1>2. m \in Nat /\ ~\E f : Joined(seqs, m, f)
  OBVIOUS
<1>3. m # 0
  <2> DEFINE f == [i \in 1 .. 0 |-> i]
  <2>1. Joined(seqs, 0, f)
    BY DEF Joined
  <2> HIDE DEF f
  <2> QED BY <1>2, <2>1
<1>4. m - 1 \in Nat /\ m - 1 \notin T
  <2> HIDE DEF T
  <2> QED BY <1>1, <1>2, <1>3
<1>5. PICK f : Joined(seqs, m - 1, f)
  BY <1>4
<1> DEFINE g == [i \in 1 .. m |-> IF i = m THEN IF i = 1 THEN seqs[i] ELSE f[i - 1] \o seqs[i]
                                   ELSE f[i]]
<1>6. ASSUME NEW i \in 1 .. m
      PROVE  g[i] = IF i = 1 THEN seqs[i] ELSE g[i - 1] \o seqs[i]
  <2>1. i # 1 => i - 1 \in 1 .. m - 1 /\ i - 1 # m
    BY <1>2
  <2>2. i # 1 => g[i - 1] = f[i - 1]
    BY <1>2, <2>1
  <2>3. CASE i = m
    BY <2>2, <2>3
  <2>4. CASE i # m
    <3>1. i \in 1 .. m - 1 /\ g[i] = f[i]
      BY <1>2, <2>4
    <3>2. f[i] = IF i = 1 THEN seqs[i] ELSE f[i - 1] \o seqs[i]
      BY <1>5, <3>1 DEF Joined
    <3> QED BY <2>2, <3>1, <3>2
  <2> QED BY <2>3, <2>4
<1>7. g = [i \in 1 .. m |-> g[i]]
  OBVIOUS
<1> HIDE DEF g
<1>8. Joined(seqs, m, g)
  BY <1>6, <1>7 DEF Joined
<1> QED BY <1>2, <1>8

\* It appends one sequence after another.
LEMMA JoiningIs ==
  ASSUME NEW seqs, NEW n \in Nat, NEW i \in 1 .. n
  PROVE  Joining(seqs, n)[i] = IF i = 1 THEN seqs[i] ELSE Joining(seqs, n)[i - 1] \o seqs[i]
<1> DEFINE f == Joining(seqs, n)
<1>1. Joined(seqs, n, f)
  BY JoinedExists DEF Joining
<1> HIDE DEF f
<1>2. f[i] = IF i = 1 THEN seqs[i] ELSE f[i - 1] \o seqs[i]
  BY <1>1 DEF Joined
<1> QED BY <1>2 DEF f

\* Flattening is that recursion at the last sequence.
LEMMA FlattenIs ==
  ASSUME NEW seqs
  PROVE  FlattenSeq(seqs) = IF Len(seqs) = 0 THEN seqs ELSE Joining(seqs, Len(seqs))[Len(seqs)]
BY DEF FlattenSeq, Joining, Joined

\* Flattening one sequence more appends it.
THEOREM FlattenAppend ==
  ASSUME NEW S, NEW seqs \in Seq(Seq(S)), NEW t \in Seq(S)
  PROVE  FlattenSeq(Append(seqs, t)) = FlattenSeq(seqs) \o t
<1> DEFINE more == Append(seqs, t)
           n == Len(seqs)
           m == n + 1
           f == Joining(seqs, n)
           g == Joining(more, m)
           T == {k \in 1 .. n : f[k] # g[k]}
<1>1. /\ n \in Nat /\ m \in Nat /\ m # 0 /\ Len(more) = m
      /\ more[m] = t /\ \A k \in 1 .. n : more[k] = seqs[k]
      /\ n = 0 => seqs = <<>>
  OBVIOUS
<1> HIDE DEF more
<1>2. FlattenSeq(more) = g[m]
  BY <1>1, FlattenIs
<1>3. FlattenSeq(seqs) = IF n = 0 THEN seqs ELSE f[n]
  BY FlattenIs
<1>4. \A k \in 1 .. n : f[k] = IF k = 1 THEN seqs[k] ELSE f[k - 1] \o seqs[k]
  BY <1>1, JoiningIs
<1>5. \A k \in 1 .. m : g[k] = IF k = 1 THEN more[k] ELSE g[k - 1] \o more[k]
  <2> HIDE DEF m
  <2> QED BY <1>1, JoiningIs
<1> HIDE DEF f, g, n
<1>6. T = {}
  <2> SUFFICES ASSUME T # {} PROVE FALSE
    OBVIOUS
  <2>1. PICK k \in T : \A j \in T : k <= j
    <3>1. T \in SUBSET Nat
      BY <1>1
    <3> HIDE DEF T
    <3> QED BY <3>1, LeastExists
  <2>2. k \in 1 .. n /\ f[k] # g[k]
    OBVIOUS
  <2>3. k # 1 => k - 1 \in 1 .. n /\ k - 1 \notin T
    <3> HIDE DEF T
    <3> QED BY <1>1, <2>1, <2>2
  <2>4. k # 1 => f[k - 1] = g[k - 1]
    BY <2>3
  <2>5. k \in 1 .. m
    BY <1>1, <2>2
  <2> QED BY <1>1, <1>4, <1>5, <2>2, <2>4, <2>5
<1>7. g[m] = IF m = 1 THEN t ELSE g[n] \o t
  <2>1. m \in 1 .. m /\ m - 1 = n
    BY <1>1
  <2> QED BY <1>1, <1>5, <2>1
<1>8. CASE n = 0
  <2>1. seqs \o t = t
    BY <1>1, <1>8
  <2> QED BY <1>1, <1>2, <1>3, <1>7, <1>8, <2>1 DEF more
<1>9. CASE n # 0
  <2>1. n \in 1 .. n /\ m # 1
    BY <1>1, <1>9
  <2>2. f[n] = g[n]
    BY <1>6, <2>1
  <2> QED BY <1>2, <1>3, <1>7, <1>9, <2>1, <2>2 DEF more
<1> QED BY <1>8, <1>9
=============================================================================
