------------------------------- MODULE Lemmas -------------------------------
(***************************************************************************)
(* Facts that the proofs about several components rest on:                 *)
(*   - induction over the natural numbers and over the subsets of a finite *)
(*     set, stated with a set where one would like to have a predicate,    *)
(*     and the recursions that have a solution, also those that go down    *)
(*     along a measure;                                                    *)
(*   - what they give about sums over a finite set, from which the         *)
(*     conservation of balances, stakes and holdings follows;              *)
(*   - increasing sequences of block numbers: what a client or a peer was  *)
(*     given, and what still waits for it in a channel.                    *)
(***************************************************************************)
EXTENDS Integers, Sequences, SequencesExt, Functions, FiniteSets, SequenceTheorems,
        FiniteSetTheorems, WellFoundedInduction, TLAPS

----------------------------------------------------------------------------
(***************************************************************************)
(* Induction, recursion and sums                                           *)
(***************************************************************************)

\* A set of natural numbers with 0 and every successor is all of them.
LEMMA NatSetInduction ==
  ASSUME NEW S \in SUBSET Nat, 0 \in S, \A n \in S : n + 1 \in S
  PROVE  S = Nat
<1> DEFINE T == Nat \ S
<1> SUFFICES ASSUME T # {} PROVE FALSE
  OBVIOUS
<1> HIDE DEF T
<1>1. T \subseteq Nat
  BY DEF T
<1> DEFINE R == {ss \in Nat \X Nat : ss[1] < ss[2]}
<1>2. IsWellFoundedOn(R, Nat)
  BY Zenon, NatLessThanWellFounded DEF OpToRel
<1> HIDE DEF R
<1>3. \E x \in T : \A y \in T : ~ (<<y, x>> \in R)
  BY <1>1, <1>2, WFMin
<1>4. PICK x \in T : \A y \in T : ~ (<<y, x>> \in R)
  BY <1>3
<1>5. x \in Nat /\ x \notin S
  BY DEF T
<1>6. x # 0 /\ x - 1 \in Nat
  BY <1>5
<1>7. x - 1 \in T
  <2>1. x - 1 \in S => x \in S
    BY <1>6, <1>5
  <2> QED  BY <2>1, <1>5, <1>6 DEF T
<1>8. <<x - 1, x>> \in R
  BY <1>5, <1>6 DEF R
<1> QED  BY <1>4, <1>7, <1>8

\* The same up to a bound.
LEMMA UpToInduction ==
  ASSUME NEW n \in Nat, NEW S, 0 \in S, \A i \in 1 .. n : i - 1 \in S => i \in S
  PROVE  \A i \in 0 .. n : i \in S
<1> DEFINE T == {i \in Nat : i <= n => i \in S}
<1>1. ASSUME NEW i \in T PROVE i + 1 \in T
  <2>1. CASE i + 1 <= n
    <3>1. i \in S /\ i + 1 \in 1 .. n /\ (i + 1) - 1 = i
      BY <2>1
    <3> QED  BY <3>1
  <2>2. CASE ~(i + 1 <= n)
    BY <2>2
  <2> QED  BY <2>1, <2>2
<1>2. 0 \in T
  OBVIOUS
<1> HIDE DEF T
<1>3. T \subseteq Nat
  BY DEF T
<1>4. T = Nat
  BY <1>1, <1>2, <1>3, NatSetInduction
<1> QED  BY <1>4 DEF T

\* Natural numbers have a least one among them.
LEMMA LeastNumber ==
  ASSUME NEW S \in SUBSET Nat, S # {}
  PROVE  \E i \in S : \A j \in S : i <= j
<1> SUFFICES ASSUME \A i \in S : \E j \in S : j < i PROVE FALSE
  OBVIOUS
<1> DEFINE T == {n \in Nat : \A i \in 0 .. n : i \notin S}
<1>1. 0 \in T
  OBVIOUS
<1>2. ASSUME NEW n \in T PROVE n + 1 \in T
  <2>1. \A i \in 0 .. n + 1 : i = n + 1 \/ i \in 0 .. n
    OBVIOUS
  <2>2. n + 1 \notin S
    <3>1. ASSUME n + 1 \in S PROVE FALSE
      <4>1. PICK j \in S : j < n + 1
        BY <3>1
      <4>2. j \in 0 .. n
        BY <4>1
      <4> QED  BY <4>1, <4>2
    <3> QED  BY <3>1
  <2> QED  BY <2>1, <2>2
<1>3. T = Nat
  <2> HIDE DEF T
  <2>1. T \in SUBSET Nat
    BY DEF T
  <2> QED  BY <1>1, <1>2, <2>1, NatSetInduction
<1>4. PICK i \in S : TRUE
  OBVIOUS
<1>5. i \in T /\ i \in 0 .. i
  BY <1>3
<1> QED  BY <1>5

\* g lists what n steps make of a.
Recursion(g, n, A, a, step) ==
  g \in [0 .. n -> A] /\ g[0] = a /\ \A i \in 1 .. n : g[i] = step[i][g[i - 1]]

\* A recursion over 0 .. n that stays in A has a solution.
LEMMA RecursionHolds ==
  ASSUME NEW n \in Nat, NEW A, NEW a \in A, NEW step \in [1 .. n -> [A -> A]]
  PROVE  \E g : Recursion(g, n, A, a, step)
<1> DEFINE Upto(g, m) == g[0] = a /\ \A i \in 1 .. m : g[i] = step[i][g[i - 1]]
           S == {m \in 0 .. n : \E g \in [0 .. m -> A] : Upto(g, m)}
<1>1. 0 \in S
  <2> DEFINE g == [i \in 0 .. 0 |-> a]
  <2>1. g \in [0 .. 0 -> A] /\ Upto(g, 0) /\ 0 \in 0 .. n
    OBVIOUS
  <2> HIDE DEF g, Upto
  <2> QED  BY Zenon, <2>1
<1>2. ASSUME NEW m \in 1 .. n, m - 1 \in S PROVE m \in S
  <2>1. PICK g \in [0 .. m - 1 -> A] : Upto(g, m - 1)
    BY <1>2
  <2> DEFINE h == [i \in 0 .. m |-> IF i = m THEN step[m][g[m - 1]] ELSE g[i]]
  <2>2. step[m][g[m - 1]] \in A
    OBVIOUS
  <2>3. h \in [0 .. m -> A]
    BY <2>2
  <2>4. h[0] = a
    BY <2>1
  <2>5. ASSUME NEW i \in 1 .. m PROVE h[i] = step[i][h[i - 1]]
    <3>1. CASE i = m
      <4>1. h[m] = step[m][g[m - 1]] /\ h[m - 1] = g[m - 1]
        OBVIOUS
      <4> QED  BY <3>1, <4>1
    <3>2. CASE i # m
      <4>1. h[i] = g[i] /\ h[i - 1] = g[i - 1] /\ i \in 1 .. m - 1
        BY <3>2
      <4> QED  BY <2>1, <4>1
    <3> QED  BY <3>1, <3>2
  <2> HIDE DEF h
  <2>6. Upto(h, m) /\ m \in 0 .. n
    BY <2>4, <2>5
  <2> HIDE DEF Upto
  <2> QED  BY Zenon, <2>3, <2>6
<1>3. n \in S
  <2> HIDE DEF S
  <2>1. \A i \in 0 .. n : i \in S
    BY <1>1, <1>2, UpToInduction
  <2> QED  BY <2>1
<1> QED  BY <1>3 DEF Recursion

\* a is in S at the start, and every step keeps in S what is in it.
StepsKeep(S, n, A, a, step) ==
  /\ <<0, a>> \in S
  /\ \A i \in 1 .. n : \A x \in A : <<i - 1, x>> \in S => <<i, step[i][x]>> \in S

\* What the steps keep, the recursion has all along.
LEMMA RecursionKeeps ==
  ASSUME NEW n \in Nat, NEW A, NEW a, NEW step, NEW g, Recursion(g, n, A, a, step),
         NEW S, StepsKeep(S, n, A, a, step)
  PROVE  \A i \in 0 .. n : g[i] \in A /\ <<i, g[i]>> \in S
<1> DEFINE T == {i \in 0 .. n : <<i, g[i]>> \in S}
<1>1. \A i \in 0 .. n : g[i] \in A
  BY DEF Recursion
<1>2. 0 \in T
  BY DEF Recursion, StepsKeep
<1>3. ASSUME NEW i \in 1 .. n, i - 1 \in T PROVE i \in T
  <2>1. i - 1 \in 0 .. n /\ i \in 0 .. n /\ <<i - 1, g[i - 1]>> \in S /\ g[i - 1] \in A
    BY <1>1, <1>3
  <2>2. g[i] = step[i][g[i - 1]]
    BY DEF Recursion
  <2> QED  BY <2>1, <2>2 DEF StepsKeep
<1>4. \A i \in 0 .. n : i \in T
  <2> HIDE DEF T
  <2> QED  BY <1>2, <1>3, UpToInduction
<1> QED  BY <1>1, <1>4

\* Induction along a measure.
LEMMA MeasureInduction ==
  ASSUME NEW S, NEW m \in [S -> Nat], NEW T,
         \A s \in S : (\A r \in S : m[r] < m[s] => r \in T) => s \in T
  PROVE  \A s \in S : s \in T
<1> SUFFICES ASSUME NEW z \in S, z \notin T PROVE FALSE
  OBVIOUS
<1> DEFINE M == {m[s] : s \in S \ T}
<1>1. M \in SUBSET Nat /\ M # {}
  OBVIOUS
<1>2. PICK i \in M : \A j \in M : i <= j
  <2> HIDE DEF M
  <2> QED  BY <1>1, LeastNumber
<1>3. PICK s \in S \ T : i = m[s]
  BY <1>2
<1>4. ASSUME NEW r \in S, m[r] < m[s] PROVE r \in T
  <2>1. SUFFICES ASSUME r \notin T PROVE FALSE
    OBVIOUS
  <2>2. m[r] \in M /\ m[r] \in Nat /\ m[s] \in Nat
    BY <2>1
  <2> HIDE DEF M
  <2>3. m[s] <= m[r]
    BY <1>2, <1>3, <2>2
  <2> QED  BY <1>4, <2>2, <2>3
<1> QED  BY <1>3, <1>4

\* What f has for s: of s itself, or made of what it has for down[s].
Descent(f, s, base, out, down, make) ==
  IF s \in base THEN out[s] ELSE make[s][f[down[s]]]

\* base, out, down and make describe a recursion over S into V, along the measure m.
Recurses(S, V, m, base, out, down, make) ==
  /\ m \in [S -> Nat] /\ out \in [S -> V] /\ down \in [S -> S] /\ make \in [S -> [V -> V]]
  /\ \A s \in S \ base : m[down[s]] < m[s]

\* f conforms to the recursion below n.
Solves(f, n, S, V, m, base, out, down, make) ==
  f \in [S -> V] /\ \A s \in S : m[s] < n => f[s] = Descent(f, s, base, out, down, make)

LEMMA DescentBelow ==
  ASSUME NEW S, NEW V, NEW m, NEW base, NEW out, NEW down, NEW make,
         Recurses(S, V, m, base, out, down, make), NEW n \in Nat
  PROVE  \E f : Solves(f, n, S, V, m, base, out, down, make)
<1> DEFINE T == {k \in Nat : \E f : Solves(f, k, S, V, m, base, out, down, make)}
<1>0. /\ m \in [S -> Nat] /\ out \in [S -> V] /\ down \in [S -> S] /\ make \in [S -> [V -> V]]
      /\ \A s \in S \ base : m[down[s]] < m[s]
  BY DEF Recurses
<1>1. 0 \in T
  <2>1. Solves(out, 0, S, V, m, base, out, down, make)
    BY <1>0 DEF Solves
  <2> QED  BY <2>1
<1>2. ASSUME NEW k \in T PROVE k + 1 \in T
  <2>1. PICK f : Solves(f, k, S, V, m, base, out, down, make)
    OBVIOUS
  <2>2. f \in [S -> V] /\ \A s \in S : m[s] < k => f[s] = Descent(f, s, base, out, down, make)
    BY <2>1 DEF Solves
  <2> DEFINE g == [s \in S |-> IF m[s] = k THEN Descent(f, s, base, out, down, make) ELSE f[s]]
  <2>3. \A s \in S : Descent(f, s, base, out, down, make) \in V
    BY <1>0, <2>2 DEF Descent
  <2>4. g \in [S -> V]
    BY <2>2, <2>3
  <2>5. \A s \in S : g[s] = IF m[s] = k THEN Descent(f, s, base, out, down, make) ELSE f[s]
    OBVIOUS
  <2> HIDE DEF g
  <2>6. ASSUME NEW s \in S, m[s] < k + 1 PROVE g[s] = Descent(g, s, base, out, down, make)
    <3>1. g[s] = Descent(f, s, base, out, down, make)
      <4>1. m[s] \in Nat /\ k \in Nat
        BY <1>0
      <4>2. CASE m[s] = k
        BY <2>5, <4>2
      <4>3. CASE m[s] # k
        <5>1. m[s] < k
          BY <2>6, <4>1, <4>3
        <5> QED  BY <2>2, <2>5, <4>3, <5>1
      <4> QED  BY <4>2, <4>3
    <3>2. CASE s \in base
      BY <3>1, <3>2 DEF Descent
    <3>3. CASE s \notin base
      <4>1. down[s] \in S /\ m[down[s]] < k
        BY <1>0, <2>6, <3>3
      <4>2. g[down[s]] = f[down[s]]
        BY <2>5, <4>1
      <4> QED  BY <3>1, <4>2 DEF Descent
    <3> QED  BY <3>2, <3>3
  <2>7. Solves(g, k + 1, S, V, m, base, out, down, make)
    BY <2>4, <2>6 DEF Solves
  <2> QED  BY <2>7
<1>3. n \in T
  <2> HIDE DEF T
  <2>1. T \in SUBSET Nat
    BY DEF T
  <2>2. T = Nat
    BY <1>1, <1>2, <2>1, NatSetInduction
  <2> QED  BY <2>2
<1> QED  BY <1>3

LEMMA DescentAgrees ==
  ASSUME NEW S, NEW V, NEW m, NEW base, NEW out, NEW down, NEW make,
         Recurses(S, V, m, base, out, down, make), NEW n \in Nat, NEW f, NEW k \in Nat, NEW g, n <= k,
         Solves(f, n, S, V, m, base, out, down, make), Solves(g, k, S, V, m, base, out, down, make)
  PROVE  \A s \in S : m[s] < n => f[s] = g[s]
<1> DEFINE T == {s \in S : m[s] < n => f[s] = g[s]}
<1>0. m \in [S -> Nat] /\ down \in [S -> S] /\ \A s \in S \ base : m[down[s]] < m[s]
  BY DEF Recurses
<1>1. ASSUME NEW s \in S, \A r \in S : m[r] < m[s] => r \in T PROVE s \in T
  <2> SUFFICES ASSUME m[s] < n PROVE f[s] = g[s]
    OBVIOUS
  <2>1. f[s] = Descent(f, s, base, out, down, make) /\ g[s] = Descent(g, s, base, out, down, make)
    BY <1>0 DEF Solves
  <2>2. CASE s \in base
    BY <2>1, <2>2 DEF Descent
  <2>3. CASE s \notin base
    <3>1. down[s] \in S /\ m[down[s]] < m[s] /\ m[down[s]] < n
      BY <1>0, <2>3
    <3>2. f[down[s]] = g[down[s]]
      BY <1>1, <3>1
    <3> QED  BY <2>1, <3>2 DEF Descent
  <2> QED  BY <2>2, <2>3
<1>2. \A s \in S : s \in T
  <2> HIDE DEF T
  <2> QED  BY <1>0, <1>1, MeasureInduction
<1> QED  BY <1>2

Solution(f, S, V, base, out, down, make) ==
  f \in [S -> V] /\ \A s \in S : f[s] = Descent(f, s, base, out, down, make)

\* A recursion along a measure has a solution.
LEMMA DescentHolds ==
  ASSUME NEW S, NEW V, NEW m, NEW base, NEW out, NEW down, NEW make,
         Recurses(S, V, m, base, out, down, make)
  PROVE  \E f : Solution(f, S, V, base, out, down, make)
<1> DEFINE Sol(f, n) == Solves(f, n, S, V, m, base, out, down, make)
           F == [n \in Nat |-> CHOOSE f : Sol(f, n)]
           h == [s \in S |-> F[m[s] + 1][s]]
<1>0. m \in [S -> Nat] /\ down \in [S -> S] /\ \A s \in S \ base : m[down[s]] < m[s]
  BY DEF Recurses
<1>1. \A n \in Nat : Sol(F[n], n)
  <2> TAKE n \in Nat
  <2>1. \E f : Sol(f, n)
    BY DescentBelow
  <2>2. F[n] = CHOOSE f : Sol(f, n)
    OBVIOUS
  <2> HIDE DEF Sol, F
  <2> QED  BY Zenon, <2>1, <2>2
<1>2. \A n \in Nat : F[n] \in [S -> V] /\ \A s \in S : m[s] < n => F[n][s] = Descent(F[n], s, base, out, down, make)
  <2> HIDE DEF F
  <2> QED  BY <1>1 DEF Solves
<1> HIDE DEF F
<1>3. \A s \in S : m[s] + 1 \in Nat /\ m[s] \in Nat
  BY <1>0
<1>4. h \in [S -> V]
  BY <1>2, <1>3
<1>5. \A s \in S : h[s] = F[m[s] + 1][s]
  OBVIOUS
<1> HIDE DEF h
<1>6. ASSUME NEW s \in S PROVE h[s] = Descent(h, s, base, out, down, make)
  <2> DEFINE n == m[s] + 1
  <2>1. n \in Nat /\ m[s] < n
    BY <1>3
  <2>2. h[s] = Descent(F[n], s, base, out, down, make)
    BY <1>2, <1>5, <2>1
  <2>3. CASE s \in base
    BY <2>2, <2>3 DEF Descent
  <2>4. CASE s \notin base
    <3> DEFINE k == m[down[s]] + 1
    <3>1. down[s] \in S /\ k \in Nat /\ k <= n /\ m[down[s]] < k
      BY <1>0, <1>3, <2>4
    <3>2. Solves(F[k], k, S, V, m, base, out, down, make) /\ Solves(F[n], n, S, V, m, base, out, down, make)
      BY <1>1, <2>1, <3>1
    <3>3. h[down[s]] = F[k][down[s]]
      BY <1>5, <3>1
    <3> HIDE DEF k, n
    <3>4. F[k][down[s]] = F[n][down[s]]
      BY <2>1, <3>1, <3>2, DescentAgrees
    <3> QED  BY <2>2, <3>3, <3>4 DEF Descent
  <2> QED  BY <2>3, <2>4
<1>7. Solution(h, S, V, base, out, down, make)
  BY <1>4, <1>6 DEF Solution
<1> QED  BY <1>7

\* A set of subsets of a finite set that has every subset whose every reduction by
\* one member it has, has them all.
LEMMA SubsetInduction ==
  ASSUME NEW S, IsFiniteSet(S), NEW T \in SUBSET (SUBSET S),
         \A s \in SUBSET S : (\A x \in s : s \ {x} \in T) => s \in T
  PROVE  T = SUBSET S
<1> DEFINE U == (SUBSET S) \ T
<1> SUFFICES ASSUME U # {} PROVE FALSE
  OBVIOUS
<1> HIDE DEF U
<1>1. U \subseteq SUBSET S
  BY DEF U
<1>2. IsWellFoundedOn(StrictSubsetOrdering(S), SUBSET S)
  BY FS_StrictSubsetOrderingWellFounded, FS_FiniteSubsetsOfFinite
<1>3. \E s \in U : \A t \in U : ~ (<<t, s>> \in StrictSubsetOrdering(S))
  BY <1>1, <1>2, WFMin
<1>4. PICK s \in U : \A t \in U : ~ (<<t, s>> \in StrictSubsetOrdering(S))
  BY <1>3
<1>5. s \in SUBSET S /\ s \notin T
  BY DEF U
<1>6. PICK x \in s : s \ {x} \notin T
  BY <1>5
<1>7. s \ {x} \in U
  BY <1>5, <1>6 DEF U
<1>8. <<s \ {x}, s>> \in StrictSubsetOrdering(S)
  BY <1>5, <1>6 DEF StrictSubsetOrdering
<1> QED  BY <1>4, <1>7, <1>8

----------------------------------------------------------------------------
(***************************************************************************)
(* SumFunctionOnSet conforms to the equation it is defined by.             *)
(***************************************************************************)

\* The member that a fold takes first.
First(s) == CHOOSE x \in s : TRUE

\* The body of the recursive function that sums f.
SumStep(f, g, s) == IF s = {} THEN 0 ELSE f[First(s)] + g[s \ {First(s)}]

Sums(f, S, g) == g = [s \in SUBSET S |-> SumStep(f, g, s)]

LEMMA FirstMember == \A s : s # {} => First(s) \in s
BY DEF First

LEMMA SumChosen ==
  ASSUME NEW f, NEW S
  PROVE  SumFunctionOnSet(f, S) = (CHOOSE g : Sums(f, S, g))[S]
BY Zenon DEF SumFunctionOnSet, FoldFunctionOnSet, MapThenFoldSet, Sums, SumStep, First

\* Such a function exists: the equation holds for sets of n members if it is unfolded
\* n times.
LEMMA SumsExist ==
  ASSUME NEW f, NEW S, IsFiniteSet(S)
  PROVE  \E g : Sums(f, S, g)
<1> DEFINE Upto(g, n) == /\ g = [s \in SUBSET S |-> g[s]]
                         /\ \A s \in SUBSET S : Cardinality(s) <= n => g[s] = SumStep(f, g, s)
           N == {n \in Nat : \E g : Upto(g, n)}
<1>0. \A s \in SUBSET S : IsFiniteSet(s) /\ Cardinality(s) \in Nat
  BY FS_Subset, FS_CardinalityType
<1>1. 0 \in N
  <2> DEFINE g == [s \in SUBSET S |-> 0]
  <2>1. \A s \in SUBSET S : Cardinality(s) <= 0 => s = {}
    BY <1>0, FS_EmptySet
  <2>2. Upto(g, 0)
    BY <2>1 DEF SumStep
  <2> QED  BY <2>2
<1>2. ASSUME NEW n \in N PROVE n + 1 \in N
  <2>1. PICK g : Upto(g, n)
    BY <1>2
  <2> DEFINE h == [s \in SUBSET S |-> SumStep(f, g, s)]
  <2>2. h = [s \in SUBSET S |-> h[s]]
    OBVIOUS
  <2>3. ASSUME NEW s \in SUBSET S, Cardinality(s) <= n + 1
        PROVE  h[s] = SumStep(f, h, s)
    <3>1. CASE s = {}
      BY <3>1 DEF SumStep
    <3>2. CASE s # {}
      <4> DEFINE x == First(s)
      <4>1. x \in s /\ s \ {x} \in SUBSET S
        BY <3>2, FirstMember
      <4>2. Cardinality(s \ {x}) = Cardinality(s) - 1
        BY <4>1, <1>0, FS_RemoveElement
      <4>3. Cardinality(s \ {x}) <= n
        BY <4>2, <2>3, <1>0, <4>1, n \in Nat
      <4>4. g[s \ {x}] = SumStep(f, g, s \ {x})
        BY <2>1, <4>1, <4>3
      <4>5. h[s \ {x}] = g[s \ {x}]
        BY <4>1, <4>4
      <4>6. h[s] = f[x] + g[s \ {x}]
        BY <3>2 DEF SumStep
      <4>7. SumStep(f, h, s) = f[x] + h[s \ {x}]
        BY <3>2 DEF SumStep
      <4> QED  BY <4>5, <4>6, <4>7
    <3> QED  BY <3>1, <3>2
  <2>4. Upto(h, n + 1)
    BY <2>2, <2>3
  <2> HIDE DEF Upto, h
  <2>5. \E k : Upto(k, n + 1)
    BY <2>4
  <2>6. n + 1 \in Nat
    OBVIOUS
  <2> QED  BY <2>5, <2>6
<1>3. N = Nat
  <2> HIDE DEF N
  <2>1. N \in SUBSET Nat
    BY DEF N
  <2> QED  BY <2>1, <1>1, <1>2, NatSetInduction
<1>4. PICK g : Upto(g, Cardinality(S))
  BY <1>0, <1>3
<1>5. \A s \in SUBSET S : Cardinality(s) <= Cardinality(S)
  BY FS_Subset
<1>6. Sums(f, S, g)
  BY <1>4, <1>5 DEF Sums
<1> QED  BY <1>6

\* Two such functions agree where both are defined.
LEMMA SumsAgree ==
  ASSUME NEW f, NEW S, NEW R \in SUBSET S, IsFiniteSet(S), NEW g, NEW h,
         Sums(f, S, g), Sums(f, R, h)
  PROVE  \A s \in SUBSET R : g[s] = h[s]
<1> DEFINE T == {s \in SUBSET R : g[s] = h[s]}
<1>1. IsFiniteSet(R)
  BY FS_Subset
<1>2. \A s \in SUBSET R : g[s] = SumStep(f, g, s) /\ h[s] = SumStep(f, h, s)
  BY DEF Sums
<1>3. ASSUME NEW s \in SUBSET R, \A x \in s : s \ {x} \in T
      PROVE  s \in T
  <2>1. CASE s = {}
    BY <1>2, <2>1 DEF SumStep
  <2>2. CASE s # {}
    <3>1. g[s \ {First(s)}] = h[s \ {First(s)}]
      BY <1>3, <2>2, FirstMember
    <3> QED  BY <1>2, <2>2, <3>1 DEF SumStep
  <2> QED  BY <2>1, <2>2
<1>4. T = SUBSET R
  <2> HIDE DEF T
  <2>1. T \in SUBSET (SUBSET R)
    BY DEF T
  <2> QED  BY <1>1, <1>3, <2>1, SubsetInduction
<1> QED  BY <1>4

\* Nothing adds up to nothing, and a set to its first member's value and the rest.
LEMMA SumEquation ==
  ASSUME NEW f, NEW S, IsFiniteSet(S)
  PROVE  SumFunctionOnSet(f, S) =
           IF S = {} THEN 0
           ELSE f[First(S)] + SumFunctionOnSet(f, S \ {First(S)})
<1> DEFINE g == CHOOSE g : Sums(f, S, g)
           R == S \ {First(S)}
           h == CHOOSE h : Sums(f, R, h)
<1>1. IsFiniteSet(R) /\ R \in SUBSET S /\ S \in SUBSET S
  BY FS_Subset
<1>2. Sums(f, S, g)
  BY SumsExist
<1>3. Sums(f, R, h)
  BY <1>1, SumsExist
<1>4. SumFunctionOnSet(f, S) = g[S] /\ SumFunctionOnSet(f, R) = h[R]
  BY SumChosen
<1> HIDE DEF g, h
<1>5. g[S] = SumStep(f, g, S)
  BY <1>1, <1>2 DEF Sums
<1>6. g[R] = h[R]
  <2>1. ASSUME NEW Q \in SUBSET S, NEW k, Sums(f, Q, k) PROVE g[Q] = k[Q]
    <3>1. \A s \in SUBSET Q : g[s] = k[s]
      BY <1>2, <2>1, SumsAgree
    <3> QED  BY <3>1
  <2> QED  BY <1>1, <1>3, <2>1
<1> QED  BY <1>4, <1>5, <1>6 DEF SumStep

----------------------------------------------------------------------------
(***************************************************************************)
(* Sums of integers                                                        *)
(***************************************************************************)

\* A sum stays in a set that has 0 and the sum of any two of its members.
LEMMA SumClosed ==
  ASSUME NEW S, IsFiniteSet(S), NEW f, NEW V, 0 \in V,
         \A x \in S : f[x] \in V, \A m, n \in V : m + n \in V
  PROVE  SumFunctionOnSet(f, S) \in V
<1> DEFINE T == {s \in SUBSET S : SumFunctionOnSet(f, s) \in V}
<1>1. ASSUME NEW s \in SUBSET S, \A x \in s : s \ {x} \in T
      PROVE  SumFunctionOnSet(f, s) \in V
  <2> DEFINE x == First(s)
             r == s \ {x}
  <2>1. IsFiniteSet(s)
    BY FS_Subset
  <2>2. SumFunctionOnSet(f, s) = IF s = {} THEN 0 ELSE f[x] + SumFunctionOnSet(f, r)
    BY <2>1, SumEquation
  <2>3. CASE s = {}
    BY <2>2, <2>3
  <2>4. CASE s # {}
    <3>1. x \in s
      BY <2>4, FirstMember
    <3>2. SumFunctionOnSet(f, r) \in V /\ f[x] \in V
      BY <1>1, <3>1
    <3> HIDE DEF x, r
    <3> QED  BY <2>2, <2>4, <3>2
  <2> QED  BY <2>3, <2>4
<1>2. T \in SUBSET (SUBSET S)
  OBVIOUS
<1>3. \A s \in SUBSET S : (\A x \in s : s \ {x} \in T) => s \in T
  BY <1>1
<1>4. T = SUBSET S
  <2> HIDE DEF T
  <2> QED  BY <1>2, <1>3, SubsetInduction
<1> QED  BY <1>4

LEMMA SumInt ==
  ASSUME NEW S, IsFiniteSet(S), NEW f, \A x \in S : f[x] \in Int
  PROVE  SumFunctionOnSet(f, S) \in Int
<1>1. 0 \in Int /\ \A m, n \in Int : m + n \in Int
  OBVIOUS
<1> QED  BY Zenon, <1>1, SumClosed

LEMMA SumNat ==
  ASSUME NEW S, IsFiniteSet(S), NEW f, \A x \in S : f[x] \in Nat
  PROVE  SumFunctionOnSet(f, S) \in Nat
<1>1. 0 \in Nat /\ \A m, n \in Nat : m + n \in Nat
  OBVIOUS
<1> QED  BY Zenon, <1>1, SumClosed

\* Zeros add up to zero.
LEMMA SumZero ==
  ASSUME NEW S, IsFiniteSet(S), NEW f, \A x \in S : f[x] = 0
  PROVE  SumFunctionOnSet(f, S) = 0
<1> DEFINE V == {0}
<1>1. 0 \in V /\ (\A m, n \in V : m + n \in V) /\ \A x \in S : f[x] \in V
  OBVIOUS
<1>2. SumFunctionOnSet(f, S) \in V
  <2> HIDE DEF V
  <2> QED  BY Zenon, <1>1, SumClosed
<1> QED  BY <1>2

\* Functions that agree on a set have one sum over it.
LEMMA SumSame ==
  ASSUME NEW S, IsFiniteSet(S), NEW f, NEW g, \A x \in S : f[x] = g[x]
  PROVE  SumFunctionOnSet(f, S) = SumFunctionOnSet(g, S)
<1> DEFINE T == {s \in SUBSET S : SumFunctionOnSet(f, s) = SumFunctionOnSet(g, s)}
<1>1. ASSUME NEW s \in SUBSET S, \A x \in s : s \ {x} \in T
      PROVE  SumFunctionOnSet(f, s) = SumFunctionOnSet(g, s)
  <2> DEFINE x == First(s)
             r == s \ {x}
  <2>1. IsFiniteSet(s)
    BY FS_Subset
  <2>2. /\ SumFunctionOnSet(f, s) = IF s = {} THEN 0 ELSE f[x] + SumFunctionOnSet(f, r)
        /\ SumFunctionOnSet(g, s) = IF s = {} THEN 0 ELSE g[x] + SumFunctionOnSet(g, r)
    BY <2>1, SumEquation
  <2>3. CASE s = {}
    BY <2>2, <2>3
  <2>4. CASE s # {}
    <3>1. x \in s
      BY <2>4, FirstMember
    <3>2. SumFunctionOnSet(f, r) = SumFunctionOnSet(g, r) /\ f[x] = g[x]
      BY <1>1, <3>1
    <3> HIDE DEF x, r
    <3> QED  BY <2>2, <2>4, <3>2
  <2> QED  BY <2>3, <2>4
<1>2. T \in SUBSET (SUBSET S)
  OBVIOUS
<1>3. \A s \in SUBSET S : (\A x \in s : s \ {x} \in T) => s \in T
  BY <1>1
<1>4. T = SUBSET S
  <2> HIDE DEF T
  <2> QED  BY <1>2, <1>3, SubsetInduction
<1> QED  BY <1>4

\* The sum of sums is the sum of what is summed.
LEMMA SumPlus ==
  ASSUME NEW S, IsFiniteSet(S), NEW f, NEW g, NEW h,
         \A x \in S : f[x] \in Int /\ g[x] \in Int /\ h[x] = f[x] + g[x]
  PROVE  SumFunctionOnSet(h, S) = SumFunctionOnSet(f, S) + SumFunctionOnSet(g, S)
<1> DEFINE T == {s \in SUBSET S :
                   SumFunctionOnSet(h, s) = SumFunctionOnSet(f, s) + SumFunctionOnSet(g, s)}
<1>1. ASSUME NEW s \in SUBSET S, \A x \in s : s \ {x} \in T
      PROVE  SumFunctionOnSet(h, s) = SumFunctionOnSet(f, s) + SumFunctionOnSet(g, s)
  <2> DEFINE x == First(s)
             r == s \ {x}
  <2>1. IsFiniteSet(s) /\ IsFiniteSet(r)
    BY FS_Subset
  <2>2. /\ SumFunctionOnSet(f, s) = IF s = {} THEN 0 ELSE f[x] + SumFunctionOnSet(f, r)
        /\ SumFunctionOnSet(g, s) = IF s = {} THEN 0 ELSE g[x] + SumFunctionOnSet(g, r)
        /\ SumFunctionOnSet(h, s) = IF s = {} THEN 0 ELSE h[x] + SumFunctionOnSet(h, r)
    BY <2>1, SumEquation
  <2>3. SumFunctionOnSet(f, r) \in Int /\ SumFunctionOnSet(g, r) \in Int
    BY <2>1, SumInt
  <2>4. s # {} => x \in s
    BY FirstMember
  <2>5. CASE s = {}
    BY <2>2, <2>5
  <2>6. CASE s # {}
    <3>1. SumFunctionOnSet(h, r) = SumFunctionOnSet(f, r) + SumFunctionOnSet(g, r)
      BY <1>1, <2>4, <2>6
    <3>2. h[x] = f[x] + g[x] /\ f[x] \in Int /\ g[x] \in Int
      BY <2>4, <2>6
    <3> HIDE DEF x, r
    <3> QED  BY <2>2, <2>3, <2>6, <3>1, <3>2
  <2> QED  BY <2>5, <2>6
<1>2. T \in SUBSET (SUBSET S)
  OBVIOUS
<1>3. \A s \in SUBSET S : (\A x \in s : s \ {x} \in T) => s \in T
  BY <1>1
<1>4. T = SUBSET S
  <2> HIDE DEF T
  <2> QED  BY <1>2, <1>3, SubsetInduction
<1> QED  BY <1>4

\* When the value of one member changes, the sum changes by as much.
LEMMA SumChange ==
  ASSUME NEW S, IsFiniteSet(S), NEW a \in S, NEW f, NEW g,
         \A x \in S : f[x] \in Int /\ g[x] \in Int,
         \A x \in S \ {a} : g[x] = f[x]
  PROVE  SumFunctionOnSet(g, S) = SumFunctionOnSet(f, S) + (g[a] - f[a])
<1> DEFINE d == g[a] - f[a]
           T == {s \in SUBSET S : a \in s =>
                   SumFunctionOnSet(g, s) = SumFunctionOnSet(f, s) + d}
<1>1. ASSUME NEW s \in SUBSET S, \A x \in s : s \ {x} \in T, a \in s
      PROVE  SumFunctionOnSet(g, s) = SumFunctionOnSet(f, s) + d
  <2> DEFINE x == First(s)
             r == s \ {x}
  <2>1. IsFiniteSet(s) /\ IsFiniteSet(r)
    BY FS_Subset
  <2>2. x \in s
    BY <1>1, FirstMember
  <2>3. /\ SumFunctionOnSet(f, s) = f[x] + SumFunctionOnSet(f, r)
        /\ SumFunctionOnSet(g, s) = g[x] + SumFunctionOnSet(g, r)
    BY <1>1, <2>1, SumEquation
  <2>4. SumFunctionOnSet(f, r) \in Int /\ SumFunctionOnSet(g, r) \in Int
    BY <2>1, SumInt
  <2>5. CASE x = a
    <3>1. \A y \in r : f[y] = g[y]
      BY <2>5
    <3>2. SumFunctionOnSet(f, r) = SumFunctionOnSet(g, r)
      BY <2>1, <3>1, SumSame
    <3>3. f[x] \in Int /\ g[x] \in Int /\ d = g[x] - f[x]
      BY <2>2, <2>5
    <3> HIDE DEF d, x, r
    <3> QED  BY <2>3, <2>4, <3>2, <3>3
  <2>6. CASE x # a
    <3>1. r \in T /\ a \in r
      BY <1>1, <2>2, <2>6
    <3>2. SumFunctionOnSet(g, r) = SumFunctionOnSet(f, r) + d
      BY <3>1
    <3>3. g[x] = f[x] /\ f[x] \in Int /\ d \in Int
      BY <2>2, <2>6
    <3> HIDE DEF d, x, r
    <3> QED  BY <2>3, <2>4, <3>2, <3>3
  <2> QED  BY <2>5, <2>6
<1>2. T \in SUBSET (SUBSET S)
  OBVIOUS
<1>3. \A s \in SUBSET S : (\A x \in s : s \ {x} \in T) => s \in T
  BY <1>1
<1>4. T = SUBSET S
  <2> HIDE DEF T
  <2> QED  BY <1>2, <1>3, SubsetInduction
<1> QED  BY <1>4

\* A common factor.
LEMMA SumTimes ==
  ASSUME NEW S, IsFiniteSet(S), NEW c \in Int, NEW f, NEW g,
         \A x \in S : f[x] \in Int /\ g[x] = f[x] * c
  PROVE  SumFunctionOnSet(g, S) = SumFunctionOnSet(f, S) * c
<1> DEFINE T == {s \in SUBSET S : SumFunctionOnSet(g, s) = SumFunctionOnSet(f, s) * c}
<1>1. ASSUME NEW s \in SUBSET S, \A x \in s : s \ {x} \in T
      PROVE  SumFunctionOnSet(g, s) = SumFunctionOnSet(f, s) * c
  <2> DEFINE x == First(s)
             r == s \ {x}
  <2>1. IsFiniteSet(s) /\ IsFiniteSet(r)
    BY FS_Subset
  <2>2. /\ SumFunctionOnSet(f, s) = IF s = {} THEN 0 ELSE f[x] + SumFunctionOnSet(f, r)
        /\ SumFunctionOnSet(g, s) = IF s = {} THEN 0 ELSE g[x] + SumFunctionOnSet(g, r)
    BY <2>1, SumEquation
  <2>3. SumFunctionOnSet(f, r) \in Int
    BY <2>1, SumInt
  <2>4. CASE s = {}
    BY <2>2, <2>4
  <2>5. CASE s # {}
    <3>1. x \in s
      BY <2>5, FirstMember
    <3>2. SumFunctionOnSet(g, r) = SumFunctionOnSet(f, r) * c
      BY <1>1, <3>1
    <3>3. g[x] = f[x] * c /\ f[x] \in Int
      BY <3>1
    <3>4. \A m, n \in Int : (m + n) * c = m * c + n * c
      OBVIOUS
    <3> HIDE DEF x, r
    <3> QED  BY <2>2, <2>3, <2>5, <3>2, <3>3, <3>4
  <2> QED  BY <2>4, <2>5
<1>2. T \in SUBSET (SUBSET S)
  OBVIOUS
<1>3. \A s \in SUBSET S : (\A x \in s : s \ {x} \in T) => s \in T
  BY <1>1
<1>4. T = SUBSET S
  <2> HIDE DEF T
  <2> QED  BY <1>2, <1>3, SubsetInduction
<1> QED  BY <1>4

\* The places of a list, counted by what is in them.
LEMMA SumCounts ==
  ASSUME NEW S, IsFiniteSet(S), NEW P, IsFiniteSet(P), NEW list, \A i \in P : list[i] \in S
  PROVE  SumFunctionOnSet([a \in S |-> Cardinality({i \in P : list[i] = a})], S) = Cardinality(P)
<1> DEFINE f == [a \in S |-> Cardinality({i \in P : list[i] = a})]
           In(s) == {i \in P : list[i] \in s}
           T == {s \in SUBSET S : SumFunctionOnSet(f, s) = Cardinality(In(s))}
<1>0. \A s : IsFiniteSet(In(s)) /\ Cardinality(In(s)) \in Nat
  BY FS_Subset, FS_CardinalityType
<1>1. ASSUME NEW s \in SUBSET S, \A x \in s : s \ {x} \in T
      PROVE  SumFunctionOnSet(f, s) = Cardinality(In(s))
  <2> DEFINE x == First(s)
             r == s \ {x}
  <2>1. IsFiniteSet(s) /\ IsFiniteSet(r)
    BY FS_Subset
  <2>2. SumFunctionOnSet(f, s) = IF s = {} THEN 0 ELSE f[x] + SumFunctionOnSet(f, r)
    BY <2>1, SumEquation
  <2>3. CASE s = {}
    <3>1. In(s) = {}
      BY <2>3
    <3> QED  BY <2>2, <2>3, <3>1, FS_EmptySet
  <2>4. CASE s # {}
    <3>1. x \in s
      BY <2>4, FirstMember
    <3>2. SumFunctionOnSet(f, r) = Cardinality(In(r))
      BY <1>1, <3>1
    <3>3. f[x] = Cardinality(In({x}))
      <4>1. In({x}) = {i \in P : list[i] = x}
        OBVIOUS
      <4> QED  BY <3>1, <4>1
    <3>4. In(s) = In(r) \cup In({x}) /\ In(r) \cap In({x}) = {}
      BY <3>1
    <3> HIDE DEF In, x, r, f
    <3>5. Cardinality(In(s)) = Cardinality(In(r)) + Cardinality(In({x})) - Cardinality({})
      BY <1>0, <3>4, FS_Union
    <3>6. Cardinality({}) = 0
      BY FS_EmptySet
    <3> QED  BY <1>0, <2>2, <2>4, <3>2, <3>3, <3>5, <3>6
  <2> QED  BY <2>3, <2>4
<1>2. T \in SUBSET (SUBSET S)
  OBVIOUS
<1>3. \A s \in SUBSET S : (\A x \in s : s \ {x} \in T) => s \in T
  BY <1>1
<1>4. T = SUBSET S
  <2> HIDE DEF T
  <2> QED  BY <1>2, <1>3, SubsetInduction
<1>5. In(S) = P
  OBVIOUS
<1>6. SumFunctionOnSet(f, S) = Cardinality(In(S))
  BY <1>4
<1> QED  BY <1>5, <1>6

----------------------------------------------------------------------------
(***************************************************************************)
(* Increasing sequences                                                    *)
(***************************************************************************)

\* Numbers from 1 to top, each greater than the one before.
Rising(s, top) ==
  /\ s \in Seq(1 .. top)
  /\ \A i, j \in DOMAIN s : i < j => s[i] < s[j]

\* All of s comes before all of t.
Before(s, t) == \A i \in DOMAIN s, j \in DOMAIN t : s[i] < t[j]

\* Nothing is in order.
LEMMA RisingEmpty ==
  ASSUME NEW top \in Nat, NEW s
  PROVE  Rising(<<>>, top) /\ Before(s, <<>>) /\ ToSet(<<>>) = {}
BY DEF Rising, Before, ToSet

\* The bound may grow.
LEMMA RisingBound ==
  ASSUME NEW top \in Nat, NEW more \in Nat, top <= more, NEW s, Rising(s, top)
  PROVE  Rising(s, more)
<1>1. s \in Seq(1 .. more)
  BY SeqMonotonic DEF Rising
<1> QED  BY <1>1 DEF Rising

\* A number above those of s goes to the end.
LEMMA RisingAppend ==
  ASSUME NEW top \in Nat, NEW s, Rising(s, top), NEW more \in Nat, top <= more,
         NEW n \in 1 .. more, \A i \in DOMAIN s : s[i] < n
  PROVE  /\ Rising(Append(s, n), more)
         /\ ToSet(Append(s, n)) = ToSet(s) \cup {n}
<1> DEFINE t == Append(s, n)
<1>1. s \in Seq(1 .. more)
  BY RisingBound DEF Rising
<1>2. t \in Seq(1 .. more) /\ Len(t) = Len(s) + 1 /\ Len(s) \in Nat
  BY <1>1
<1>3. t[Len(s) + 1] = n /\ \A i \in 1 .. Len(s) : t[i] = s[i]
  BY <1>1
<1>4. \A i, j \in DOMAIN t : i < j => t[i] < t[j]
  <2> SUFFICES ASSUME NEW i \in DOMAIN t, NEW j \in DOMAIN t, i < j PROVE t[i] < t[j]
    OBVIOUS
  <2>1. i \in 1 .. Len(s)
    BY <1>2
  <2>2. CASE j = Len(s) + 1
    BY <1>1, <1>3, <2>1, <2>2
  <2>3. CASE j \in 1 .. Len(s)
    BY <1>1, <1>3, <2>1, <2>3 DEF Rising
  <2> QED  BY <1>2, <2>2, <2>3
<1>5. ToSet(t) = ToSet(s) \cup {n}
  <2>1. ASSUME NEW x \in ToSet(s) \cup {n} PROVE x \in ToSet(t)
    <3>1. CASE x = n
      <4>1. Len(s) + 1 \in DOMAIN t /\ t[Len(s) + 1] = x
        BY <1>2, <1>3, <3>1
      <4> QED  BY <4>1 DEF ToSet
    <3>2. CASE x \in ToSet(s)
      <4>1. PICK i \in DOMAIN s : s[i] = x
        BY <3>2 DEF ToSet
      <4>2. i \in DOMAIN t /\ t[i] = x
        BY <1>1, <1>2, <1>3, <4>1
      <4> QED  BY <4>2 DEF ToSet
    <3> QED  BY <2>1, <3>1, <3>2
  <2>2. ASSUME NEW x \in ToSet(t) PROVE x \in ToSet(s) \cup {n}
    <3>1. PICK i \in DOMAIN t : t[i] = x
      BY <2>2 DEF ToSet
    <3>2. CASE i = Len(s) + 1
      BY <1>3, <3>1, <3>2
    <3>3. CASE i \in 1 .. Len(s)
      <4>1. i \in DOMAIN s /\ s[i] = x
        BY <1>1, <1>2, <1>3, <3>1, <3>3
      <4> QED  BY <4>1 DEF ToSet
    <3> QED  BY <1>2, <3>1, <3>2, <3>3
  <2> QED  BY <2>1, <2>2
<1> QED  BY <1>2, <1>4, <1>5 DEF Rising

\* The rest of an increasing sequence is increasing, and all of it comes after its head.
LEMMA RisingTail ==
  ASSUME NEW top \in Nat, NEW t, Rising(t, top), t # <<>>
  PROVE  /\ Rising(Tail(t), top) /\ \A j \in DOMAIN Tail(t) : Head(t) < Tail(t)[j]
         /\ Head(t) \in 1 .. top
         /\ ToSet(t) = {Head(t)} \cup ToSet(Tail(t))
         /\ \A s : Before(s, t) => Before(s, Tail(t))
         /\ \A s : Before(s, t) => \A i \in DOMAIN s : s[i] < Head(t)
<1> DEFINE u == Tail(t)
<1>1. t \in Seq(1 .. top) /\ u \in Seq(1 .. top) /\ Len(t) \in Nat \ {0} /\ Len(u) = Len(t) - 1
  BY DEF Rising
<1>2. Head(t) = t[1] /\ \A i \in DOMAIN u : u[i] = t[i + 1] /\ i + 1 \in DOMAIN t
  BY <1>1
<1>3. 1 \in DOMAIN t
  BY <1>1
<1>4. Rising(u, top) /\ Head(t) \in 1 .. top
  BY <1>1, <1>2, <1>3 DEF Rising
<1>5. \A j \in DOMAIN u : Head(t) < u[j]
  BY <1>1, <1>2, <1>3 DEF Rising
<1>6. ToSet(t) = {Head(t)} \cup ToSet(u)
  <2>1. ASSUME NEW x \in ToSet(t) PROVE x \in {Head(t)} \cup ToSet(u)
    <3>1. PICK i \in DOMAIN t : t[i] = x
      BY <2>1 DEF ToSet
    <3>2. CASE i = 1
      BY <1>2, <3>1, <3>2
    <3>3. CASE i # 1
      <4>1. i - 1 \in DOMAIN u /\ u[i - 1] = x
        BY <1>1, <1>2, <3>1, <3>3
      <4> QED  BY <4>1 DEF ToSet
    <3> QED  BY <3>2, <3>3
  <2>2. ASSUME NEW x \in {Head(t)} \cup ToSet(u) PROVE x \in ToSet(t)
    BY <1>2, <1>3, <2>2 DEF ToSet
  <2> QED  BY <2>1, <2>2
<1>7. ASSUME NEW s, Before(s, t) PROVE Before(s, u) /\ \A i \in DOMAIN s : s[i] < Head(t)
  BY <1>2, <1>3, <1>7 DEF Before
<1> QED  BY <1>4, <1>5, <1>6, <1>7

\* The head of the later sequence moves to the end of the earlier one.
LEMMA HeadMoves ==
  ASSUME NEW top \in Nat, NEW s, NEW t, Rising(s, top), Rising(t, top), Before(s, t), t # <<>>
  PROVE  /\ Rising(Append(s, Head(t)), top) /\ Rising(Tail(t), top)
         /\ Before(Append(s, Head(t)), Tail(t)) /\ Before(s, Tail(t))
         /\ ToSet(Append(s, Head(t))) \cup ToSet(Tail(t)) = ToSet(s) \cup ToSet(t)
<1> DEFINE n == Head(t)
<1>1. /\ Rising(Tail(t), top) /\ n \in 1 .. top /\ Before(s, Tail(t))
      /\ ToSet(t) = {n} \cup ToSet(Tail(t)) /\ \A i \in DOMAIN s : s[i] < n
      /\ \A j \in DOMAIN Tail(t) : n < Tail(t)[j]
  BY RisingTail
<1>2. Rising(Append(s, n), top) /\ ToSet(Append(s, n)) = ToSet(s) \cup {n}
  BY <1>1, RisingAppend
<1>3. Before(Append(s, n), Tail(t))
  <2>1. s \in Seq(1 .. top)
    BY DEF Rising
  <2>2. \A i \in DOMAIN Append(s, n) : Append(s, n)[i] = n \/ (i \in DOMAIN s /\ Append(s, n)[i] = s[i])
    BY <2>1
  <2> QED  BY <1>1, <2>2 DEF Before
<1> QED  BY <1>1, <1>2, <1>3

\* Two increasing sequences, one before the other, make one.
LEMMA RisingConcat ==
  ASSUME NEW top \in Nat, NEW s, NEW t, Rising(s, top), Rising(t, top), Before(s, t)
  PROVE  /\ \A i \in 1 .. Len(s \o t) - 1 : (s \o t)[i] < (s \o t)[i + 1]
         /\ ToSet(s \o t) = ToSet(s) \cup ToSet(t)
<1> DEFINE u == s \o t
<1>1. s \in Seq(1 .. top) /\ t \in Seq(1 .. top) /\ u \in Seq(1 .. top) /\ Len(u) = Len(s) + Len(t)
  BY DEF Rising
<1>2. /\ \A i \in 1 .. Len(s) : u[i] = s[i]
      /\ \A i \in Len(s) + 1 .. Len(s) + Len(t) : u[i] = t[i - Len(s)] /\ i - Len(s) \in 1 .. Len(t)
  BY <1>1
<1>3. ASSUME NEW i \in 1 .. Len(u) - 1 PROVE u[i] < u[i + 1]
  <2>1. CASE i + 1 <= Len(s)
    <3>1. i \in DOMAIN s /\ i + 1 \in DOMAIN s /\ i < i + 1
      BY <1>1, <2>1
    <3>2. u[i] = s[i] /\ u[i + 1] = s[i + 1]
      BY <1>1, <1>2, <3>1
    <3> QED  BY <3>1, <3>2 DEF Rising
  <2>2. CASE i = Len(s)
    <3>1. i \in DOMAIN s /\ 1 \in DOMAIN t
      BY <1>1, <2>2
    <3>2. u[i] = s[i] /\ u[i + 1] = t[1]
      BY <1>1, <1>2, <2>2, <3>1
    <3> QED  BY <3>1, <3>2 DEF Before
  <2>3. CASE i > Len(s)
    <3>1. /\ i \in Len(s) + 1 .. Len(s) + Len(t) /\ i + 1 \in Len(s) + 1 .. Len(s) + Len(t)
          /\ i - Len(s) < i + 1 - Len(s)
      BY <1>1, <2>3
    <3> QED  BY <1>1, <1>2, <3>1 DEF Rising
  <2> QED  BY <1>1, <2>1, <2>2, <2>3
<1>4. ASSUME NEW x \in ToSet(s) \cup ToSet(t) PROVE x \in ToSet(u)
  <2>1. CASE x \in ToSet(s)
    BY <1>1, <1>2, <2>1 DEF ToSet
  <2>2. CASE x \in ToSet(t)
    <3>1. PICK j \in DOMAIN t : t[j] = x
      BY <2>2 DEF ToSet
    <3>2. j + Len(s) \in DOMAIN u /\ u[j + Len(s)] = x
      BY <1>1, <1>2, <3>1
    <3> QED  BY <3>2 DEF ToSet
  <2> QED  BY <1>4, <2>1, <2>2
<1>5. ASSUME NEW x \in ToSet(u) PROVE x \in ToSet(s) \cup ToSet(t)
  <2>1. PICK i \in DOMAIN u : u[i] = x
    BY <1>5 DEF ToSet
  <2>2. CASE i \in 1 .. Len(s)
    BY <1>1, <1>2, <2>1, <2>2 DEF ToSet
  <2>3. CASE i \in Len(s) + 1 .. Len(s) + Len(t)
    BY <1>1, <1>2, <2>1, <2>3 DEF ToSet
  <2> QED  BY <1>1, <2>1, <2>2, <2>3
<1> QED  BY <1>3, <1>4, <1>5
=============================================================================
