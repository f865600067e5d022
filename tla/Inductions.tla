----------------------------- MODULE Inductions -----------------------------
(***************************************************************************)
(* Induction and recursion over the numbers, over sequences and over the   *)
(* parts of finite sets.                                                   *)
(***************************************************************************)
EXTENDS Integers, Sequences, SequencesExt, FiniteSets, FiniteSetTheorems,
        WellFoundedInduction, TLAPS

\* A set of numbers has a least element.
LEMMA Least ==
  ASSUME NEW T, T \subseteq Nat, T # {}
  PROVE  \E x \in T : \A y \in T : x <= y
<1> DEFINE R == OpToRel(<, Nat)
<1>1. IsWellFoundedOn(R, Nat)
  BY NatLessThanWellFounded
<1>2. \A x, y \in Nat : <<y, x>> \in R <=> y < x
  BY DEF OpToRel
<1> HIDE DEF R
<1>3. PICK x \in T : \A y \in T : ~(<<y, x>> \in R)
  BY <1>1, WFMin
<1>4. ASSUME NEW y \in T PROVE x <= y
  <2>1. ~(y < x) /\ x \in Nat /\ y \in Nat
    BY <1>2, <1>3
  <2> QED BY <2>1
<1> QED BY <1>4

\* Induction up to a number.
LEMMA Induction ==
  ASSUME NEW n \in Nat, NEW T, 0 \in T, \A k \in 0 .. n - 1 : k \in T => k + 1 \in T
  PROVE  0 .. n \subseteq T
<1> SUFFICES ASSUME (0 .. n) \ T # {} PROVE FALSE
  OBVIOUS
<1> DEFINE rest == (0 .. n) \ T
<1>1. PICK x \in rest : \A y \in rest : x <= y
  <2>1. rest \subseteq Nat /\ rest # {}
    OBVIOUS
  <2> HIDE DEF rest
  <2> QED BY <2>1, Least
<1>2. x - 1 \in 0 .. n - 1 /\ x - 1 \notin (0 .. n) \ T
  BY <1>1
<1> QED BY <1>2

\* The greatest element of a part of an interval.
LEMMA MaxOfInterval ==
  ASSUME NEW n \in Nat, NEW s \in SUBSET (1 .. n), s # {}
  PROVE  Max(s) \in s /\ \A y \in s : y <= Max(s)
<1> DEFINE T == {n - y : y \in s}
<1>1. PICK x \in T : \A y \in T : x <= y
  <2>1. T \subseteq Nat
    OBVIOUS
  <2>2. PICK y \in s : TRUE
    OBVIOUS
  <2>3. n - y \in T
    OBVIOUS
  <2> HIDE DEF T
  <2> QED BY <2>1, <2>3, Least
<1>2. PICK m \in s : x = n - m
  OBVIOUS
<1>3. \A y \in s : m >= y
  <2> TAKE y \in s
  <2>1. x <= n - y
    BY <1>1
  <2> QED BY <1>2, <2>1
<1> QED BY <1>2, <1>3 DEF Max

\* The function of the parts of a sequence's domain that FoldLeft computes.
Folds(g, n, X, base, F) ==
  /\ g \in [SUBSET (1 .. n) -> X]
  /\ \A s \in SUBSET (1 .. n) :
       g[s] = IF s = {} THEN base ELSE F[<<Max(s), g[s \ {Max(s)}]>>]

\* It exists for every step that stays within a set.
LEMMA FoldExists ==
  ASSUME NEW n \in Nat, NEW X, NEW base \in X, NEW F \in [(1 .. n) \X X -> X]
  PROVE  \E g : Folds(g, n, X, base, F)
<1> DEFINE T == {m \in 0 .. n : \E g : Folds(g, m, X, base, F)}
<1>1. 0 \in T
  <2>1. SUBSET (1 .. 0) = {{}}
    OBVIOUS
  <2>2. Folds([s \in SUBSET (1 .. 0) |-> base], 0, X, base, F)
    BY <2>1 DEF Folds
  <2> QED BY <2>2
<1>2. ASSUME NEW m \in 0 .. n - 1, m \in T
      PROVE  m + 1 \in T
  <2>1. PICK g : Folds(g, m, X, base, F)
    BY <1>2
  <2> DEFINE h == [s \in SUBSET (1 .. m + 1) |->
                     IF m + 1 \in s THEN F[<<m + 1, g[s \ {m + 1}]>>] ELSE g[s]]
  <2>2. \A s \in SUBSET (1 .. m + 1) : s \ {m + 1} \in SUBSET (1 .. m)
    OBVIOUS
  <2>3. \A s \in SUBSET (1 .. m + 1) : m + 1 \notin s => s \in SUBSET (1 .. m)
    OBVIOUS
  <2>4. h \in [SUBSET (1 .. m + 1) -> X]
    BY <2>1, <2>2, <2>3 DEF Folds
  <2>5. \A s \in SUBSET (1 .. m) : h[s] = g[s]
    BY <2>1 DEF Folds
  <2>6. ASSUME NEW s \in SUBSET (1 .. m + 1)
        PROVE  h[s] = IF s = {} THEN base ELSE F[<<Max(s), h[s \ {Max(s)}]>>]
    <3>1. CASE m + 1 \in s
      <4>1. Max(s) \in s /\ \A y \in s : y <= Max(s)
        <5>1. m + 1 \in Nat /\ s # {}
          BY <3>1
        <5> HIDE DEF h
        <5> QED BY <5>1, MaxOfInterval
      <4>2. Max(s) = m + 1
        <5>1. Max(s) \in 1 .. m + 1 /\ m + 1 <= Max(s)
          BY <4>1, <3>1
        <5> QED BY <5>1
      <4>3. h[s] = F[<<m + 1, g[s \ {m + 1}]>>]
        BY <3>1
      <4> HIDE DEF h
      <4> QED BY <2>2, <2>5, <3>1, <4>2, <4>3
    <3>2. CASE m + 1 \notin s
      <4>1. s \in SUBSET (1 .. m) /\ h[s] = g[s]
        BY <2>3, <2>5, <3>2
      <4>2. h[s \ {Max(s)}] = g[s \ {Max(s)}]
        BY <4>1, <2>5
      <4> HIDE DEF h
      <4> QED BY <2>1, <4>1, <4>2 DEF Folds
    <3> QED BY <3>1, <3>2
  <2>7. Folds(h, m + 1, X, base, F)
    BY <2>4, <2>6 DEF Folds
  <2> HIDE DEF h
  <2> QED BY <2>7
<1>3. n \in T
  <2> HIDE DEF T
  <2>1. 0 .. n \subseteq T
    BY <1>1, <1>2, Induction
  <2> QED BY <2>1
<1> QED BY <1>3

\* The parts of the domain that FoldLeft goes through.
LEMMA FoldSteps ==
  ASSUME NEW n \in Nat, NEW k \in 1 .. n
  PROVE  /\ 1 .. k \in SUBSET (1 .. n) /\ 1 .. k # {}
         /\ Max(1 .. k) = k /\ (1 .. k) \ {Max(1 .. k)} = 1 .. k - 1
<1>1. 1 .. k \in SUBSET (1 .. n) /\ 1 .. k # {}
  OBVIOUS
<1>2. Max(1 .. k) \in 1 .. k /\ \A y \in 1 .. k : y <= Max(1 .. k)
  BY <1>1, MaxOfInterval
<1>3. Max(1 .. k) = k
  BY <1>2
<1> QED BY <1>1, <1>3

\* A sequence of results from base to last, each made from the one before.
Results(h, n, X, base, F, last) ==
  /\ h \in [0 .. n -> X] /\ h[0] = base /\ h[n] = last
  /\ \A k \in 1 .. n : h[k] = F[<<k, h[k - 1]>>]

\* A function that takes the steps of F, as far as it stays within the set.
Steps(g, n, X, base, F) ==
  /\ g[{}] = base
  /\ \A s \in SUBSET (1 .. n) : s # {} /\ g[s \ {Max(s)}] \in X =>
       g[s] = F[<<Max(s), g[s \ {Max(s)}]>>]

\* What FoldLeft computes is the last of such a sequence.
LEMMA FoldResults ==
  ASSUME NEW n \in Nat, NEW X, NEW base \in X, NEW F \in [(1 .. n) \X X -> X],
         NEW g, Steps(g, n, X, base, F)
  PROVE  \E h : Results(h, n, X, base, F, g[1 .. n])
<1> DEFINE h == [k \in 0 .. n |-> g[1 .. k]]
           T == {k \in 0 .. n : h[k] \in X}
<1>1. h[0] = base
  <2>1. 1 .. 0 = {}
    OBVIOUS
  <2> QED BY <2>1 DEF Steps
<1>2. ASSUME NEW k \in 1 .. n, h[k - 1] \in X
      PROVE  h[k] = F[<<k, h[k - 1]>>]
  <2>1. k - 1 \in 0 .. n /\ k \in 0 .. n
    OBVIOUS
  <2>2. h[k - 1] = g[1 .. k - 1] /\ h[k] = g[1 .. k]
    BY <2>1
  <2> HIDE DEF h
  <2>3. /\ 1 .. k \in SUBSET (1 .. n) /\ 1 .. k # {}
        /\ Max(1 .. k) = k /\ (1 .. k) \ {Max(1 .. k)} = 1 .. k - 1
    BY FoldSteps
  <2>4. g[(1 .. k) \ {Max(1 .. k)}] = h[k - 1]
    BY <2>2, <2>3
  <2>5. g[1 .. k] = F[<<Max(1 .. k), h[k - 1]>>]
    BY <1>2, <2>3, <2>4 DEF Steps
  <2> QED BY <2>2, <2>3, <2>5
<1> HIDE DEF h
<1>3. 0 .. n \subseteq T
  <2>1. 0 \in T
    BY <1>1
  <2>2. ASSUME NEW k \in 0 .. n - 1, k \in T PROVE k + 1 \in T
    <3>1. k + 1 \in 1 .. n /\ (k + 1) - 1 = k /\ h[k] \in X
      BY <2>2
    <3>2. h[k + 1] = F[<<k + 1, h[k]>>]
      BY <1>2, <3>1
    <3> QED BY <3>1, <3>2
  <2> HIDE DEF T
  <2> QED BY <2>1, <2>2, Induction
<1>4. h \in [0 .. n -> X]
  BY <1>3 DEF h
<1>5. \A k \in 1 .. n : h[k] = F[<<k, h[k - 1]>>]
  <2> TAKE k \in 1 .. n
  <2>1. h[k - 1] \in X
    BY <1>4
  <2> QED BY <1>2, <2>1
<1>6. g[1 .. n] = h[n]
  BY DEF h
<1> QED BY <1>1, <1>4, <1>5, <1>6 DEF Results

\* What FoldLeft computes is in a set that its steps do not leave.
LEMMA FoldWithin ==
  ASSUME NEW n \in Nat, NEW X, NEW base \in X, NEW F \in [(1 .. n) \X X -> X],
         NEW g, Steps(g, n, X, base, F)
  PROVE  g[1 .. n] \in X
<1>1. PICK h : Results(h, n, X, base, F, g[1 .. n])
  BY FoldResults
<1> QED BY <1>1 DEF Results

\* A function of the numbers that is recursive.
Recurses(h, X, base, F) ==
  /\ h \in [Nat -> X]
  /\ h = [k \in Nat |-> IF k = 0 THEN base ELSE F[<<k, h[k - 1]>>]]

\* It exists for every step that stays within a set.
LEMMA RecursionExists ==
  ASSUME NEW X, NEW base \in X, NEW F \in [Nat \X X -> X]
  PROVE  \E h : Recurses(h, X, base, F)
<1> DEFINE Part(g, n) == /\ g \in [0 .. n -> X] /\ g[0] = base
                         /\ \A k \in 1 .. n : g[k] = F[<<k, g[k - 1]>>]
           part == [n \in Nat |-> CHOOSE g : Part(g, n)]
           h == [k \in Nat |-> part[k][k]]
<1>1. ASSUME NEW n \in Nat PROVE \E g : Part(g, n)
  <2> DEFINE T == {m \in 0 .. n : \E g : Part(g, m)}
  <2>1. 0 \in T
    <3>1. Part([k \in 0 .. 0 |-> base], 0)
      OBVIOUS
    <3> HIDE DEF Part
    <3> QED BY <3>1
  <2>2. ASSUME NEW m \in 0 .. n - 1, m \in T PROVE m + 1 \in T
    <3>1. PICK g : Part(g, m)
      BY <2>2
    <3> DEFINE e == [k \in 0 .. m + 1 |-> IF k = m + 1 THEN F[<<m + 1, g[m]>>] ELSE g[k]]
    <3>2. \A k \in 0 .. m : e[k] = g[k] /\ g[k] \in X
      BY <3>1
    <3>3. e[m + 1] = F[<<m + 1, g[m]>>] /\ e[m + 1] \in X
      <4>1. e[m + 1] = F[<<m + 1, g[m]>>]
        OBVIOUS
      <4> HIDE DEF e, h, part
      <4>2. m \in 0 .. m /\ m + 1 \in Nat /\ g[m] \in X
        BY <3>2
      <4> QED BY <4>1, <4>2
    <3>4. e \in [0 .. m + 1 -> X]
      <4>1. \A k \in 0 .. m + 1 : e[k] \in X
        <5> TAKE k \in 0 .. m + 1
        <5>1. k \in 0 .. m \/ k = m + 1
          OBVIOUS
        <5> QED BY <5>1, <3>2, <3>3
      <4>2. DOMAIN e = 0 .. m + 1 /\ e = [k \in 0 .. m + 1 |-> e[k]]
        OBVIOUS
      <4> HIDE DEF e
      <4> QED BY <4>1, <4>2
    <3> HIDE DEF e
    <3>5. \A k \in 1 .. m + 1 : e[k] = F[<<k, e[k - 1]>>]
      <4> TAKE k \in 1 .. m + 1
      <4>1. CASE k = m + 1
        BY <4>1, <3>2, <3>3
      <4>2. CASE k # m + 1
        <5>1. k \in 1 .. m /\ k - 1 \in 0 .. m
          BY <4>2
        <5> QED BY <5>1, <3>1, <3>2
      <4> QED BY <4>1, <4>2
    <3>6. Part(e, m + 1)
      BY <3>1, <3>2, <3>4, <3>5
    <3> HIDE DEF Part
    <3> QED BY <3>6
  <2> HIDE DEF T
  <2>3. 0 .. n \subseteq T
    BY <2>1, <2>2, Induction
  <2> QED BY <2>3 DEF T
<1>2. ASSUME NEW n \in Nat PROVE Part(part[n], n)
  <2> HIDE DEF Part
  <2>1. Part(CHOOSE g : Part(g, n), n)
    BY <1>1, Zenon
  <2> QED BY <2>1
<1> HIDE DEF part
<1>3. ASSUME NEW n \in Nat PROVE \A k \in 0 .. n : part[n][k] = part[n + 1][k]
  <2> DEFINE T == {k \in 0 .. n : part[n][k] = part[n + 1][k]}
  <2>1. 0 \in T
    BY <1>2
  <2>2. ASSUME NEW k \in 0 .. n - 1, k \in T PROVE k + 1 \in T
    <3>1. k + 1 \in 1 .. n /\ k + 1 \in 1 .. n + 1 /\ (k + 1) - 1 = k
      OBVIOUS
    <3>2. /\ part[n][k + 1] = F[<<k + 1, part[n][k]>>]
          /\ part[n + 1][k + 1] = F[<<k + 1, part[n + 1][k]>>]
      BY <3>1, <1>2
    <3> QED BY <3>1, <3>2, <2>2
  <2> HIDE DEF T
  <2>3. 0 .. n \subseteq T
    BY <2>1, <2>2, Induction
  <2> QED BY <2>3 DEF T
<1>4. h \in [Nat -> X]
  BY <1>2
<1>5. ASSUME NEW k \in Nat
      PROVE  h[k] = IF k = 0 THEN base ELSE F[<<k, h[k - 1]>>]
  <2>1. CASE k = 0
    BY <1>2, <2>1
  <2>2. CASE k # 0
    <3>1. k - 1 \in Nat /\ k \in 1 .. k /\ (k - 1) + 1 = k /\ k - 1 \in 0 .. k - 1
      BY <2>2
    <3>2. part[k][k] = F[<<k, part[k][k - 1]>>]
      BY <1>2, <3>1
    <3>3. part[k - 1][k - 1] = part[k][k - 1]
      BY <1>3, <3>1
    <3> QED BY <2>2, <3>1, <3>2, <3>3
  <2> QED BY <2>1, <2>2
<1> HIDE DEF h
<1>6. h = [k \in Nat |-> IF k = 0 THEN base ELSE F[<<k, h[k - 1]>>]]
  BY <1>4, <1>5
<1>7. Recurses(h, X, base, F)
  BY <1>4, <1>6 DEF Recurses
<1> QED BY <1>7
---------------------------------------------------------------------------
(***************************************************************************)
(* Sums over finite sets, as the folds of the community modules compute    *)
(* them: an element is chosen and the rest is summed up.                   *)
(***************************************************************************)

Chosen(s) == CHOOSE x \in s : TRUE

\* A function of the parts of S that sums up f.
Adds(g, f, S) ==
  \A s \in SUBSET S : g[s] = IF s = {} THEN 0 ELSE f[Chosen(s)] + g[s \ {Chosen(s)}]

\* The same, whichever element is taken first.
SumsUp(g, f, S) ==
  /\ g \in [SUBSET S -> Int] /\ g[{}] = 0
  /\ \A s \in SUBSET S : \A x \in s : g[s] = f[x] + g[s \ {x}]

\* A part of a finite set is smaller by one without one of its elements.
LEMMA PartSize ==
  ASSUME NEW S, IsFiniteSet(S), NEW s \in SUBSET S, NEW x \in s
  PROVE  /\ IsFiniteSet(s) /\ s \ {x} \in SUBSET S
         /\ Cardinality(s) \in Nat \ {0} /\ Cardinality(s \ {x}) = Cardinality(s) - 1
<1>1. IsFiniteSet(s)
  BY FS_Subset
<1>2. Cardinality(s) \in Nat
  BY <1>1, FS_CardinalityType
<1>3. IsFiniteSet(s \ {x}) /\ Cardinality(s \ {x}) = Cardinality(s) - 1
  BY <1>1, FS_RemoveElement
<1>4. Cardinality(s \ {x}) \in Nat
  BY <1>3, FS_CardinalityType
<1> QED BY <1>1, <1>2, <1>3, <1>4

\* What holds of the empty set, and of a set if it holds of its parts with one
\* element less, holds of all parts of a finite set.
LEMMA PartInduction ==
  ASSUME NEW S, IsFiniteSet(S), NEW T, {} \in T,
         \A s \in SUBSET S : s # {} /\ (\A x \in s : s \ {x} \in T) => s \in T
  PROVE  SUBSET S \subseteq T
<1> DEFINE N == {k \in 0 .. Cardinality(S) : \A s \in SUBSET S : Cardinality(s) = k => s \in T}
<1>1. Cardinality(S) \in Nat
  BY FS_CardinalityType
<1>2. 0 \in N
  <2>1. ASSUME NEW s \in SUBSET S, Cardinality(s) = 0 PROVE s = {}
    <3>1. IsFiniteSet(s)
      BY FS_Subset
    <3> QED BY <2>1, <3>1, FS_EmptySet
  <2>2. \A s \in SUBSET S : Cardinality(s) = 0 => s \in T
    BY <2>1
  <2>3. 0 \in 0 .. Cardinality(S)
    BY <1>1
  <2> QED BY <2>2, <2>3
<1>3. ASSUME NEW k \in 0 .. Cardinality(S) - 1, k \in N PROVE k + 1 \in N
  <2>1. ASSUME NEW s \in SUBSET S, Cardinality(s) = k + 1 PROVE s \in T
    <3>1. s # {}
      <4>1. Cardinality({}) = 0
        BY FS_EmptySet
      <4> QED BY <4>1, <2>1
    <3>2. ASSUME NEW x \in s PROVE s \ {x} \in T
      <4>1. s \ {x} \in SUBSET S /\ Cardinality(s \ {x}) = k
        BY <2>1, PartSize
      <4> QED BY <4>1, <1>3
    <3> QED BY <3>1, <3>2
  <2> QED BY <1>1, <2>1
<1>4. 0 .. Cardinality(S) \subseteq N
  <2> HIDE DEF N
  <2> QED BY <1>1, <1>2, <1>3, Induction
<1> SUFFICES ASSUME NEW s \in SUBSET S PROVE s \in T
  OBVIOUS
<1>5. Cardinality(s) \in 0 .. Cardinality(S)
  BY <1>1, FS_Subset, FS_CardinalityType
<1> QED BY <1>4, <1>5

\* A function of the parts of a finite set that sums up exists.
LEMMA AddsExists ==
  ASSUME NEW S, IsFiniteSet(S), NEW f, \A x \in S : f[x] \in Int
  PROVE  \E g : g \in [SUBSET S -> Int] /\ Adds(g, f, S)
<1> DEFINE X == [SUBSET S -> Int]
           F == [p \in Nat \X X |->
                   [s \in SUBSET S |->
                      IF s = {} THEN 0 ELSE f[Chosen(s)] + p[2][s \ {Chosen(s)}]]]
           none == [s \in SUBSET S |-> 0]
<1>1. \A s \in SUBSET S : s # {} => Chosen(s) \in s /\ s \ {Chosen(s)} \in SUBSET S
  BY DEF Chosen
<1>2. F \in [Nat \X X -> X]
  <2>1. ASSUME NEW p \in Nat \X X, NEW s \in SUBSET S
        PROVE  (IF s = {} THEN 0 ELSE f[Chosen(s)] + p[2][s \ {Chosen(s)}]) \in Int
    BY <1>1
  <2> QED BY <2>1
<1>3. none \in X
  OBVIOUS
<1>4. PICK h : Recurses(h, X, none, F)
  <2> HIDE DEF F, X, none
  <2> QED BY <1>2, <1>3, RecursionExists
<1> DEFINE g == [s \in SUBSET S |-> h[Cardinality(s)][s]]
<1>5. ASSUME NEW s \in SUBSET S PROVE Cardinality(s) \in Nat
  BY FS_Subset, FS_CardinalityType
<1>6. h \in [Nat -> X]
  BY <1>4 DEF Recurses
<1>7. g \in [SUBSET S -> Int]
  BY <1>5, <1>6
<1>8. ASSUME NEW s \in SUBSET S
      PROVE  g[s] = IF s = {} THEN 0 ELSE f[Chosen(s)] + g[s \ {Chosen(s)}]
  <2>1. CASE s = {}
    <3>1. Cardinality({}) = 0
      BY FS_EmptySet
    <3>2. h[0] = none
      BY <1>4 DEF Recurses
    <3> QED BY <2>1, <3>1, <3>2
  <2>2. CASE s # {}
    <3> DEFINE x == Chosen(s)
               k == Cardinality(s)
    <3>1. x \in s /\ s \ {x} \in SUBSET S
      BY <1>1, <2>2
    <3>2. k \in Nat \ {0} /\ Cardinality(s \ {x}) = k - 1
      BY <3>1, PartSize
    <3> HIDE DEF k
    <3>3. h[k] = F[<<k, h[k - 1]>>] /\ h[k - 1] \in X
      <4>1. h = [i \in Nat |-> IF i = 0 THEN none ELSE F[<<i, h[i - 1]>>]]
        BY <1>4 DEF Recurses
      <4> HIDE DEF F, X, none
      <4> QED BY <4>1, <1>6, <3>2
    <3>4. F[<<k, h[k - 1]>>][s] = f[x] + h[k - 1][s \ {x}]
      BY <2>2, <3>2, <3>3
    <3>5. g[s] = h[k][s] /\ g[s \ {x}] = h[k - 1][s \ {x}]
      BY <3>1, <3>2 DEF k
    <3> HIDE DEF g, F, X, none
    <3> QED BY <2>2, <3>3, <3>4, <3>5
  <2> QED BY <2>1, <2>2
<1> HIDE DEF g
<1> QED BY <1>7, <1>8 DEF Adds

\* The order does not matter: any element may be taken first.
LEMMA SumsExist ==
  ASSUME NEW S, IsFiniteSet(S), NEW f, \A x \in S : f[x] \in Int
  PROVE  \E g : SumsUp(g, f, S)
<1>1. PICK g \in [SUBSET S -> Int] : Adds(g, f, S)
  BY AddsExists
<1> DEFINE T == {s \in SUBSET S : \A x \in s : g[s] = f[x] + g[s \ {x}]}
<1>2. ASSUME NEW s \in SUBSET S, s # {}, \A x \in s : s \ {x} \in T
      PROVE  s \in T
  <2> SUFFICES ASSUME NEW x \in s PROVE g[s] = f[x] + g[s \ {x}]
    OBVIOUS
  <2> DEFINE c == Chosen(s)
  <2>1. c \in s /\ g[s] = f[c] + g[s \ {c}]
    BY <1>1, <1>2 DEF Adds, Chosen
  <2> HIDE DEF c
  <2>2. CASE x # c
    <3>1. x \in s \ {c} /\ c \in s \ {x}
      BY <2>1, <2>2
    <3>2. g[s \ {c}] = f[x] + g[(s \ {c}) \ {x}]
      BY <1>2, <2>1, <3>1
    <3>3. g[s \ {x}] = f[c] + g[(s \ {x}) \ {c}]
      BY <1>2, <2>1, <3>1
    <3>4. (s \ {c}) \ {x} = (s \ {x}) \ {c}
      OBVIOUS
    <3> DEFINE rest == g[(s \ {x}) \ {c}]
    <3>5. f[x] \in Int /\ f[c] \in Int /\ rest \in Int
      BY <1>1, <2>1
    <3>6. g[s] = f[c] + (f[x] + rest) /\ g[s \ {x}] = f[c] + rest
      BY <2>1, <3>2, <3>3, <3>4
    <3> HIDE DEF rest
    <3> QED BY <3>5, <3>6
  <2> QED BY <2>1, <2>2
<1>3. {} \in T
  OBVIOUS
<1>4. SUBSET S \subseteq T
  <2> HIDE DEF T
  <2> QED BY <1>2, <1>3, PartInduction
<1>5. g[{}] = 0
  BY <1>1 DEF Adds
<1> QED BY <1>1, <1>4, <1>5 DEF SumsUp

\* There is one sum of a set, and only the set's elements matter.
LEMMA SumIsUnique ==
  ASSUME NEW S, IsFiniteSet(S), NEW f, NEW g, SumsUp(g, f, S),
         NEW t \in SUBSET S, NEW e, NEW d, Adds(e, d, t), \A x \in t : d[x] = f[x]
  PROVE  e[t] = g[t]
<1> DEFINE T == {s \in SUBSET t : e[s] = g[s]}
<1>1. {} \in T
  BY DEF Adds, SumsUp
<1>2. ASSUME NEW s \in SUBSET t, s # {}, \A x \in s : s \ {x} \in T
      PROVE  s \in T
  <2> DEFINE c == Chosen(s)
  <2>1. c \in s /\ e[s] = d[c] + e[s \ {c}]
    BY <1>2 DEF Adds, Chosen
  <2> HIDE DEF c
  <2>2. g[s] = f[c] + g[s \ {c}] /\ e[s \ {c}] = g[s \ {c}] /\ d[c] = f[c]
    BY <1>2, <2>1 DEF SumsUp
  <2> QED BY <2>1, <2>2
<1>3. IsFiniteSet(t)
  BY FS_Subset
<1>4. SUBSET t \subseteq T
  <2> HIDE DEF T
  <2> QED BY <1>1, <1>2, <1>3, PartInduction
<1> QED BY <1>4

\* Sums of larger numbers over more elements are larger.
LEMMA SumsGrow ==
  ASSUME NEW S, IsFiniteSet(S), NEW f, NEW g, SumsUp(g, f, S), NEW d, NEW e, SumsUp(e, d, S),
         \A x \in S : f[x] \in Int /\ d[x] \in Nat /\ f[x] <= d[x],
         NEW t \in SUBSET S, NEW s \in SUBSET t
  PROVE  g[s] <= e[t]
<1> DEFINE T == {u \in SUBSET t : g[u \cap s] <= e[u]}
<1>1. {} \in T
  <2>1. {} \cap s = {}
    OBVIOUS
  <2> QED BY <2>1 DEF SumsUp
<1>2. ASSUME NEW u \in SUBSET t, u # {}, \A x \in u : u \ {x} \in T
      PROVE  u \in T
  <2>1. PICK x \in u : TRUE
    BY <1>2
  <2>2. e[u] = d[x] + e[u \ {x}] /\ e[u \ {x}] \in Int /\ g[(u \ {x}) \cap s] \in Int
    BY <2>1 DEF SumsUp
  <2>3. g[(u \ {x}) \cap s] <= e[u \ {x}]
    BY <1>2, <2>1
  <2>4. f[x] \in Int /\ d[x] \in Nat /\ f[x] <= d[x]
    BY <2>1
  <2>5. CASE x \in s
    <3>1. (u \cap s) \ {x} = (u \ {x}) \cap s /\ x \in u \cap s
      BY <2>5, <2>1
    <3>2. g[u \cap s] = f[x] + g[(u \ {x}) \cap s]
      BY <3>1 DEF SumsUp
    <3>3. g[u \cap s] <= e[u]
      BY <2>2, <2>3, <2>4, <3>2
    <3> QED BY <3>3
  <2>6. CASE x \notin s
    <3>1. u \cap s = (u \ {x}) \cap s
      BY <2>6
    <3> DEFINE rest == g[(u \ {x}) \cap s]
    <3>2. g[u \cap s] = rest
      BY <3>1
    <3>3. rest <= e[u \ {x}] /\ rest \in Int
      BY <2>2, <2>3
    <3> HIDE DEF rest
    <3>4. g[u \cap s] <= e[u]
      BY <2>2, <2>4, <3>2, <3>3
    <3> QED BY <3>4
  <2> QED BY <2>5, <2>6
<1>3. IsFiniteSet(t)
  BY FS_Subset
<1>4. SUBSET t \subseteq T
  <2> HIDE DEF T
  <2> QED BY <1>1, <1>2, <1>3, PartInduction
<1>5. t \cap s = s
  OBVIOUS
<1> QED BY <1>4, <1>5

\* What SumFunctionOnSet computes, over a part of a finite set.
LEMMA SumOnSet ==
  ASSUME NEW S, IsFiniteSet(S), NEW f, NEW g, SumsUp(g, f, S), \A x \in S : f[x] \in Int,
         NEW t \in SUBSET S, NEW d, \A x \in t : d[x] = f[x]
  PROVE  SumFunctionOnSet(d, t) = g[t]
<1> DEFINE P(e) == e = [s \in SUBSET t |->
                          IF s = {} THEN 0
                          ELSE LET x == CHOOSE x \in s : TRUE IN d[x] + e[s \ {x}]]
           e0 == CHOOSE e : P(e)
<1>1. SumFunctionOnSet(d, t) = e0[t]
  BY DEF SumFunctionOnSet, FoldFunctionOnSet, MapThenFoldSet
<1>2. PICK e \in [SUBSET t -> Int] : Adds(e, d, t)
  BY FS_Subset, AddsExists
<1>3. P(e)
  BY <1>2 DEF Adds, Chosen
<1>4. P(e0)
  <2> HIDE DEF P
  <2> QED BY <1>3, Zenon
<1> HIDE DEF e0
<1>5. Adds(e0, d, t)
  BY <1>4 DEF Adds, Chosen
<1> QED BY <1>1, <1>5, SumIsUnique

\* A sum over a function that differs in one place.
LEMMA SumAfterChange ==
  ASSUME NEW S, IsFiniteSet(S), NEW f \in [S -> Int], NEW x \in S, NEW v \in Int
  PROVE  /\ SumFunction(f) \in Int
         /\ SumFunction([f EXCEPT ![x] = v]) = SumFunction(f) - f[x] + v
<1> DEFINE d == [f EXCEPT ![x] = v]
<1>1. PICK g : SumsUp(g, f, S)
  BY SumsExist
<1>2. PICK e : SumsUp(e, d, S)
  <2>1. \A y \in S : d[y] \in Int
    OBVIOUS
  <2> HIDE DEF d
  <2> QED BY <2>1, SumsExist
<1>3. DOMAIN f = S /\ DOMAIN d = S /\ \A y \in S : d[y] \in Int
  OBVIOUS
<1>4. d[x] = v /\ \A y \in S \ {x} : d[y] = f[y]
  OBVIOUS
<1> HIDE DEF d
<1>5. SumFunction(f) = g[S]
  BY <1>1, <1>3, SumOnSet DEF SumFunction
<1>6. SumFunction(d) = e[S]
  BY <1>2, <1>3, SumOnSet DEF SumFunction
<1>7. SumFunctionOnSet(f, S \ {x}) = g[S \ {x}]
  BY <1>1, SumOnSet
<1>8. SumFunctionOnSet(f, S \ {x}) = e[S \ {x}]
  BY <1>2, <1>3, <1>4, SumOnSet
<1>9. /\ g[S] = f[x] + g[S \ {x}] /\ e[S] = d[x] + e[S \ {x}]
      /\ g[S] \in Int /\ g[S \ {x}] \in Int
  BY <1>1, <1>2 DEF SumsUp
<1>10. e[S] = g[S] - f[x] + v /\ g[S] \in Int
  BY <1>4, <1>7, <1>8, <1>9
<1> QED BY <1>5, <1>6, <1>10 DEF d
=============================================================================
