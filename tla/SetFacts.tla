------------------------------ MODULE SetFacts -------------------------------
(***************************************************************************)
(* What the proofs need to know of finite sets: largest and smallest       *)
(* members, images, and the sums that the folds of the community modules   *)
(* compute.                                                                *)
(*                                                                         *)
(* Induction over a finite set is done by looking at a smallest one among  *)
(* the sets a statement is false for (SmallestSet).                        *)
(***************************************************************************)
EXTENDS Integers, FiniteSets, FiniteSetsExt, FiniteSetTheorems, WellFoundedInduction, TLAPS

\* A set of numbers that is not empty has a smallest member.
LEMMA SmallestNumber ==
    ASSUME NEW N \in SUBSET Nat, N # {}
    PROVE  \E n \in N : \A m \in N : n <= m
<1> DEFINE R == {ss \in Nat \X Nat : ss[1] < ss[2]}
<1>1. IsWellFoundedOn(R, Nat)
  BY NatLessThanWellFounded DEF OpToRel
<1> HIDE DEF R
<1>2. PICK n \in N : \A m \in N : ~ (<<m, n>> \in R)
  BY <1>1, WFMin
<1> USE DEF R
<1>3. \A m \in N : ~ (m < n)
  BY <1>2
<1> QED
  BY <1>3

\* Among finite sets there is one from which no member can be taken.
LEMMA SmallestSet ==
    ASSUME NEW T, T # {}, \A s \in T : IsFiniteSet(s)
    PROVE  \E s \in T : \A x \in s : s \ {x} \notin T
<1> DEFINE N == {Cardinality(s) : s \in T}
<1>1. N \in SUBSET Nat /\ N # {}
  BY FS_CardinalityType
<1> HIDE DEF N
<1>2. PICK n \in N : \A m \in N : n <= m
  BY <1>1, SmallestNumber
<1> USE DEF N
<1>3. PICK s \in T : n = Cardinality(s)
  OBVIOUS
<1>4. ASSUME NEW x \in s, s \ {x} \in T
      PROVE  FALSE
  <2>1. Cardinality(s \ {x}) = Cardinality(s) - 1 /\ Cardinality(s) \in Nat
    BY FS_RemoveElement, FS_CardinalityType
  <2>2. Cardinality(s) <= Cardinality(s \ {x})
    BY <1>2, <1>3, <1>4
  <2> QED
    BY <2>1, <2>2
<1> QED
  BY <1>4

\* A finite set of numbers has a largest and a smallest member.
LEMMA MaxMin ==
    ASSUME NEW S \in SUBSET Int, IsFiniteSet(S), S # {}
    PROVE  /\ Max(S) \in S /\ \A y \in S : Max(S) >= y
           /\ Min(S) \in S /\ \A y \in S : Min(S) <= y
<1> DEFINE Bounded(s) == /\ \E x \in s : \A y \in s : x >= y
                         /\ \E x \in s : \A y \in s : x <= y
           T == {s \in SUBSET S : s # {} /\ ~Bounded(s)}
<1>1. T = {}
  <2> SUFFICES ASSUME T # {}
               PROVE  FALSE
    OBVIOUS
  <2>1. \A s \in T : IsFiniteSet(s)
    BY FS_Subset
  <2> HIDE DEF T
  <2>2. PICK s \in T : \A x \in s : s \ {x} \notin T
    BY <2>1, SmallestSet
  <2> USE DEF T
  <2>3. PICK x \in s : TRUE
    OBVIOUS
  <2>4. s \ {x} = {} \/ Bounded(s \ {x})
    BY <2>2
  <2>5. CASE s \ {x} = {}
    BY <2>3, <2>5
  <2>6. CASE Bounded(s \ {x})
    <3>1. PICK hi \in s \ {x} : \A y \in s \ {x} : hi >= y
      BY <2>6
    <3>2. PICK lo \in s \ {x} : \A y \in s \ {x} : lo <= y
      BY <2>6
    <3>3. hi \in Int /\ lo \in Int /\ x \in Int /\ \A y \in s : y \in Int
      OBVIOUS
    <3>4. \E z \in s : \A y \in s : z >= y
      <4>1. CASE x >= hi
        BY <3>1, <3>3, <4>1
      <4>2. CASE hi >= x
        BY <3>1, <4>2
      <4> QED
        BY <3>3, <4>1, <4>2
    <3>5. \E z \in s : \A y \in s : z <= y
      <4>1. CASE x <= lo
        BY <3>2, <3>3, <4>1
      <4>2. CASE lo <= x
        BY <3>2, <4>2
      <4> QED
        BY <3>3, <4>1, <4>2
    <3> QED
      BY <3>4, <3>5
  <2> QED
    BY <2>4, <2>5, <2>6
<1>2. Bounded(S)
  BY <1>1
<1> QED
  BY <1>2 DEF Max, Min

\* The values of a function on a finite set are finitely many.
LEMMA FiniteImage ==
    ASSUME NEW S, IsFiniteSet(S), NEW f, DOMAIN f = S
    PROVE  IsFiniteSet({f[x] : x \in S})
<1> DEFINE T == {f[x] : x \in S}
           g == [x \in S |-> f[x]]
<1>1. g \in Surjection(S, T)
  BY DEF Surjection
<1> HIDE DEF T, g
<1>2. IsFiniteSet(T)
  BY <1>1, FS_Surjection
<1> QED
  BY <1>2 DEF T

-----------------------------------------------------------------------------
(* Sums.                                                                   *)

\* The function by which the fold computes the sums of the subsets of S.
IsSum(g, F, S) ==
    g = [s \in SUBSET S |->
            IF s = {} THEN 0
            ELSE F[CHOOSE x \in s : TRUE] + g[s \ {CHOOSE x \in s : TRUE}]]

\* There is such a function.
LEMMA SumExists ==
    ASSUME NEW S, IsFiniteSet(S), NEW F, \A x \in S : F[x] \in Int
    PROVE  \E g \in [SUBSET S -> Int] : IsSum(g, F, S)
<1> DEFINE c(s) == CHOOSE x \in s : TRUE
           Step(g) == [s \in SUBSET S |-> IF s = {} THEN 0 ELSE F[c(s)] + g[s \ {c(s)}]]
           Good(g, n) == \A s \in SUBSET S : Cardinality(s) <= n => g[s] = Step(g)[s]
           N == {n \in Nat : ~ \E g \in [SUBSET S -> Int] : Good(g, n)}
<1>1. \A s \in SUBSET S : s # {} => c(s) \in s
  OBVIOUS
<1>2. \A s \in SUBSET S : IsFiniteSet(s) /\ Cardinality(s) \in Nat
  BY FS_Subset, FS_CardinalityType
<1>3. \A s \in SUBSET S : s # {} =>
         s \ {c(s)} \in SUBSET S /\ Cardinality(s \ {c(s)}) = Cardinality(s) - 1
  BY <1>1, <1>2, FS_RemoveElement
<1>4. ASSUME NEW g \in [SUBSET S -> Int]
      PROVE  Step(g) \in [SUBSET S -> Int]
  <2>1. \A s \in SUBSET S : s # {} => F[c(s)] \in Int /\ g[s \ {c(s)}] \in Int
    BY <1>1, <1>3
  <2> HIDE DEF c
  <2> QED
    BY <2>1
<1>5. N = {}
  <2> SUFFICES ASSUME N # {}
               PROVE  FALSE
    OBVIOUS
  <2>1. N \in SUBSET Nat
    OBVIOUS
  <2> HIDE DEF N
  <2>2. PICK n \in N : \A m \in N : n <= m
    BY <2>1, SmallestNumber
  <2>3. CASE n = 0
    <3> DEFINE g == [s \in SUBSET S |-> 0]
    <3>1. Good(g, 0)
      <4> SUFFICES ASSUME NEW s \in SUBSET S, Cardinality(s) <= 0
                   PROVE  g[s] = Step(g)[s]
        OBVIOUS
      <4>1. s = {}
        BY <1>2, FS_EmptySet
      <4> QED
        BY <4>1
    <3>2. g \in [SUBSET S -> Int]
      OBVIOUS
    <3> HIDE DEF Good, g
    <3> QED
      BY <2>2, <2>3, <3>1, <3>2 DEF N
  <2>4. CASE n # 0
    <3>1. n - 1 \in Nat /\ n - 1 \notin N
      BY <2>1, <2>2, <2>4
    <3>2. PICK g \in [SUBSET S -> Int] : Good(g, n - 1)
      BY <3>1 DEF N
    <3> DEFINE h == Step(g)
    <3>3. ASSUME NEW s \in SUBSET S, Cardinality(s) <= n
          PROVE  h[s] = Step(h)[s]
      <4>1. CASE s = {}
        BY <4>1
      <4>2. CASE s # {}
        <5>1. /\ s \ {c(s)} \in SUBSET S
              /\ Cardinality(s \ {c(s)}) <= n - 1
          BY <1>2, <1>3, <2>1, <3>3, <4>2
        <5>2. g[s \ {c(s)}] = h[s \ {c(s)}]
          BY <3>2, <5>1
        <5>3. h[s] = F[c(s)] + g[s \ {c(s)}]
          BY <4>2
        <5>4. Step(h)[s] = F[c(s)] + h[s \ {c(s)}]
          BY <4>2
        <5> QED
          BY <5>2, <5>3, <5>4
      <4> QED
        BY <4>1, <4>2
    <3>4. h \in [SUBSET S -> Int] /\ Good(h, n)
      BY <1>4, <3>3
    <3> HIDE DEF Good, h
    <3> QED
      BY <2>2, <3>4 DEF N
  <2> QED
    BY <2>3, <2>4
<1>6. PICK g \in [SUBSET S -> Int] : Good(g, Cardinality(S))
  BY <1>2, <1>5
<1>7. \A s \in SUBSET S : Cardinality(s) <= Cardinality(S)
  BY FS_Subset
<1>8. g = Step(g)
  BY <1>4, <1>6, <1>7
<1> QED
  BY <1>8 DEF IsSum

\* The sums of numbers are numbers, and those of integers are integers.
LEMMA SumType ==
    ASSUME NEW S, IsFiniteSet(S), NEW F, NEW g, IsSum(g, F, S),
           NEW V \in {Nat, Int}, \A x \in S : F[x] \in V
    PROVE  \A s \in SUBSET S : g[s] \in V
<1> DEFINE c(s) == CHOOSE x \in s : TRUE
           T == {s \in SUBSET S : g[s] \notin V}
<1>1. T = {}
  <2> SUFFICES ASSUME T # {}
               PROVE  FALSE
    OBVIOUS
  <2>1. \A s \in T : IsFiniteSet(s)
    BY FS_Subset
  <2> HIDE DEF T
  <2>2. PICK s \in T : \A x \in s : s \ {x} \notin T
    BY <2>1, SmallestSet
  <2> USE DEF T
  <2>0. 0 \in V /\ \A m, n \in V : m + n \in V
    OBVIOUS
  <2>3. CASE s = {}
    BY <2>0, <2>3 DEF IsSum
  <2>4. CASE s # {}
    <3>1. c(s) \in s /\ s \ {c(s)} \in SUBSET S
      BY <2>4
    <3>2. g[s \ {c(s)}] \in V
      BY <2>2, <3>1
    <3>3. g[s] = F[c(s)] + g[s \ {c(s)}]
      BY <2>4 DEF IsSum
    <3> QED
      BY <2>0, <3>1, <3>2, <3>3
  <2> QED
    BY <2>3, <2>4
<1> QED
  BY <1>1

\* A sum of numbers between lo and hi is between that many times lo and hi.
LEMMA SumBounds ==
    ASSUME NEW S, IsFiniteSet(S), NEW F, \A x \in S : F[x] \in Nat, NEW g, IsSum(g, F, S),
           NEW lo \in Nat, NEW hi \in Nat, \A x \in S : lo <= F[x] /\ F[x] <= hi
    PROVE  lo * Cardinality(S) <= g[S] /\ g[S] <= hi * Cardinality(S)
<1> DEFINE c(s) == CHOOSE x \in s : TRUE
           Good(s) == lo * Cardinality(s) <= g[s] /\ g[s] <= hi * Cardinality(s)
           T == {s \in SUBSET S : ~Good(s)}
<1>1. T = {}
  <2> SUFFICES ASSUME T # {}
               PROVE  FALSE
    OBVIOUS
  <2>1. \A s \in T : IsFiniteSet(s)
    BY FS_Subset
  <2> HIDE DEF T
  <2>2. PICK s \in T : \A x \in s : s \ {x} \notin T
    BY <2>1, SmallestSet
  <2> USE DEF T
  <2>3. CASE s = {}
    BY <2>3, FS_EmptySet DEF IsSum
  <2>4. CASE s # {}
    <3> DEFINE x == c(s)
               m == Cardinality(s)
    <3>1. x \in s /\ x \in S /\ s \ {x} \in SUBSET S
      BY <2>4
    <3>2. g[s] = F[x] + g[s \ {x}]
      BY <2>4 DEF IsSum
    <3> HIDE DEF x
    <3>3. Good(s \ {x})
      BY <2>2, <3>1
    <3>4. Cardinality(s \ {x}) = m - 1 /\ m \in Nat
      BY <2>1, <3>1, FS_RemoveElement, FS_CardinalityType
    <3>5. F[x] \in Nat /\ lo <= F[x] /\ F[x] <= hi /\ g[s \ {x}] \in Nat
      BY <3>1, SumType
    <3> HIDE DEF m
    <3>6. lo * (m - 1) <= g[s \ {x}] /\ g[s \ {x}] <= hi * (m - 1)
      BY <3>3, <3>4
    <3>7. lo * (m - 1) = lo * m - lo /\ hi * (m - 1) = hi * m - hi
      BY <3>4
    <3>8. lo * m \in Int /\ hi * m \in Int
      BY <3>4
    <3>9. lo * m <= g[s] /\ g[s] <= hi * m
      BY <3>2, <3>5, <3>6, <3>7, <3>8
    <3> QED
      BY <3>9 DEF m
  <2> QED
    BY <2>3, <2>4
<1>2. Good(S)
  BY <1>1
<1> QED
  BY <1>2

\* So their mean, rounded down, is between lo and hi.
LEMMA MeanBounds ==
    ASSUME NEW S, IsFiniteSet(S), S # {}, NEW F, \A x \in S : F[x] \in Nat, NEW g, IsSum(g, F, S),
           NEW lo \in Nat, NEW hi \in Nat, \A x \in S : lo <= F[x] /\ F[x] <= hi
    PROVE  /\ g[S] \div Cardinality(S) \in Nat
           /\ lo <= g[S] \div Cardinality(S) /\ g[S] \div Cardinality(S) <= hi
<1> DEFINE m == Cardinality(S)
           t == g[S]
<1>1. m \in Nat /\ m # 0
  BY FS_CardinalityType, FS_EmptySet
<1>2. t \in Nat
  BY SumType
<1>3. lo * m <= t /\ t <= hi * m
  BY SumBounds
<1> HIDE DEF m, t
<1> DEFINE d == t \div m
<1>4. d \in Nat /\ d * m <= t /\ t < d * m + m
  BY <1>1, <1>2
<1> HIDE DEF d
<1>5. lo <= d
  <2> SUFFICES ASSUME d + 1 <= lo
               PROVE  FALSE
    BY <1>4
  <2>1. (d + 1) * m <= lo * m
    BY <1>1, <1>4
  <2>2. (d + 1) * m = d * m + m
    BY <1>1, <1>4
  <2>3. d * m \in Int /\ lo * m \in Int
    BY <1>1, <1>4
  <2> QED
    BY <1>1, <1>2, <1>3, <1>4, <2>1, <2>2, <2>3
<1>6. d <= hi
  <2> SUFFICES ASSUME hi + 1 <= d
               PROVE  FALSE
    BY <1>4
  <2>1. (hi + 1) * m <= d * m
    BY <1>1, <1>4
  <2>2. (hi + 1) * m = hi * m + m
    BY <1>1
  <2>3. d * m \in Int /\ hi * m \in Int
    BY <1>1, <1>4
  <2> QED
    BY <1>1, <1>2, <1>3, <1>4, <2>1, <2>2, <2>3
<1> QED
  BY <1>4, <1>5, <1>6 DEF d, m, t
\* A sum of integers differs from another one by as much as the only summand
\* in which they differ.
LEMMA SumChange ==
    ASSUME NEW S, IsFiniteSet(S),
           NEW F, \A x \in S : F[x] \in Int, NEW g, IsSum(g, F, S),
           NEW G, \A x \in S : G[x] \in Int, NEW h, IsSum(h, G, S)
    PROVE  \A w \in S : (\A x \in S \ {w} : F[x] = G[x]) => h[S] = g[S] + G[w] - F[w]
<1> SUFFICES ASSUME NEW w \in S, \A x \in S \ {w} : F[x] = G[x]
             PROVE  h[S] = g[S] + G[w] - F[w]
  OBVIOUS
<1> DEFINE c(s) == CHOOSE x \in s : TRUE
           Good(s) == h[s] = IF w \in s THEN g[s] + G[w] - F[w] ELSE g[s]
           T == {s \in SUBSET S : ~Good(s)}
<1>1. T = {}
  <2> SUFFICES ASSUME T # {}
               PROVE  FALSE
    OBVIOUS
  <2>1. \A s \in T : IsFiniteSet(s)
    BY FS_Subset
  <2> HIDE DEF T
  <2>2. PICK s \in T : \A x \in s : s \ {x} \notin T
    BY <2>1, SmallestSet
  <2> USE DEF T
  <2>3. CASE s = {}
    <3>1. g[s] = 0 /\ h[s] = 0
      BY <2>3 DEF IsSum
    <3> QED
      BY <2>3, <3>1
  <2>4. CASE s # {}
    <3> DEFINE x == c(s)
               r == s \ {x}
    <3>1. x \in s /\ x \in S /\ r \in SUBSET S /\ s \in SUBSET S
      BY <2>4
    <3>2. g[s] = F[x] + g[r] /\ h[s] = G[x] + h[r]
      BY <2>4 DEF IsSum
    <3>3. Good(r)
      BY <2>2, <3>1
    <3>4. w \in r <=> w \in s /\ w # x
      OBVIOUS
    <3> HIDE DEF x, r
    <3>5. /\ F[x] \in Int /\ G[x] \in Int /\ F[w] \in Int /\ G[w] \in Int
          /\ g[r] \in Int /\ h[r] \in Int /\ (x # w => F[x] = G[x])
      BY <3>1, SumType
    <3>6. Good(s)
      <4>1. CASE x = w
        BY <3>1, <3>2, <3>3, <3>4, <3>5, <4>1
      <4>2. CASE x # w
        BY <3>1, <3>2, <3>3, <3>4, <3>5, <4>2
      <4> QED
        BY <4>1, <4>2
    <3> QED
      BY <3>6
  <2> QED
    BY <2>3, <2>4
<1>2. Good(S)
  BY <1>1
<1> QED
  BY <1>2

\* What SumFunction computes is such a sum.
LEMMA SumFunctionIsSum ==
    ASSUME NEW S, IsFiniteSet(S), NEW F \in [S -> Int]
    PROVE  \E g \in [SUBSET S -> Int] : IsSum(g, F, S) /\ SumFunction(F) = g[S]
<1> DEFINE P(g) == g = [s \in SUBSET S |->
                          IF s = {} THEN 0
                          ELSE F[CHOOSE x \in s : TRUE] + g[s \ {CHOOSE x \in s : TRUE}]]
           h == CHOOSE g : P(g)
<1>1. \A g : P(g) <=> IsSum(g, F, S)
  BY DEF IsSum
<1>2. DOMAIN F = S
  OBVIOUS
<1>3. SumFunction(F) = (CHOOSE g : P(g))[S]
  BY <1>2 DEF SumFunction, SumFunctionOnSet, FoldFunctionOnSet, MapThenFoldSet
<1>4. PICK k \in [SUBSET S -> Int] : IsSum(k, F, S)
  BY SumExists
<1> HIDE DEF P
<1>5. P(h)
  BY <1>1, <1>4
<1> HIDE DEF h
<1>6. IsSum(h, F, S)
  BY <1>1, <1>5
<1>7. h \in [SUBSET S -> Int]
  <2>1. \A s \in SUBSET S : h[s] \in Int
    BY <1>6, SumType
  <2>2. h = [s \in SUBSET S |-> h[s]]
    BY <1>6 DEF IsSum
  <2> QED
    BY <2>1, <2>2
<1> QED
  BY <1>3, <1>6, <1>7 DEF h

\* So the sum of a function is an integer, and changes as one value does.
LEMMA SumFunctionFacts ==
    ASSUME NEW S, IsFiniteSet(S), NEW F \in [S -> Int]
    PROVE  /\ SumFunction(F) \in Int
           /\ \A G \in [S -> Int], w \in S :
                (\A x \in S \ {w} : F[x] = G[x])
                   => SumFunction(G) = SumFunction(F) + G[w] - F[w]
<1>1. PICK g \in [SUBSET S -> Int] : IsSum(g, F, S) /\ SumFunction(F) = g[S]
  BY SumFunctionIsSum
<1>2. SumFunction(F) \in Int
  BY <1>1
<1>3. ASSUME NEW G \in [S -> Int], NEW w \in S, \A x \in S \ {w} : F[x] = G[x]
      PROVE  SumFunction(G) = SumFunction(F) + G[w] - F[w]
  <2>1. PICK h \in [SUBSET S -> Int] : IsSum(h, G, S) /\ SumFunction(G) = h[S]
    BY SumFunctionIsSum
  <2>2. IsSum(g, F, S) /\ IsSum(h, G, S)
    BY <1>1, <2>1
  <2>3. \A v \in S : (\A x \in S \ {v} : F[x] = G[x]) => h[S] = g[S] + G[v] - F[v]
    BY <2>2, SumChange
  <2>4. h[S] = g[S] + G[w] - F[w]
    BY <1>3, <2>3
  <2> QED
    BY <1>1, <2>1, <2>4
<1> QED
  BY <1>2, <1>3
=============================================================================
