---------------------------- MODULE FoldTheorems ----------------------------
(***************************************************************************)
(* What the folds of the community modules compute over finite sets and    *)
(* sequences of any size.  A fold is a function defined by recursion on    *)
(* finite sets; that there is such a function, and what it has for values, *)
(* is shown for a smallest set for which it would fail.                    *)
(***************************************************************************)
EXTENDS Integers, FiniteSets, SequencesExt, FiniteSetTheorems,
        WellFoundedInduction, TLAPS

-----------------------------------------------------------------------------
(***************************************************************************)
(* Smallest counterexamples.                                               *)
(***************************************************************************)

\* A set of natural numbers that is not empty has a least element.
LEMMA LeastNatural ==
  ASSUME NEW S \in SUBSET Nat, S # {}
  PROVE  \E x \in S : \A y \in S : x <= y
<1> DEFINE R == {ss \in Nat \X Nat : ss[1] < ss[2]}
<1>1. IsWellFoundedOn(R, Nat)
  BY NatLessThanWellFounded DEF OpToRel
<1>2. ASSUME NEW x \in Nat, NEW y \in Nat, y < x
      PROVE  <<y, x>> \in R
  <2> DEFINE p == <<y, x>>
  <2>1. p \in Nat \X Nat /\ p[1] = y /\ p[2] = x
    OBVIOUS
  <2> HIDE DEF p
  <2>2. p \in R
    BY <1>2, <2>1
  <2> QED
    BY <2>2 DEF p
<1> HIDE DEF R
<1>3. PICK x \in S : \A y \in S : ~(<<y, x>> \in R)
  BY <1>1, WFMin
<1>4. \A y \in S : ~(y < x)
  BY <1>2, <1>3
<1> QED
  BY <1>4

LEMMA MinIsMember ==
  ASSUME NEW S \in SUBSET Nat, S # {}
  PROVE  Min(S) \in S /\ \A y \in S : Min(S) <= y
BY LeastNatural DEF Min

\* So has one that is not empty and bounded a greatest one.
LEMMA MaxIsMember ==
  ASSUME NEW n \in Nat, NEW S \in SUBSET (1..n), S # {}
  PROVE  Max(S) \in S /\ \A y \in S : y <= Max(S)
<1> DEFINE T == {n - y : y \in S}
<1>1. T \in SUBSET Nat /\ T # {}
  <2>1. ASSUME NEW y \in S PROVE n - y \in Nat
    <3>1. y \in 1..n
      OBVIOUS
    <3> QED
      BY <3>1
  <2>2. PICK y \in S : TRUE
    OBVIOUS
  <2> QED
    BY <2>1, <2>2
<1>2. PICK t \in T : \A u \in T : t <= u
  BY <1>1, LeastNatural
<1>3. PICK x \in S : t = n - x
  OBVIOUS
<1>4. \A y \in S : y <= x
  <2> SUFFICES ASSUME NEW y \in S PROVE y <= x
    OBVIOUS
  <2>1. t <= n - y
    BY <1>2
  <2> QED
    BY <1>3, <2>1
<1> QED
  BY <1>4 DEF Max

\* Among sets of elements of S there is one with no other below it.
LEMMA SmallestSet ==
  ASSUME NEW S, IsFiniteSet(S), NEW B \in SUBSET SUBSET S, B # {}
  PROVE  \E s \in B : \A t \in SUBSET s : t # s => t \notin B
<1> DEFINE N == {Cardinality(s) : s \in B}
<1>1. \A s \in B : IsFiniteSet(s) /\ Cardinality(s) \in Nat
  BY FS_Subset, FS_CardinalityType
<1>2. N \in SUBSET Nat /\ N # {}
  BY <1>1
<1>3. PICK n \in N : \A m \in N : n <= m
  BY <1>2, LeastNatural
<1>4. PICK s \in B : n = Cardinality(s)
  OBVIOUS
<1>5. ASSUME NEW t \in SUBSET s, t \in B
      PROVE  t = s
  <2>1. n <= Cardinality(t)
    BY <1>3, <1>5
  <2>2. Cardinality(t) <= Cardinality(s) /\ Cardinality(t) \in Nat
    BY <1>1, <1>5, FS_Subset
  <2>3. Cardinality(s) \in Nat
    BY <1>1
  <2>4. Cardinality(s) = Cardinality(t)
    BY <1>4, <2>1, <2>2, <2>3
  <2> QED
    BY <1>1, <2>4, FS_Subset
<1> QED
  BY <1>5

\* What holds of a set whenever it holds of the sets below it holds of all.
LEMMA SetInduction ==
  ASSUME NEW S, IsFiniteSet(S), NEW G,
         \A s \in SUBSET S : (\A t \in SUBSET s : t # s => t \in G) => s \in G
  PROVE  \A s \in SUBSET S : s \in G
<1> DEFINE B == {s \in SUBSET S : s \notin G}
<1>1. B \in SUBSET SUBSET S
  OBVIOUS
<1>2. ASSUME B # {} PROVE FALSE
  <2>1. PICK s \in B : \A t \in SUBSET s : t # s => t \notin B
    <3> HIDE DEF B
    <3> QED
      BY <1>1, <1>2, SmallestSet
  <2>2. \A t \in SUBSET s : t # s => t \in G
    BY <2>1
  <2> QED
    BY <2>2
<1> QED
  BY <1>2

-----------------------------------------------------------------------------
(***************************************************************************)
(* Recursion on finite sets: step[x] takes the value for a set without its *)
(* chosen element x to the value for the set.                              *)
(***************************************************************************)
Chooses(c, S) == \A s \in SUBSET S : s # {} => c[s] \in s

Folds(S, c, base, step, g) ==
  g = [s \in SUBSET S |->
         IF s = {} THEN base ELSE step[c[s]][g[s \ {c[s]}]]]

LEMMA FoldsAgree ==
  ASSUME NEW S, IsFiniteSet(S), NEW T \in SUBSET S, NEW c, Chooses(c, S),
         NEW base, NEW step, NEW g, NEW h,
         Folds(S, c, base, step, g), Folds(T, c, base, step, h)
  PROVE  \A s \in SUBSET T : h[s] = g[s]
<1> DEFINE G == {s \in SUBSET T : h[s] = g[s]}
<1>1. ASSUME NEW s \in SUBSET T, \A t \in SUBSET s : t # s => t \in G
      PROVE  h[s] = g[s]
  <2>1. CASE s = {}
    BY <2>1 DEF Folds
  <2>2. CASE s # {}
    <3>1. c[s] \in s
      BY <2>2 DEF Chooses
    <3>2. h[s \ {c[s]}] = g[s \ {c[s]}]
      BY <1>1, <3>1
    <3>3. h[s] = step[c[s]][h[s \ {c[s]}]]
      BY <2>2 DEF Folds
    <3>4. g[s] = step[c[s]][g[s \ {c[s]}]]
      BY <2>2 DEF Folds
    <3> QED
      BY <3>2, <3>3, <3>4
  <2> QED
    BY <2>1, <2>2
<1>2. \A s \in SUBSET T : s \in G
  <2>1. \A s \in SUBSET T :
          (\A t \in SUBSET s : t # s => t \in G) => s \in G
    BY <1>1
  <2>2. IsFiniteSet(T)
    BY FS_Subset
  <2> HIDE DEF G
  <2> QED
    BY <2>1, <2>2, SetInduction
<1> QED
  BY <1>2

\* The values of a fold are where its steps stay.
LEMMA FoldsTyped ==
  ASSUME NEW S, IsFiniteSet(S), NEW c, Chooses(c, S), NEW base, NEW step,
         NEW g, Folds(S, c, base, step, g),
         NEW V, base \in V, \A x \in S : \A v \in V : step[x][v] \in V
  PROVE  \A s \in SUBSET S : g[s] \in V
<1> DEFINE G == {s \in SUBSET S : g[s] \in V}
<1>1. ASSUME NEW s \in SUBSET S, \A t \in SUBSET s : t # s => t \in G
      PROVE  g[s] \in V
  <2>1. CASE s = {}
    BY <2>1 DEF Folds
  <2>2. CASE s # {}
    <3>1. c[s] \in s
      BY <2>2 DEF Chooses
    <3>2. g[s \ {c[s]}] \in V
      BY <1>1, <3>1
    <3>3. g[s] = step[c[s]][g[s \ {c[s]}]]
      BY <2>2 DEF Folds
    <3> QED
      BY <3>1, <3>2, <3>3
  <2> QED
    BY <2>1, <2>2
<1>2. \A s \in SUBSET S : (\A t \in SUBSET s : t # s => t \in G) => s \in G
  BY <1>1
<1> HIDE DEF G
<1>3. \A s \in SUBSET S : s \in G
  BY <1>2, SetInduction
<1> QED
  BY <1>3 DEF G

LEMMA FoldExists ==
  ASSUME NEW S, IsFiniteSet(S), NEW c, Chooses(c, S), NEW base, NEW step
  PROVE  \E g : Folds(S, c, base, step, g)
<1> DEFINE B == {s \in SUBSET S : ~ \E g : Folds(s, c, base, step, g)}
<1>1. ASSUME B # {} PROVE FALSE
  <2>1. PICK T \in B : \A t \in SUBSET T : t # T => t \notin B
    <3>1. B \in SUBSET SUBSET S
      OBVIOUS
    <3> HIDE DEF B
    <3> QED
      BY <1>1, <3>1, SmallestSet
  <2> DEFINE F(s) == CHOOSE g : Folds(s, c, base, step, g)
             x    == c[T]
             top  == IF T = {} THEN base ELSE step[x][F(T \ {x})[T \ {x}]]
             g    == [s \in SUBSET T |-> IF s = T THEN top ELSE F(s)[s]]
  <2>2. ASSUME NEW s \in SUBSET T, s # T
        PROVE  IsFiniteSet(s) /\ Folds(s, c, base, step, F(s))
    BY <2>1, <2>2, FS_Subset, Zenon
  <2>3. ASSUME NEW s \in SUBSET T
        PROVE  g[s] = IF s = {} THEN base ELSE step[c[s]][g[s \ {c[s]}]]
    <3>1. CASE s = T
      <4>1. CASE T = {}
        BY <3>1, <4>1
      <4>2. CASE T # {}
        <5>1. x \in T
          BY <4>2 DEF Chooses
        <5>2. g[T \ {x}] = F(T \ {x})[T \ {x}]
          BY <5>1
        <5>3. g[s] = step[x][F(T \ {x})[T \ {x}]]
          BY <3>1, <4>2
        <5> HIDE DEF F, g
        <5> QED
          BY <3>1, <4>2, <5>2, <5>3
      <4> QED
        BY <4>1, <4>2, Zenon
    <3>2. CASE s # T
      <4>1. g[s] = F(s)[s] /\ Folds(s, c, base, step, F(s)) /\ IsFiniteSet(s)
        BY <2>2, <3>2
      <4>2. CASE s = {}
        BY <4>1, <4>2, Zenon DEF Folds
      <4>3. CASE s # {}
        <5> DEFINE t == s \ {c[s]}
        <5>1. c[s] \in s
          BY <4>3 DEF Chooses
        <5>2. t \in SUBSET s /\ t # T /\ Chooses(c, s)
          BY <5>1 DEF Chooses
        <5>3. g[t] = F(t)[t] /\ Folds(t, c, base, step, F(t))
          BY <2>2, <5>2
        <5>4. F(t)[t] = F(s)[t]
          <6> HIDE DEF F, t
          <6> QED
            BY <4>1, <5>2, <5>3, FoldsAgree
        <5>5. F(s)[s] = step[c[s]][F(s)[t]]
          <6> HIDE DEF F
          <6> QED
            BY <4>1, <4>3 DEF Folds
        <5> HIDE DEF F, g
        <5> QED
          BY <4>1, <4>3, <5>3, <5>4, <5>5
      <4> QED
        BY <4>2, <4>3, Zenon
    <3> QED
      BY <3>1, <3>2, Zenon
  <2>4. Folds(T, c, base, step, g)
    <3>1. g = [s \in SUBSET T |-> g[s]]
      OBVIOUS
    <3> HIDE DEF g
    <3> QED
      BY <2>3, <3>1 DEF Folds
  <2> HIDE DEF g
  <2> QED
    BY <2>1, <2>4
<1> QED
  BY <1>1

-----------------------------------------------------------------------------
(***************************************************************************)
(* Sums.                                                                   *)
(***************************************************************************)

\* The sums of f over the sets of its arguments: any of them may be added last.
Sums(f, g) ==
  /\ g \in [SUBSET DOMAIN f -> Int]
  /\ g[{}] = 0
  /\ \A s \in SUBSET DOMAIN f : \A x \in s : g[s] = f[x] + g[s \ {x}]

\* The sums that a choice of elements gives.
ChosenSums(S, c, f, g) ==
  /\ g \in [SUBSET S -> Int]
  /\ g[{}] = 0
  /\ \A s \in SUBSET S : s # {} => g[s] = f[c[s]] + g[s \ {c[s]}]

\* Adding chosen elements is adding any elements.
LEMMA AnyOrder ==
  ASSUME NEW S, IsFiniteSet(S), NEW f \in [S -> Int], NEW c, Chooses(c, S),
         NEW g, ChosenSums(S, c, f, g)
  PROVE  Sums(f, g)
<1> DEFINE G == {s \in SUBSET S : \A x \in s : g[s] = f[x] + g[s \ {x}]}
<1>1. ASSUME NEW s \in SUBSET S, \A t \in SUBSET s : t # s => t \in G,
             NEW x \in s
      PROVE  g[s] = f[x] + g[s \ {x}]
  <2> DEFINE y == c[s]
             t == s \ {x}
             u == s \ {y}
             r == s \ {x, y}
  <2>1. y \in s /\ g[s] = f[y] + g[u]
    BY DEF Chooses, ChosenSums
  <2>2. CASE x = y
    BY <2>1, <2>2
  <2>3. CASE x # y
    <3>1. t \in G /\ y \in t /\ t \ {y} = r
      BY <1>1, <2>1, <2>3
    <3>2. u \in G /\ x \in u /\ u \ {x} = r
      BY <1>1, <2>1, <2>3
    <3>3. g[t] = f[y] + g[r]
      BY <3>1
    <3>4. g[u] = f[x] + g[r]
      BY <3>2
    <3>5. f[x] \in Int /\ f[y] \in Int /\ g[r] \in Int
      BY <2>1 DEF ChosenSums
    <3> QED
      BY <2>1, <3>3, <3>4, <3>5
  <2> QED
    BY <2>2, <2>3
<1>2. \A s \in SUBSET S : (\A t \in SUBSET s : t # s => t \in G) => s \in G
  BY <1>1
<1>3. \A s \in SUBSET S : s \in G
  <2> HIDE DEF G
  <2> QED
    BY <1>2, SetInduction
<1> QED
  BY <1>3 DEF Sums, ChosenSums

SumOf(f) == MapThenSumSet(LAMBDA x : f[x], DOMAIN f)

LEMMA SumsExist ==
  ASSUME NEW S, IsFiniteSet(S), NEW f \in [S -> Int]
  PROVE  \E g : Sums(f, g) /\ SumOf(f) = g[S]
<1> DEFINE c == [s \in SUBSET S |-> CHOOSE x \in s : TRUE]
           step == [x \in S |-> [v \in Int |-> f[x] + v]]
           IsIter(g) ==
             g = [s \in SUBSET S |->
                    IF s = {} THEN 0
                    ELSE LET x == CHOOSE x \in s : TRUE
                         IN  f[x] + g[s \ {x}]]
           iter == CHOOSE g : IsIter(g)
<1>1. Chooses(c, S)
  BY DEF Chooses
<1>2. \A x \in S : \A v \in Int : step[x][v] = f[x] + v /\ f[x] + v \in Int
  OBVIOUS
<1>3. \E g : IsIter(g)
  <2>1. PICK g : Folds(S, c, 0, step, g)
    <3> HIDE DEF c, step
    <3> QED
      BY <1>1, FoldExists
  <2>2. \A s \in SUBSET S : g[s] \in Int
    <3> HIDE DEF c, step
    <3> QED
      BY <1>1, <1>2, <2>1, FoldsTyped
  <2>3. ASSUME NEW s \in SUBSET S
        PROVE  g[s] = IF s = {} THEN 0
                      ELSE LET x == CHOOSE x \in s : TRUE
                           IN  f[x] + g[s \ {x}]
    <3>1. CASE s = {}
      BY <2>1, <3>1 DEF Folds
    <3>2. CASE s # {}
      <4> DEFINE x == CHOOSE x \in s : TRUE
      <4>1. x \in s /\ c[s] = x
        BY <3>2
      <4>2. g[s] = step[c[s]][g[s \ {c[s]}]]
        <5> HIDE DEF c, step
        <5> QED
          BY <2>1, <3>2 DEF Folds
      <4>3. g[s] = f[x] + g[s \ {x}]
        <5> HIDE DEF c, step, x
        <5> QED
          BY <1>2, <2>2, <4>1, <4>2
      <4> QED
        BY <3>2, <4>3
    <3> QED
      BY <3>1, <3>2
  <2>4. g = [s \in SUBSET S |-> g[s]]
    <3> HIDE DEF c, step
    <3> QED
      BY <2>1 DEF Folds
  <2>5. IsIter(g)
    <3> HIDE DEF c, step
    <3> QED
      BY <2>3, <2>4
  <2> QED
    BY <2>5
<1>4. IsIter(iter)
  <2> HIDE DEF IsIter
  <2> QED
    BY <1>3
<1>5. SumOf(f) = iter[S]
  BY DEF SumOf, MapThenSumSet, MapThenFoldSet
<1>6. ASSUME NEW s \in SUBSET S, s # {}
      PROVE  iter[s] = f[c[s]] + iter[s \ {c[s]}]
  <2> HIDE DEF iter
  <2> QED
    BY <1>4, <1>6
<1>7. iter[{}] = 0
  <2> HIDE DEF iter
  <2> QED
    BY <1>4
<1>8. iter \in [SUBSET S -> Int]
  <2> DEFINE V == Int \cup {iter[s] : s \in SUBSET S}
             st == [x \in S |-> [v \in V |-> f[x] + v]]
  <2>1. Folds(S, c, 0, st, iter)
    <3> HIDE DEF iter
    <3>1. iter = [s \in SUBSET S |-> iter[s]]
      BY <1>4
    <3>2. ASSUME NEW s \in SUBSET S, s # {}
          PROVE  iter[s] = st[c[s]][iter[s \ {c[s]}]]
      <4>1. c[s] \in S /\ iter[s \ {c[s]}] \in V
        <5> HIDE DEF c
        <5> QED
          BY <1>1, <3>2 DEF Chooses
      <4> HIDE DEF c, V
      <4> QED
        BY <1>6, <3>2, <4>1
    <3> HIDE DEF c, st
    <3> QED
      BY <1>7, <3>1, <3>2 DEF Folds
  <2>2. \A x \in S : \A v \in Int : st[x][v] \in Int
    OBVIOUS
  <2>3. \A s \in SUBSET S : iter[s] \in Int
    <3> HIDE DEF c, st, iter
    <3> QED
      BY <1>1, <2>1, <2>2, FoldsTyped
  <2> HIDE DEF iter, st, V
  <2> QED
    BY <1>4, <2>3
<1>9. Sums(f, iter)
  <2>1. \A s \in SUBSET S :
          s # {} => iter[s] = f[c[s]] + iter[s \ {c[s]}]
    BY <1>6
  <2> HIDE DEF iter, c
  <2>2. ChosenSums(S, c, f, iter)
    BY <1>7, <1>8, <2>1 DEF ChosenSums
  <2> QED
    BY <1>1, <2>2, AnyOrder
<1> QED
  BY <1>5, <1>9

\* Sums over the same sets of functions with the same values are the same.
LEMMA SumsAgree ==
  ASSUME NEW S, IsFiniteSet(S), NEW T \in SUBSET S,
         NEW f \in [S -> Int], NEW h \in [T -> Int],
         \A x \in T : h[x] = f[x],
         NEW g, NEW k, Sums(f, g), Sums(h, k)
  PROVE  k[T] = g[T]
<1> DEFINE G == {s \in SUBSET T : k[s] = g[s]}
<1>1. ASSUME NEW s \in SUBSET T, \A t \in SUBSET s : t # s => t \in G
      PROVE  k[s] = g[s]
  <2>1. CASE s = {}
    BY <2>1 DEF Sums
  <2>2. CASE s # {}
    <3>1. PICK x \in s : TRUE
      BY <2>2
    <3>2. k[s \ {x}] = g[s \ {x}]
      BY <1>1
    <3>3. g[s] = f[x] + g[s \ {x}] /\ k[s] = h[x] + k[s \ {x}]
      BY DEF Sums
    <3> QED
      BY <3>2, <3>3
  <2> QED
    BY <2>1, <2>2
<1>2. \A s \in SUBSET T : (\A t \in SUBSET s : t # s => t \in G) => s \in G
  BY <1>1
<1>3. IsFiniteSet(T)
  BY FS_Subset
<1>4. \A s \in SUBSET T : s \in G
  <2> HIDE DEF G
  <2> QED
    BY <1>2, <1>3, SetInduction
<1> QED
  BY <1>4

\* A sum grows by what is added to it.
LEMMA SumGrows ==
  ASSUME NEW S, IsFiniteSet(S), NEW i, i \notin S,
         NEW h \in [S -> Int], NEW f \in [S \cup {i} -> Int],
         \A x \in S : f[x] = h[x]
  PROVE  SumOf(f) = SumOf(h) + f[i]
<1>1. IsFiniteSet(S \cup {i})
  BY FS_AddElement
<1>2. PICK g : Sums(f, g) /\ SumOf(f) = g[S \cup {i}]
  BY <1>1, SumsExist
<1>3. PICK k : Sums(h, k) /\ SumOf(h) = k[S]
  BY SumsExist
<1>4. k[S] = g[S]
  BY <1>1, <1>2, <1>3, SumsAgree
<1>5. g[S \cup {i}] = f[i] + g[S] /\ g[S] \in Int /\ f[i] \in Int
  <2>1. (S \cup {i}) \ {i} = S
    OBVIOUS
  <2>2. DOMAIN f = S \cup {i}
    OBVIOUS
  <2> QED
    BY <1>2, <2>1, <2>2 DEF Sums
<1> QED
  BY <1>2, <1>3, <1>4, <1>5

\* A sum of natural numbers is a natural number.
LEMMA SumIsNat ==
  ASSUME NEW S, IsFiniteSet(S), NEW f \in [S -> Nat]
  PROVE  SumOf(f) \in Nat
<1>1. PICK g : Sums(f, g) /\ SumOf(f) = g[S]
  BY SumsExist
<1> DEFINE G == {s \in SUBSET S : g[s] \in Nat}
<1>2. ASSUME NEW s \in SUBSET S, \A t \in SUBSET s : t # s => t \in G
      PROVE  g[s] \in Nat
  <2>1. CASE s = {}
    BY <1>1, <2>1 DEF Sums
  <2>2. CASE s # {}
    <3>1. PICK x \in s : TRUE
      BY <2>2
    <3>2. g[s \ {x}] \in Nat /\ f[x] \in Nat
      BY <1>2
    <3>3. g[s] = f[x] + g[s \ {x}]
      BY <1>1 DEF Sums
    <3> QED
      BY <3>2, <3>3
  <2> QED
    BY <2>1, <2>2
<1>3. \A s \in SUBSET S : (\A t \in SUBSET s : t # s => t \in G) => s \in G
  BY <1>2
<1>4. \A s \in SUBSET S : s \in G
  <2> HIDE DEF G
  <2> QED
    BY <1>3, SetInduction
<1> QED
  BY <1>1, <1>4

\* The sum of nothing.
LEMMA SumOfNothing ==
  ASSUME NEW f, DOMAIN f = {}, f \in [{} -> Int]
  PROVE  SumOf(f) = 0
<1>1. IsFiniteSet({})
  BY FS_EmptySet
<1>2. PICK g : Sums(f, g) /\ SumOf(f) = g[{}]
  BY <1>1, SumsExist
<1> QED
  BY <1>2 DEF Sums
=============================================================================
