------------------------------- MODULE SetLemmas -------------------------------
(***************************************************************************)
(* The least and the greatest of a set of numbers, and sums over finite    *)
(* sets, which the library defines by recursion.  The provers cannot       *)
(* instantiate the induction theorems of the library, whose parameter is   *)
(* an operator; here it is the set of the numbers, or of the sets, of      *)
(* which a claim holds.                                                    *)
(***************************************************************************)
EXTENDS FiniteSetsExt, FiniteSetTheorems, WellFoundedInduction, TLAPS

LEMMA LeastExists ==
    ASSUME NEW S, S \subseteq Nat, S # {}
    PROVE  \E m \in S : \A x \in S : m <= x
<1>1. PICK m \in S : \A y \in S : ~(<<y, m>> \in OpToRel(<, Nat))
  BY NatLessThanWellFounded, WFMin
<1>2. \A y \in S : ~(y < m)
  BY <1>1 DEF OpToRel
<1> QED BY <1>2

LEMMA MinIsLeast ==
    ASSUME NEW S, S \subseteq Nat, S # {}
    PROVE  Min(S) \in S /\ \A x \in S : Min(S) <= x
<1>1. PICK m \in S : \A y \in S : m <= y
  BY LeastExists
<1> QED BY <1>1 DEF Min

LEMMA MaxIsGreatest ==
    ASSUME NEW n \in Nat, NEW S, S \subseteq 0 .. n, S # {}
    PROVE  Max(S) \in S /\ \A x \in S : x <= Max(S)
<1> DEFINE T == {n - x : x \in S}
<1>1. PICK x \in S : TRUE
  OBVIOUS
<1>2. T \subseteq Nat /\ n - x \in T
  <2>1. \A y \in 0 .. n : n - y \in Nat
    OBVIOUS
  <2>2. \A y \in S : n - y \in Nat
    <3> HIDE DEF T
    <3> QED BY <2>1
  <2>3. T \subseteq Nat
    BY <2>2, Zenon
  <2>4. n - x \in T
    BY <1>1, Zenon
  <2> QED BY <2>3, <2>4, Zenon
<1>3. PICK m \in T : \A y \in T : m <= y
  BY <1>2, LeastExists
<1>4. PICK z \in S : m = n - z
  OBVIOUS
<1>5. ASSUME NEW y \in S PROVE y <= z
  <2>1. n - z <= n - y
    BY <1>3, <1>4
  <2>2. y \in 0 .. n /\ z \in 0 .. n
    OBVIOUS
  <2> QED BY ONLY <2>1, <2>2, n \in Nat
<1> QED BY <1>4, <1>5 DEF Max

-----------------------------------------------------------------------------
(* Induction.                                                              *)

\* A set of numbers that has 0 and the successors of its members has all.
LEMMA NumbersByOne ==
    ASSUME NEW good \in SUBSET Nat, 0 \in good, \A n \in good : n + 1 \in good
    PROVE  good = Nat
<1> SUFFICES ASSUME Nat \ good # {} PROVE FALSE
  OBVIOUS
<1>1. PICK m \in Nat \ good : \A n \in Nat \ good : m <= n
  BY LeastExists
<1>2. m # 0 /\ m - 1 \in Nat
  BY <1>1
<1>3. m - 1 \in good
  BY <1>1, <1>2
<1>4. (m - 1) + 1 = m
  BY <1>1
<1> QED BY <1>1, <1>3, <1>4

Pick(s) == CHOOSE x \in s : TRUE

LEMMA WithoutOne ==
    ASSUME NEW S, IsFiniteSet(S), NEW s \in SUBSET S, s # {}
    PROVE  /\ Pick(s) \in s /\ s \ {Pick(s)} \in SUBSET S
           /\ Cardinality(s) \in Nat \ {0}
           /\ Cardinality(s \ {Pick(s)}) = Cardinality(s) - 1
<1>1. Pick(s) \in s
  BY DEF Pick
<1>2. IsFiniteSet(s)
  BY FS_Subset
<1>3. Cardinality(s \ {Pick(s)}) = Cardinality(s) - 1
  BY <1>1, <1>2, FS_RemoveElement
<1>4. Cardinality(s) \in Nat /\ Cardinality(s) # 0
  BY <1>2, FS_CardinalityType, FS_EmptySet
<1> QED BY <1>1, <1>3, <1>4

LEMMA SizeIsNat ==
    ASSUME NEW S, IsFiniteSet(S), NEW s \in SUBSET S
    PROVE  Cardinality(s) \in Nat /\ (Cardinality(s) = 0 <=> s = {})
<1>1. IsFiniteSet(s)
  BY FS_Subset
<1> QED BY <1>1, FS_CardinalityType, FS_EmptySet

\* A family of subsets that has {}, and each other one if it has it without the element
\* picked from it, has all.
LEMMA SubsetsByOne ==
    ASSUME NEW S, IsFiniteSet(S), NEW good \in SUBSET SUBSET S, {} \in good,
           \A s \in SUBSET S : s # {} /\ s \ {Pick(s)} \in good => s \in good
    PROVE  good = SUBSET S
<1> DEFINE sizes == {n \in Nat : \A s \in SUBSET S : Cardinality(s) = n => s \in good}
<1>1. 0 \in sizes
  BY SizeIsNat
<1>2. ASSUME NEW n \in sizes PROVE n + 1 \in sizes
  <2>1. ASSUME NEW s \in SUBSET S, Cardinality(s) = n + 1 PROVE s \in good
    <3>1. s # {}
      BY <2>1, FS_EmptySet
    <3>2. s \ {Pick(s)} \in SUBSET S /\ Cardinality(s \ {Pick(s)}) = n
      BY <2>1, <3>1, WithoutOne
    <3> QED BY <3>1, <3>2
  <2> QED BY <2>1
<1>3. sizes \subseteq Nat
  OBVIOUS
<1>4. sizes = Nat
  <2> HIDE DEF sizes
  <2> QED BY <1>1, <1>2, <1>3, NumbersByOne
<1>5. ASSUME NEW s \in SUBSET S PROVE s \in good
  <2>1. Cardinality(s) \in sizes
    BY <1>4, SizeIsNat
  <2> QED BY <2>1
<1> QED BY <1>5

-----------------------------------------------------------------------------
(* Sums.                                                                   *)

\* The function by which MapThenSumSet and FoldSet add up, set by set.
SumsUp(sum, g, S) ==
    sum = [s \in SUBSET S |->
            IF s = {} THEN 0
            ELSE g[CHOOSE x \in s : TRUE] + sum[s \ {CHOOSE x \in s : TRUE}]]

Sums(g, S) == CHOOSE sum : SumsUp(sum, g, S)

LEMMA MapThenSumIsSum ==
    ASSUME NEW g, NEW S
    PROVE  MapThenSumSet(LAMBDA x : g[x], S) = Sums(g, S)[S]
BY DEF MapThenSumSet, MapThenFoldSet, Sums, SumsUp

LEMMA FoldIsSum ==
    ASSUME NEW g, NEW S
    PROVE  FoldSet(LAMBDA x, n : g[x] + n, 0, S) = Sums(g, S)[S]
BY DEF FoldSet, MapThenFoldSet, Sums, SumsUp

\* The sums of sets of at most n elements.
Small(S, n) == {s \in SUBSET S : Cardinality(s) <= n}

SumsUpTo(sum, g, S, n) ==
    sum = [s \in Small(S, n) |-> IF s = {} THEN 0 ELSE g[Pick(s)] + sum[s \ {Pick(s)}]]

LEMMA SumsGoOn ==
    ASSUME NEW g, NEW S, IsFiniteSet(S), NEW n \in Nat, NEW before, SumsUpTo(before, g, S, n)
    PROVE  \E sum : SumsUpTo(sum, g, S, n + 1)
<1> DEFINE sum == [s \in Small(S, n + 1) |->
                    IF s \in Small(S, n) THEN before[s] ELSE g[Pick(s)] + before[s \ {Pick(s)}]]
<1>1. ASSUME NEW s \in Small(S, n + 1)
      PROVE  sum[s] = IF s = {} THEN 0 ELSE g[Pick(s)] + sum[s \ {Pick(s)}]
  <2>1. CASE s = {}
    <3>1. s \in Small(S, n)
      BY <2>1, FS_EmptySet DEF Small
    <3> QED BY <2>1, <3>1 DEF SumsUpTo
  <2>2. CASE s # {}
    <3> DEFINE rest == s \ {Pick(s)}
    <3>1. rest \in Small(S, n) /\ rest \in Small(S, n + 1)
      <4>1. s \in SUBSET S /\ Cardinality(s) <= n + 1
        BY DEF Small
      <4>2. rest \in SUBSET S /\ Cardinality(rest) = Cardinality(s) - 1 /\ Cardinality(s) \in Nat
        BY <2>2, <4>1, WithoutOne
      <4> QED BY <4>1, <4>2 DEF Small
    <3>2. sum[rest] = before[rest]
      BY <3>1
    <3>3. CASE s \in Small(S, n)
      <4>1. before[s] = g[Pick(s)] + before[rest]
        BY <2>2, <3>3 DEF SumsUpTo
      <4> QED BY <2>2, <3>2, <3>3, <4>1
    <3>4. CASE s \notin Small(S, n)
      BY <2>2, <3>2, <3>4
    <3> QED BY <3>3, <3>4
  <2> QED BY <2>1, <2>2
<1>2. sum = [s \in Small(S, n + 1) |-> sum[s]]
  OBVIOUS
<1> HIDE DEF sum
<1>3. SumsUpTo(sum, g, S, n + 1)
  BY <1>1, <1>2 DEF SumsUpTo
<1> QED BY <1>3

LEMMA SumsExist ==
    ASSUME NEW g, NEW S, IsFiniteSet(S)
    PROVE  SumsUp(Sums(g, S), g, S)
<1> DEFINE good == {n \in Nat : \E sum : SumsUpTo(sum, g, S, n)}
<1>1. 0 \in good
  <2>1. ASSUME NEW s \in Small(S, 0) PROVE s = {}
    BY SizeIsNat DEF Small
  <2>2. SumsUpTo([s \in Small(S, 0) |-> 0], g, S, 0)
    BY <2>1 DEF SumsUpTo
  <2> QED BY <2>2
<1>2. \A n \in good : n + 1 \in good
  BY SumsGoOn
<1>3. good = Nat
  <2>1. good \in SUBSET Nat
    OBVIOUS
  <2> HIDE DEF good
  <2> QED BY <1>1, <1>2, <2>1, NumbersByOne
<1>4. PICK n \in Nat : n = Cardinality(S)
  BY FS_CardinalityType
<1>5. PICK sum : SumsUpTo(sum, g, S, n)
  BY <1>3
<1>6. Small(S, n) = SUBSET S
  BY <1>4, FS_Subset DEF Small
<1>7. SumsUp(sum, g, S)
  BY <1>5, <1>6 DEF SumsUpTo, SumsUp, Pick
<1> QED BY <1>7 DEF Sums

LEMMA SumOfSome ==
    ASSUME NEW g, NEW S, IsFiniteSet(S)
    PROVE  /\ Sums(g, S)[{}] = 0
           /\ \A s \in SUBSET S : s # {} =>
                Sums(g, S)[s] = g[Pick(s)] + Sums(g, S)[s \ {Pick(s)}]
<1>1. SumsUp(Sums(g, S), g, S)
  BY SumsExist
<1> DEFINE sum == Sums(g, S)
<1> HIDE DEF sum
<1>2. \A s \in SUBSET S : sum[s] = IF s = {} THEN 0 ELSE g[Pick(s)] + sum[s \ {Pick(s)}]
  BY <1>1 DEF SumsUp, Pick, sum
<1>3. sum[{}] = 0
  BY <1>2
<1> QED BY <1>2, <1>3 DEF sum

\* A sum of natural numbers is one, and none of them is greater.
LEMMA SumIsNat ==
    ASSUME NEW S, IsFiniteSet(S), NEW g, \A x \in S : g[x] \in Nat
    PROVE  Sums(g, S)[S] \in Nat /\ \A x \in S : g[x] <= Sums(g, S)[S]
<1> DEFINE sum == Sums(g, S)
           good == {s \in SUBSET S : sum[s] \in Nat /\ \A x \in s : g[x] <= sum[s]}
<1>1. /\ sum[{}] = 0
      /\ \A s \in SUBSET S : s # {} => sum[s] = g[Pick(s)] + sum[s \ {Pick(s)}]
  BY SumOfSome
<1> HIDE DEF sum
<1>2. {} \in good
  BY <1>1
<1>3. ASSUME NEW s \in SUBSET S, s # {}, s \ {Pick(s)} \in good PROVE s \in good
  <2> DEFINE rest == s \ {Pick(s)}
  <2>1. Pick(s) \in s /\ sum[s] = g[Pick(s)] + sum[rest]
    BY <1>1, <1>3 DEF Pick
  <2>2. g[Pick(s)] \in Nat /\ sum[rest] \in Nat /\ \A x \in rest : g[x] <= sum[rest]
    BY <1>3, <2>1
  <2>3. ASSUME NEW x \in s PROVE g[x] <= sum[s]
    <3>1. CASE x = Pick(s)
      BY <2>1, <2>2, <3>1
    <3>2. CASE x \in rest
      <4>1. g[x] \in Nat /\ g[x] <= sum[rest]
        BY <2>2, <3>2
      <4> QED BY <2>1, <2>2, <4>1
    <3> QED BY <3>1, <3>2
  <2> QED BY <2>1, <2>2, <2>3
<1>4. good = SUBSET S
  <2>1. good \in SUBSET SUBSET S
    OBVIOUS
  <2> HIDE DEF good
  <2> QED BY <1>2, <1>3, <2>1, SubsetsByOne
<1>5. S \in good
  BY <1>4
<1> QED BY <1>5 DEF sum

\* A sum is at most c times another one if each of its parts is.
LEMMA SumsCompare ==
    ASSUME NEW S, IsFiniteSet(S), NEW c \in Nat, NEW g, NEW w,
           \A x \in S : g[x] \in Nat /\ w[x] \in Nat /\ g[x] <= c * w[x]
    PROVE  Sums(g, S)[S] <= c * Sums(w, S)[S]
<1> DEFINE gs == Sums(g, S)
           ws == Sums(w, S)
           good == {s \in SUBSET S : gs[s] \in Nat /\ ws[s] \in Nat /\ gs[s] <= c * ws[s]}
<1>1. /\ gs[{}] = 0 /\ ws[{}] = 0
      /\ \A s \in SUBSET S : s # {} => /\ gs[s] = g[Pick(s)] + gs[s \ {Pick(s)}]
                                       /\ ws[s] = w[Pick(s)] + ws[s \ {Pick(s)}]
  BY SumOfSome
<1> HIDE DEF gs, ws
<1>2. {} \in good
  BY <1>1
<1>3. ASSUME NEW s \in SUBSET S, s # {}, s \ {Pick(s)} \in good PROVE s \in good
  <2> DEFINE rest == s \ {Pick(s)}
  <2>1. PICK g1, g2, w1, w2 : g1 = g[Pick(s)] /\ g2 = gs[rest] /\ w1 = w[Pick(s)] /\ w2 = ws[rest]
    OBVIOUS
  <2>2. Pick(s) \in S /\ gs[s] = g1 + g2 /\ ws[s] = w1 + w2
    BY <1>1, <1>3, <2>1 DEF Pick
  <2>3. g1 \in Nat /\ w1 \in Nat /\ g1 <= c * w1
    BY <2>1, <2>2
  <2>4. g2 \in Nat /\ w2 \in Nat /\ g2 <= c * w2
    BY <1>3, <2>1
  <2>5. c * (w1 + w2) = c * w1 + c * w2 /\ c * w1 \in Nat /\ c * w2 \in Nat
    BY ONLY c \in Nat, <2>3, <2>4
  <2>6. g1 + g2 <= c * (w1 + w2)
    BY ONLY <2>3, <2>4, <2>5
  <2> QED BY <2>2, <2>3, <2>4, <2>6
<1>4. good = SUBSET S
  <2>1. good \in SUBSET SUBSET S
    OBVIOUS
  <2> HIDE DEF good
  <2> QED BY <1>2, <1>3, <2>1, SubsetsByOne
<1>5. S \in good
  BY <1>4
<1> QED BY <1>5 DEF gs, ws

\* The sum of ones is the number of elements.
LEMMA SumOfOnes ==
    ASSUME NEW S, IsFiniteSet(S), NEW w, \A x \in S : w[x] = 1
    PROVE  Sums(w, S)[S] = Cardinality(S)
<1> DEFINE ws == Sums(w, S)
           good == {s \in SUBSET S : ws[s] = Cardinality(s)}
<1>1. /\ ws[{}] = 0
      /\ \A s \in SUBSET S : s # {} => ws[s] = w[Pick(s)] + ws[s \ {Pick(s)}]
  BY SumOfSome
<1> HIDE DEF ws
<1>2. {} \in good
  BY <1>1, FS_EmptySet
<1>3. ASSUME NEW s \in SUBSET S, s # {}, s \ {Pick(s)} \in good PROVE s \in good
  <2> DEFINE rest == s \ {Pick(s)}
  <2>1. /\ Pick(s) \in s /\ Cardinality(s) \in Nat
        /\ Cardinality(rest) = Cardinality(s) - 1
    BY <1>3, WithoutOne
  <2>2. ws[s] = 1 + ws[rest]
    BY <1>1, <1>3, <2>1
  <2>3. ws[rest] = Cardinality(s) - 1
    BY <1>3, <2>1
  <2> QED BY <2>1, <2>2, <2>3
<1>4. good = SUBSET S
  <2>1. good \in SUBSET SUBSET S
    OBVIOUS
  <2> HIDE DEF good
  <2> QED BY <1>2, <1>3, <2>1, SubsetsByOne
<1>5. S \in good
  BY <1>4
<1> QED BY <1>5 DEF ws

-----------------------------------------------------------------------------
(* Quotients.                                                              *)

\* Of a number that is not more than c times the divisor.
LEMMA QuotientIsBounded ==
    ASSUME NEW n \in Nat, NEW d \in Nat \ {0}, NEW c \in Nat, n < (c + 1) * d
    PROVE  n \div d \in 0 .. c
<1>1. PICK q \in Int : q = n \div d /\ q * d <= n /\ n < (q + 1) * d
  OBVIOUS
<1>2. q <= c
  <2>1. SUFFICES ASSUME c + 1 <= q PROVE FALSE
    OBVIOUS
  <2>2. (c + 1) * d <= q * d
    BY <2>1
  <2> QED BY <1>1, <2>2
<1>3. 0 <= q
  <2>1. SUFFICES ASSUME q + 1 <= 0 PROVE FALSE
    OBVIOUS
  <2>2. (q + 1) * d <= 0 * d
    BY <2>1
  <2> QED BY <1>1, <2>2
<1> QED BY <1>1, <1>2, <1>3
================================================================================
