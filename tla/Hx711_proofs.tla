---------------------------- MODULE Hx711_proofs ----------------------------
(***************************************************************************)
(* Theorems about the driver of a weight cell: what median and trimmed     *)
(* mean let through, for any values and any number of reads, and that no   *)
(* more than one value of a call is of another gain.                       *)
(***************************************************************************)
EXTENDS Hx711, TLAPS, WellFoundedInduction, FiniteSetTheorems

(* Least numbers, and induction through them.                              *)

LEMMA LeastNat ==
    ASSUME NEW T \in SUBSET Nat, T # {}
    PROVE  \E x \in T : \A y \in T : x <= y
<1>1. IsWellFoundedOn(OpToRel(<, Nat), Nat)
  BY NatLessThanWellFounded
<1>2. PICK x \in T : \A y \in T : ~(<<y, x>> \in OpToRel(<, Nat))
  BY <1>1, WFMin
<1>3. \A y \in T : ~(y < x)
  BY <1>2 DEF OpToRel
<1>4. x \in Nat /\ \A y \in T : y \in Nat
  BY <1>2
<1>5. \A y \in T : x <= y
  BY <1>3, <1>4
<1> QED BY <1>2, <1>5

LEMMA NatInd ==
    ASSUME NEW T \in SUBSET Nat, 0 \in T, \A n \in T : n + 1 \in T
    PROVE  T = Nat
<1> SUFFICES ASSUME T # Nat PROVE FALSE
  OBVIOUS
<1>1. PICK x \in Nat \ T : \A y \in Nat \ T : x <= y
  <2>1. Nat \ T \in SUBSET Nat /\ Nat \ T # {}
    OBVIOUS
  <2> QED BY <2>1, LeastNat, Zenon
<1>2. x # 0 /\ x - 1 \in T
  BY <1>1
<1> QED BY <1>2, <1>1

-----------------------------------------------------------------------------
(* Sorted values.                                                          *)

\* n values within bounds.
IsValues(v, n, b) ==
    /\ n \in Nat /\ b \in Nat /\ DOMAIN v = 1..n
    /\ \A i \in 1..n : v[i] \in Int /\ -b <= v[i] /\ v[i] <= b

\* The position of the greatest of some of the values.
LEMMA Greatest ==
    ASSUME NEW n, NEW b, NEW v, IsValues(v, n, b), NEW S \in SUBSET (1..n), S # {}
    PROVE  \E i \in S : \A j \in S : v[j] <= v[i]
<1> DEFINE T == {b - v[i] : i \in S}
<1>1. T \in SUBSET Nat /\ T # {}
  <2>1. \A i \in S : b - v[i] \in Nat
    BY DEF IsValues
  <2> QED BY <2>1
<1>2. PICK y \in T : \A z \in T : y <= z
  <2> HIDE DEF T
  <2> QED BY <1>1, LeastNat
<1>3. PICK i \in S : y = b - v[i]
  BY <1>2
<1>4. \A j \in S : v[j] <= v[i]
  <2> SUFFICES ASSUME NEW j \in S PROVE v[j] <= v[i]
    BY DEF IsValues
  <2>1. b - v[j] \in T
    OBVIOUS
  <2>2. y <= b - v[j]
    <3> HIDE DEF T
    <3> QED BY <1>2, <2>1
  <2>3. v[i] \in Int /\ v[j] \in Int /\ b \in Int
    BY DEF IsValues
  <2> QED BY <1>3, <2>2, <2>3
<1> QED BY <1>4

LEMMA Counted ==
    ASSUME NEW n \in Nat, NEW S \in SUBSET (1..n)
    PROVE  /\ IsFiniteSet(S) /\ Cardinality(S) \in Nat /\ Cardinality(S) <= n
           /\ \A R \in SUBSET S : Cardinality(R) <= Cardinality(S)
<1>1. IsFiniteSet(1..n) /\ Cardinality(1..n) = n
  BY FS_Interval
<1>2. IsFiniteSet(S) /\ Cardinality(S) <= n
  BY <1>1, FS_Subset
<1>3. Cardinality(S) \in Nat
  BY <1>2, FS_CardinalityType
<1>4. \A R \in SUBSET S : Cardinality(R) <= Cardinality(S)
  BY <1>2, FS_Subset
<1> QED BY <1>2, <1>3, <1>4

\* Two sets of positions that have none in common.
LEMMA CountedApart ==
    ASSUME NEW n \in Nat, NEW S \in SUBSET (1..n), NEW R \in SUBSET (1..n), S \cap R = {}
    PROVE  Cardinality(S) + Cardinality(R) <= n
<1>1. IsFiniteSet(S) /\ IsFiniteSet(R) /\ Cardinality(S) \in Nat /\ Cardinality(R) \in Nat
  BY Counted
<1>2. Cardinality(S \cup R) = Cardinality(S) + Cardinality(R) - Cardinality(S \cap R)
  BY <1>1, FS_Union
<1>3. Cardinality(S \cup R) <= n
  <2>1. S \cup R \in SUBSET (1..n)
    OBVIOUS
  <2> QED BY <2>1, Counted
<1>4. Cardinality(S \cap R) = 0
  BY FS_EmptySet
<1> QED BY <1>1, <1>2, <1>3, <1>4

LEMMA KthExists ==
    ASSUME NEW n, NEW b, NEW v, IsValues(v, n, b), NEW k \in 1..n
    PROVE  \E x \in Range(v) : Cardinality(Below(v, x)) < k /\ k <= Cardinality(UpTo(v, x))
<1> USE DEF IsValues
<1> DEFINE S == {i \in 1..n : k <= Cardinality(UpTo(v, v[i]))}
           w == [i \in 1..n |-> -v[i]]
<1>1. S # {}
  <2>1. PICK i \in 1..n : \A j \in 1..n : v[j] <= v[i]
    <3>1. 1..n \in SUBSET (1..n) /\ 1..n # {}
      OBVIOUS
    <3> HIDE DEF IsValues, S, w
    <3> QED BY <3>1, Greatest
  <2>2. UpTo(v, v[i]) = 1..n
    BY <2>1 DEF UpTo
  <2>3. Cardinality(1..n) = n
    BY FS_Interval
  <2> QED BY <2>1, <2>2, <2>3
<1>2. PICK i \in S : \A j \in S : w[j] <= w[i]
  <2>1. IsValues(w, n, b) /\ S \in SUBSET (1..n)
    OBVIOUS
  <2> HIDE DEF S, w, IsValues
  <2> QED BY <1>1, <2>1, Greatest
<1>3. i \in 1..n /\ k <= Cardinality(UpTo(v, v[i])) /\ \A j \in S : v[i] <= v[j]
  BY <1>2
<1>4. Cardinality(Below(v, v[i])) < k
  <2> SUFFICES ASSUME k <= Cardinality(Below(v, v[i])) PROVE FALSE
    <3>1. Cardinality(Below(v, v[i])) \in Nat
      <4>1. Below(v, v[i]) \in SUBSET (1..n)
        BY DEF Below
      <4> QED BY <4>1, Counted
    <3> QED BY <3>1
  <2>1. Below(v, v[i]) # {} /\ Below(v, v[i]) \in SUBSET (1..n)
    <3>1. Cardinality({}) = 0
      BY FS_EmptySet
    <3>2. Below(v, v[i]) # {}
      <4>1. ~(k <= 0)
        OBVIOUS
      <4> HIDE DEF S, w
      <4> QED BY <3>1, <4>1
    <3> QED BY <3>2 DEF Below
  <2>2. PICK m \in Below(v, v[i]) : \A j \in Below(v, v[i]) : v[j] <= v[m]
    <3> HIDE DEF IsValues, S, w
    <3> QED BY <2>1, Greatest
  <2>3. m \in 1..n /\ v[m] < v[i]
    BY <2>2 DEF Below
  <2>4. Below(v, v[i]) = UpTo(v, v[m])
    BY <1>3, <2>2, <2>3 DEF Below, UpTo
  <2>5. m \in S
    BY <2>3, <2>4
  <2> QED BY <1>3, <2>3, <2>5
<1>5. v[i] \in Range(v)
  BY <1>3 DEF Range
<1> QED BY <1>3, <1>4, <1>5

\* What is at a place of the sorted values.
LEMMA KthFacts ==
    ASSUME NEW n, NEW b, NEW v, IsValues(v, n, b), NEW k \in 1..n
    PROVE  /\ Kth(v, k) \in Int /\ \E i \in 1..n : Kth(v, k) = v[i]
           /\ Cardinality(Below(v, Kth(v, k))) < k
           /\ k <= Cardinality(UpTo(v, Kth(v, k)))
           /\ Below(v, Kth(v, k)) \in SUBSET (1..n) /\ UpTo(v, Kth(v, k)) \in SUBSET (1..n)
<1>1. /\ Kth(v, k) \in Range(v) /\ Cardinality(Below(v, Kth(v, k))) < k
      /\ k <= Cardinality(UpTo(v, Kth(v, k)))
  BY KthExists DEF Kth
<1>2. PICK i \in 1..n : Kth(v, k) = v[i]
  BY <1>1 DEF Range, IsValues
<1> QED BY <1>1, <1>2 DEF IsValues, Below, UpTo

LEMMA SortedRises ==
    ASSUME NEW n, NEW b, NEW v, IsValues(v, n, b), NEW k \in 1..n, NEW l \in 1..n, k <= l
    PROVE  Kth(v, k) <= Kth(v, l)
<1> SUFFICES ASSUME Kth(v, l) < Kth(v, k) PROVE FALSE
  BY KthFacts
<1>1. /\ Kth(v, k) \in Int /\ Kth(v, l) \in Int /\ n \in Nat
      /\ Cardinality(Below(v, Kth(v, k))) < k /\ Below(v, Kth(v, k)) \in SUBSET (1..n)
      /\ l <= Cardinality(UpTo(v, Kth(v, l)))
  BY KthFacts DEF IsValues
<1>2. UpTo(v, Kth(v, l)) \in SUBSET Below(v, Kth(v, k))
  BY <1>1 DEF UpTo, Below, IsValues
<1>3. /\ Cardinality(Below(v, Kth(v, k))) \in Nat
      /\ Cardinality(UpTo(v, Kth(v, l))) <= Cardinality(Below(v, Kth(v, k)))
  BY <1>1, <1>2, Counted
<1>4. Cardinality(UpTo(v, Kth(v, l))) \in Nat
  <2>1. UpTo(v, Kth(v, l)) \in SUBSET (1..n)
    BY <1>1, <1>2
  <2> QED BY <1>1, <2>1, Counted
<1> QED BY <1>1, <1>3, <1>4

\* Outliers: a place of the sorted values is not below all the values of good
\* if fewer than k are missing there, nor above all of them if it has k.
LEMMA GoodBelow ==
    ASSUME NEW n, NEW b, NEW v, IsValues(v, n, b), NEW k \in 1..n,
           NEW good \in SUBSET (1..n), n - Cardinality(good) < k
    PROVE  \E i \in good : v[i] <= Kth(v, k)
<1> SUFFICES ASSUME \A i \in good : ~(v[i] <= Kth(v, k)) PROVE FALSE
  OBVIOUS
<1>1. n \in Nat /\ k <= Cardinality(UpTo(v, Kth(v, k))) /\ UpTo(v, Kth(v, k)) \in SUBSET (1..n)
  BY KthFacts DEF IsValues
<1>2. good \cap UpTo(v, Kth(v, k)) = {}
  BY DEF UpTo
<1>3. Cardinality(good) + Cardinality(UpTo(v, Kth(v, k))) <= n
  BY <1>1, <1>2, CountedApart
<1>4. Cardinality(good) \in Nat /\ Cardinality(UpTo(v, Kth(v, k))) \in Nat
  BY <1>1, Counted
<1> QED BY <1>1, <1>3, <1>4

LEMMA GoodAbove ==
    ASSUME NEW n, NEW b, NEW v, IsValues(v, n, b), NEW k \in 1..n,
           NEW good \in SUBSET (1..n), k <= Cardinality(good)
    PROVE  \E i \in good : Kth(v, k) <= v[i]
<1> SUFFICES ASSUME \A i \in good : ~(Kth(v, k) <= v[i]) PROVE FALSE
  OBVIOUS
<1>1. /\ n \in Nat /\ Cardinality(Below(v, Kth(v, k))) < k
      /\ Below(v, Kth(v, k)) \in SUBSET (1..n) /\ Kth(v, k) \in Int
  BY KthFacts DEF IsValues
<1>2. good \in SUBSET Below(v, Kth(v, k))
  BY <1>1 DEF Below, IsValues
<1>3. Cardinality(good) <= Cardinality(Below(v, Kth(v, k)))
  BY <1>1, <1>2, Counted
<1>4. Cardinality(good) \in Nat /\ Cardinality(Below(v, Kth(v, k))) \in Nat
  BY <1>1, Counted
<1> QED BY <1>1, <1>3, <1>4

-----------------------------------------------------------------------------
(* The median.                                                             *)

\* The values of a call, and the values of those of its reads that are good.
Reading == [value : {x \in Int : -RawSpan <= x /\ 2 * x < RawSpan}, gain : {32, 64, 128, None}]

LEMMA ReadingsAreValues ==
    ASSUME NEW got \in Seq(Reading)
    PROVE  /\ IsValues(Values(got), Len(got), RawSpan)
           /\ \A i \in DOMAIN got : 2 * Values(got)[i] < RawSpan
           /\ DOMAIN got = 1..Len(got) /\ Len(got) \in Nat
<1>1. RawSpan \in Nat
  BY HxAssumption
<1>2. \A i \in 1..Len(got) : got[i] \in Reading
  OBVIOUS
<1>3. \A i \in 1..Len(got) : got[i].value \in Int /\ -RawSpan <= got[i].value /\ 2 * got[i].value < RawSpan
  BY <1>2 DEF Reading
<1>4. \A x \in Int : 2 * x < RawSpan => x <= RawSpan
  BY <1>1
<1> QED BY <1>1, <1>3, <1>4 DEF IsValues, Values

\* A value between two good ones.
LEMMA Within ==
    ASSUME NEW c, NEW x \in Int, NEW scale \in Nat, NEW low \in Good(c), NEW high \in Good(c),
           scale * c.got[low].value <= x, x <= scale * c.got[high].value
    PROVE  IsWithin(c, x, scale)
  BY DEF IsWithin, Between

LEMMA Halves ==
    \A n \in Nat : /\ n \div 2 \in Nat /\ (n = 2 * (n \div 2) \/ n = 2 * (n \div 2) + 1)
                   /\ (n % 2 = 1 <=> n = 2 * (n \div 2) + 1)
  OBVIOUS

LEMMA MedianIsWithin ==
    ASSUME NEW c, c.got \in Seq(Reading), 2 * Cardinality(Good(c)) > Len(c.got)
    PROVE  IsWithin(c, Median(c.got), 2)
<1> DEFINE n == Len(c.got)
           v == Values(c.got)
           g == Good(c)
           mid == n \div 2
<1>1. IsValues(v, n, RawSpan) /\ n \in Nat /\ DOMAIN c.got = 1..n
  BY ReadingsAreValues
<1>2. g \in SUBSET (1..n)
  BY <1>1 DEF Good
<1>3. Cardinality(g) \in Nat /\ Cardinality(g) <= n /\ 2 * Cardinality(g) > n
  BY <1>1, <1>2, Counted
<1>4. \A i \in 1..n : v[i] = c.got[i].value /\ v[i] \in Int
  BY <1>1 DEF Values, IsValues
<1>5. \A k \in 1..n : Sorted(c.got)[k] = Kth(v, k)
  BY <1>1 DEF Sorted
<1>6. mid \in Nat /\ n > 0 /\ (n = 2 * mid \/ n = 2 * mid + 1) /\ (n % 2 = 1 <=> n = 2 * mid + 1)
  <2>1. n \in Nat /\ n > 0
    BY <1>1, <1>3
  <2> HIDE DEF n
  <2> QED BY <2>1, Halves
<1> HIDE DEF n, v, g, mid
<1>7. ASSUME NEW k \in 1..n, NEW l \in 1..n, k <= l, n - Cardinality(g) < k, l <= Cardinality(g)
      PROVE  IsWithin(c, Kth(v, k) + Kth(v, l), 2)
  <2>1. PICK i \in g : v[i] <= Kth(v, k)
    BY <1>1, <1>2, <1>7, GoodBelow
  <2>2. PICK j \in g : Kth(v, l) <= v[j]
    BY <1>1, <1>2, <1>7, GoodAbove
  <2>3. Kth(v, k) \in Int /\ Kth(v, l) \in Int /\ Kth(v, k) <= Kth(v, l)
    BY <1>1, <1>7, KthFacts, SortedRises
  <2>4. /\ 2 * c.got[i].value <= Kth(v, k) + Kth(v, l)
        /\ Kth(v, k) + Kth(v, l) <= 2 * c.got[j].value
    <3>1. /\ v[i] = c.got[i].value /\ v[i] \in Int
          /\ v[j] = c.got[j].value /\ v[j] \in Int
      BY <1>2, <1>4
    <3>2. PICK x \in Int, y \in Int, p \in Int, q \in Int :
              x = v[i] /\ y = v[j] /\ p = Kth(v, k) /\ q = Kth(v, l)
      BY <2>3, <3>1
    <3>3. x <= p /\ p <= q /\ q <= y
      BY <2>1, <2>2, <2>3, <3>2
    <3>4. 2 * x <= p + q /\ p + q <= 2 * y
      BY <3>3
    <3> QED BY <3>1, <3>2, <3>4
  <2>5. Kth(v, k) + Kth(v, l) \in Int
    BY <2>3
  <2>6. i \in Good(c) /\ j \in Good(c) /\ 2 \in Nat
    BY <2>1, <2>2 DEF g
  <2> QED BY <2>4, <2>5, <2>6, Within
<1>8. CASE n = 2 * mid + 1
  <2>1. mid + 1 \in 1..n /\ n - Cardinality(g) < mid + 1 /\ mid + 1 <= Cardinality(g)
    BY <1>3, <1>6, <1>8
  <2>2. IsWithin(c, Kth(v, mid + 1) + Kth(v, mid + 1), 2)
    BY <1>7, <2>1
  <2>3. Median(c.got) = 2 * Kth(v, mid + 1) /\ Kth(v, mid + 1) \in Int
    <3>1. Kth(v, mid + 1) \in Int
      BY <1>1, <2>1, KthFacts
    <3> QED BY <1>5, <1>6, <1>8, <2>1, <3>1 DEF Median, n, mid
  <2>4. 2 * Kth(v, mid + 1) = Kth(v, mid + 1) + Kth(v, mid + 1)
    BY <2>3
  <2> QED BY <2>2, <2>3, <2>4
<1>9. CASE n = 2 * mid
  <2>1. /\ mid \in 1..n /\ mid + 1 \in 1..n /\ mid <= mid + 1
        /\ n - Cardinality(g) < mid /\ mid + 1 <= Cardinality(g)
    BY <1>3, <1>6, <1>9
  <2>2. IsWithin(c, Kth(v, mid) + Kth(v, mid + 1), 2)
    BY <1>7, <2>1
  <2>3. n % 2 # 1
    BY <1>6, <1>9
  <2>4. Median(c.got) = Kth(v, mid) + Kth(v, mid + 1)
    BY <1>5, <2>1, <2>3 DEF Median, n, mid
  <2> QED BY <2>2, <2>4
<1> QED BY <1>6, <1>8, <1>9

-----------------------------------------------------------------------------
(* The sum of values, one after the other.                                 *)

IsSumming(f, s, n) == f = [k \in 0..n |-> IF k = 0 THEN 0 ELSE f[k - 1] + s[k]]

LEMMA SummingExists ==
    ASSUME NEW s, Len(s) \in Nat
    PROVE  \E f : IsSumming(f, s, Len(s))
<1> DEFINE T == {n \in Nat : \E f : IsSumming(f, s, n)}
<1>1. 0 \in T
  <2> DEFINE f == [k \in 0..0 |-> 0]
  <2>1. IsSumming(f, s, 0)
    BY DEF IsSumming
  <2> QED BY <2>1
<1>2. \A n \in T : n + 1 \in T
  <2> SUFFICES ASSUME NEW n \in T PROVE n + 1 \in T
    OBVIOUS
  <2>1. PICK f : IsSumming(f, s, n)
    OBVIOUS
  <2> DEFINE g == [k \in 0..n + 1 |-> IF k <= n THEN f[k] ELSE f[n] + s[n + 1]]
  <2>2. n \in Nat
    OBVIOUS
  <2>3. ASSUME NEW k \in 0..n + 1
        PROVE  g[k] = IF k = 0 THEN 0 ELSE g[k - 1] + s[k]
    <3>1. CASE k = 0
      BY <2>1, <2>2, <3>1 DEF IsSumming
    <3>2. CASE k # 0 /\ k <= n
      <4>1. g[k] = f[k] /\ g[k - 1] = f[k - 1]
        BY <2>2, <3>2
      <4>2. f[k] = f[k - 1] + s[k]
        BY <2>1, <2>2, <3>2 DEF IsSumming
      <4> QED BY <3>2, <4>1, <4>2
    <3>3. CASE k = n + 1
      <4>1. g[k] = f[n] + s[n + 1] /\ g[n] = f[n] /\ k - 1 = n /\ k # 0
        BY <2>2, <3>3
      <4> QED BY <3>3, <4>1
    <3> QED BY <2>2, <3>1, <3>2, <3>3
  <2> HIDE DEF g
  <2>4. g = [k \in 0..n + 1 |-> g[k]]
    BY DEF g
  <2>5. IsSumming(g, s, n + 1)
    BY <2>3, <2>4 DEF IsSumming
  <2> QED BY <2>2, <2>5
<1>3. T = Nat
  <2> HIDE DEF T
  <2>1. T \in SUBSET Nat
    BY DEF T
  <2> QED BY <1>1, <1>2, <2>1, NatInd
<1>4. Len(s) \in T
  BY <1>3
<1> QED BY <1>4

LEMMA SumSteps ==
    ASSUME NEW s, Len(s) \in Nat
    PROVE  \E f : /\ SumOf(s) = f[Len(s)] /\ f[0] = 0
                  /\ \A k \in 1..Len(s) : f[k] = f[k - 1] + s[k]
<1> DEFINE f == CHOOSE g : IsSumming(g, s, Len(s))
<1>1. IsSumming(f, s, Len(s))
  BY SummingExists
<1>2. SumOf(s) = f[Len(s)]
  BY DEF SumOf, IsSumming
<1> HIDE DEF f
<1>3. f[0] = 0 /\ \A k \in 1..Len(s) : f[k] = f[k - 1] + s[k]
  BY <1>1 DEF IsSumming
<1> QED BY <1>2, <1>3

LEMMA Times1 ==
    \A m \in Nat : \A x \in Int : m * x \in Int /\ (m + 1) * x = m * x + x /\ 0 * x = 0
  OBVIOUS

\* A sum of values between a and b.
LEMMA SumBetween ==
    ASSUME NEW a \in Int, NEW b \in Int, NEW s, Len(s) \in Nat,
           \A i \in 1..Len(s) : s[i] \in Int /\ a <= s[i] /\ s[i] <= b
    PROVE  SumOf(s) \in Int /\ Len(s) * a <= SumOf(s) /\ SumOf(s) <= Len(s) * b
<1>1. PICK f : /\ SumOf(s) = f[Len(s)] /\ f[0] = 0
               /\ \A k \in 1..Len(s) : f[k] = f[k - 1] + s[k]
  BY SumSteps
<1> DEFINE T == {k \in Nat : k <= Len(s) => f[k] \in Int /\ k * a <= f[k] /\ f[k] <= k * b}
<1>2. 0 \in T
  BY <1>1, Times1
<1>3. \A n \in T : n + 1 \in T
  <2> SUFFICES ASSUME NEW n \in T, n + 1 <= Len(s)
               PROVE  f[n + 1] \in Int /\ (n + 1) * a <= f[n + 1] /\ f[n + 1] <= (n + 1) * b
    OBVIOUS
  <2>1. n \in Nat /\ n <= Len(s) /\ n + 1 \in 1..Len(s) /\ (n + 1) - 1 = n
    OBVIOUS
  <2>2. f[n] \in Int /\ n * a <= f[n] /\ f[n] <= n * b
    BY <2>1
  <2>3. f[n + 1] = f[n] + s[n + 1] /\ s[n + 1] \in Int /\ a <= s[n + 1] /\ s[n + 1] <= b
    BY <1>1, <2>1
  <2>4. PICK x \in Int, y \in Int : x = n * a /\ y = n * b
    BY <2>1, Times1
  <2>5. (n + 1) * a = x + a /\ (n + 1) * b = y + b
    BY <2>1, <2>4, Times1
  <2>6. x <= f[n] /\ f[n] <= y
    BY <2>2, <2>4
  <2> HIDE DEF T
  <2>7. f[n + 1] \in Int /\ x + a <= f[n + 1] /\ f[n + 1] <= y + b
    BY <2>2, <2>3, <2>4, <2>6
  <2> QED BY <2>5, <2>7
<1>4. T = Nat
  <2> HIDE DEF T
  <2>1. T \in SUBSET Nat
    BY DEF T
  <2> QED BY <1>2, <1>3, <2>1, NatInd
<1>5. Len(s) \in T
  BY <1>4
<1> QED BY <1>1, <1>5

-----------------------------------------------------------------------------
(* The trimmed mean.                                                       *)

LEMMA TimesRises ==
    ASSUME NEW m \in Nat, NEW x \in Int, NEW y \in Int, x <= y
    PROVE  m * x \in Int /\ m * y \in Int /\ m * x <= m * y
<1> DEFINE T == {k \in Nat : k * x <= k * y}
<1>1. 0 \in T
  OBVIOUS
<1>2. \A k \in T : k + 1 \in T
  <2> SUFFICES ASSUME NEW k \in T PROVE k + 1 \in T
    OBVIOUS
  <2>1. PICK p \in Int, q \in Int : p = k * x /\ q = k * y
    BY Times1
  <2>2. k \in Nat /\ p <= q
    BY <2>1
  <2>3. (k + 1) * x = p + x /\ (k + 1) * y = q + y
    BY <2>1, <2>2, Times1
  <2>4. p + x <= q + y
    BY <2>1, <2>2
  <2> QED BY <2>2, <2>3, <2>4
<1>3. T = Nat
  <2> HIDE DEF T
  <2>1. T \in SUBSET Nat
    BY DEF T
  <2> QED BY <1>1, <1>2, <2>1, NatInd
<1>4. m \in T
  BY <1>3
<1> QED BY <1>4, Times1

LEMMA DivMod ==
    \A m \in Nat \ {0} : \A x \in Int :
        x \div m \in Int /\ x % m \in 0..m - 1 /\ x = m * (x \div m) + (x % m)
  OBVIOUS

\* A quotient lies where what is divided lies.
LEMMA DivBetween ==
    ASSUME NEW m \in Nat \ {0}, NEW x \in Int, NEW a \in Int, NEW b \in Int, m * a <= x, x <= m * b
    PROVE  x \div m \in Int /\ a <= x \div m /\ x \div m <= b
<1>1. PICK q \in Int, r \in 0..m - 1 : q = x \div m /\ x = m * q + r
  BY DivMod
<1>2. PICK p \in Int : p = m * q /\ m * (q + 1) = p + m
  <2>1. m * q \in Int /\ m * (q + 1) = m * q + m
    OBVIOUS
  <2> QED BY <2>1
<1>3. x = p + r
  BY <1>1, <1>2
<1>4. a <= q
  <2> SUFFICES ASSUME q + 1 <= a PROVE FALSE
    BY <1>1
  <2>1. m * (q + 1) <= m * a
    BY <1>1, TimesRises
  <2>2. PICK z \in Int : z = m * a
    BY Times1
  <2>3. p + m <= z /\ z <= x
    BY <1>2, <2>1, <2>2
  <2> QED BY <1>1, <1>2, <1>3, <2>2, <2>3
<1>5. q <= b
  <2> SUFFICES ASSUME b + 1 <= q PROVE FALSE
    BY <1>1
  <2>1. m * (b + 1) <= m * q
    BY <1>1, TimesRises
  <2>2. PICK z \in Int : z = m * b /\ m * (b + 1) = z + m
    <3>1. m * b \in Int /\ m * (b + 1) = m * b + m
      OBVIOUS
    <3> QED BY <3>1
  <2>3. z + m <= p /\ x <= z
    BY <1>2, <2>1, <2>2
  <2> QED BY <1>1, <1>2, <1>3, <2>2, <2>3
<1> QED BY <1>1, <1>4, <1>5

\* Of n sorted values t are left out on either side, and m are left.
IsTrim(n, t, m) == n \in Nat /\ n >= 5 /\ t = Trim(n) /\ m = n - 2 * t

LEMMA TrimFacts ==
    ASSUME NEW n, NEW t, NEW m, IsTrim(n, t, m)
    PROVE  /\ t \in Nat /\ m \in Nat /\ m > 0 /\ m <= n /\ t + 1 \in 1..n /\ n - t \in 1..n
           /\ t + 1 <= n - t /\ m = (n - t) - (t + 1) + 1
           /\ \A i \in 1..m : t + i \in 1..n /\ (t + 1) + i - 1 = t + i
<1> USE DEF IsTrim
<1>1. t \in Nat /\ 5 * t <= n
  BY DEF Trim
<1>2. m \in Nat /\ m > 0 /\ m <= n
  BY <1>1
<1> QED BY <1>1, <1>2

LEMMA Part ==
    ASSUME NEW s \in Seq(Int), NEW low \in Int, NEW up \in Int, 1 <= low, low <= up, up <= Len(s),
           NEW m, m = up - low + 1
    PROVE  /\ Len(SubSeq(s, low, up)) = m
           /\ \A i \in 1..m : SubSeq(s, low, up)[i] = s[low + i - 1]
<1>1. Len(s) \in Nat
  OBVIOUS
<1>2. SubSeq(s, low, up) = [i \in 1..up - low + 1 |-> s[low + i - 1]]
  OBVIOUS
<1> QED BY <1>1, <1>2

LEMMA Kept ==
    ASSUME NEW got \in Seq(Reading), NEW n, n = Len(got), NEW t, NEW m, IsTrim(n, t, m)
    PROVE  /\ Len(KeptValues(got)) = m
           /\ \A i \in 1..m : t + i \in 1..n /\ KeptValues(got)[i] = Kth(Values(got), t + i)
<1>1. n \in Nat /\ DOMAIN got = 1..n /\ t = Trim(Len(got))
  BY ReadingsAreValues DEF IsTrim
<1>2. /\ t \in Nat /\ m \in Nat /\ t + 1 <= n - t /\ n - t \in 1..n /\ t + 1 \in 1..n
      /\ m = (n - t) - (t + 1) + 1
      /\ \A i \in 1..m : t + i \in 1..n /\ (t + 1) + i - 1 = t + i
  BY TrimFacts
<1>3. /\ Sorted(got) \in Seq(Int) /\ Len(Sorted(got)) = n
      /\ \A k \in 1..n : Sorted(got)[k] = Kth(Values(got), k)
  <2>1. \A k \in 1..n : Kth(Values(got), k) \in Int
    BY ReadingsAreValues, KthFacts
  <2>2. Sorted(got) = [k \in 1..n |-> Kth(Values(got), k)]
    BY <1>1 DEF Sorted
  <2> QED BY <1>1, <2>1, <2>2
<1>4. KeptValues(got) = SubSeq(Sorted(got), t + 1, n - t)
  BY <1>1 DEF KeptValues
<1>5. /\ Len(KeptValues(got)) = m
      /\ \A i \in 1..m : t + i \in 1..n /\ KeptValues(got)[i] = Sorted(got)[t + i]
  <2>2. PICK s, low, up : s = Sorted(got) /\ low = t + 1 /\ up = n - t
    OBVIOUS
  <2>3. low \in Int /\ up \in Int /\ low <= up /\ 1 <= low /\ up <= n /\ m = up - low + 1
    BY <1>1, <1>2, <2>2
  <2>4. s \in Seq(Int) /\ Len(s) = n
    BY <1>3, <2>2
  <2>5. /\ Len(SubSeq(s, low, up)) = m
        /\ \A i \in 1..m : SubSeq(s, low, up)[i] = s[low + i - 1]
    BY <2>3, <2>4, Part
  <2> QED BY <1>2, <1>4, <2>2, <2>5
<1> QED BY <1>3, <1>5

LEMMA ModSmall == \A y \in Nat : \A x \in 0..y - 1 : x % y = x
  OBVIOUS

\* The sum of a tare's values fits a long long, and a reading fits a long.
LEMMA SumFits ==
    ASSUME NEW m \in Nat, m <= TareTimes, NEW x \in Int, x <= m * RawSpan
    PROVE  x < LongSpan
<1>1. RawSpan \in Nat /\ TareTimes \in Nat /\ LongSpan \in Nat
  BY HxAssumption
<1>2. RawSpan * m <= RawSpan * TareTimes
  BY <1>1, TimesRises
<1>3. PICK p \in Int, q \in Int : p = m * RawSpan /\ q = TareTimes * RawSpan
  BY <1>1, Times1
<1>4. p <= q
  BY <1>1, <1>2, <1>3
<1>5. x <= p /\ q < LongSpan
  BY <1>3, HxAssumption
<1> HIDE HxAssumption
<1> QED BY <1>1, <1>4, <1>5

LEMMA RawFits == RawSpan < LongSpan
<1>1. RawSpan \in Int /\ 1 \in Nat /\ 1 <= TareTimes /\ RawSpan <= 1 * RawSpan
  BY HxAssumption
<1> QED BY <1>1, SumFits

\* A tare with few outliers, and values that are not below zero.
FairTare(c) ==
    /\ c.got \in Seq(Reading) /\ Len(c.got) = TareTimes
    /\ Len(c.got) - Cardinality(Good(c)) <= Trim(Len(c.got))
    /\ SumOf(KeptValues(c.got)) >= 0

LEMMA AverageIsWithin ==
    ASSUME NEW c, FairTare(c)
    PROVE  IsWithin(c, Average(c.got), 1)
<1>0. PICK got, n, t, m : got = c.got /\ n = Len(c.got) /\ t = Trim(n) /\ m = n - 2 * t
  OBVIOUS
<1> DEFINE v == Values(got)
           g == Good(c)
           a == Kth(v, t + 1)
           b == Kth(v, n - t)
           s == KeptValues(got)
<1>1. got \in Seq(Reading) /\ n = Len(got) /\ n = TareTimes /\ n - Cardinality(g) <= t /\ SumOf(s) >= 0
  BY <1>0 DEF FairTare
<1>2. /\ IsValues(v, n, RawSpan) /\ n \in Nat /\ DOMAIN got = 1..n
      /\ \A i \in 1..n : 2 * v[i] < RawSpan
  BY <1>1, ReadingsAreValues
<1>3. g \in SUBSET (1..n) /\ \A i \in 1..n : v[i] = c.got[i].value /\ v[i] \in Int
  BY <1>0, <1>2 DEF Good, Values, IsValues
<1>4. IsTrim(n, t, m)
  BY <1>0, <1>1, <1>2, HxAssumption DEF IsTrim
<1> HIDE DEF v, g, s
<1>5. /\ t \in Nat /\ m \in Nat /\ m > 0 /\ m <= n /\ t + 1 \in 1..n /\ n - t \in 1..n
      /\ t + 1 <= n - t /\ m = (n - t) - (t + 1) + 1
      /\ \A i \in 1..m : t + i \in 1..n
  BY <1>4, TrimFacts
<1>6. Cardinality(g) \in Nat /\ n - Cardinality(g) < t + 1 /\ n - t <= Cardinality(g)
  <2>1. Cardinality(g) \in Nat
    BY <1>2, <1>3, Counted
  <2> QED BY <1>1, <1>2, <1>5, <2>1
<1>7. PICK low \in g : v[low] <= a
  BY <1>2, <1>3, <1>5, <1>6, GoodBelow
<1>8. PICK high \in g : b <= v[high]
  BY <1>2, <1>3, <1>5, <1>6, GoodAbove
<1>9. a \in Int /\ b \in Int /\ 2 * b < RawSpan
  <2>1. t + 1 \in 1..n /\ n - t \in 1..n
    BY <1>5
  <2>2. \A k \in 1..n : Kth(v, k) \in Int /\ \E i \in 1..n : Kth(v, k) = v[i]
    BY <1>2, KthFacts
  <2>3. a \in Int /\ b \in Int /\ \E i \in 1..n : b = v[i]
    BY <2>1, <2>2
  <2> QED BY <1>2, <2>3
<1>10. Len(s) = m /\ \A i \in 1..Len(s) : s[i] \in Int /\ a <= s[i] /\ s[i] <= b
  <2>1. Len(s) = m /\ \A i \in 1..m : s[i] = Kth(v, t + i)
    <3>1. got \in Seq(Reading) /\ n = Len(got) /\ IsTrim(n, t, m)
      BY <1>1, <1>4
    <3>2. /\ Len(KeptValues(got)) = m
          /\ \A i \in 1..m : t + i \in 1..n /\ KeptValues(got)[i] = Kth(Values(got), t + i)
      BY <3>1, Kept
    <3> QED BY <3>2, Zenon DEF s, v
  <2>2. ASSUME NEW i \in 1..m
        PROVE  Kth(v, t + i) \in Int /\ a <= Kth(v, t + i) /\ Kth(v, t + i) <= b
    <3>1. t + i \in 1..n /\ t + 1 <= t + i /\ t + i <= n - t
      BY <1>5
    <3>2. Kth(v, t + i) \in Int
      BY <1>2, <3>1, KthFacts
    <3>3. a <= Kth(v, t + i)
      BY <1>2, <1>5, <3>1, SortedRises
    <3>4. Kth(v, t + i) <= b
      BY <1>2, <1>5, <3>1, SortedRises
    <3> QED BY <3>2, <3>3, <3>4
  <2> QED BY <2>1, <2>2
<1> HIDE DEF a, b
<1>11. SumOf(s) \in Int /\ m * a <= SumOf(s) /\ SumOf(s) <= m * b
  <2>1. Len(s) \in Nat
    BY <1>5, <1>10
  <2>2. Len(s) * a <= SumOf(s) /\ SumOf(s) <= Len(s) * b /\ SumOf(s) \in Int
    BY <1>9, <1>10, <2>1, SumBetween
  <2> QED BY <1>10, <2>2
<1>12. PICK q \in Int : q = SumOf(s) \div m /\ a <= q /\ q <= b
  <2>1. PICK x \in Int : x = SumOf(s) /\ m * a <= x /\ x <= m * b
    BY <1>11
  <2>2. m \in Nat \ {0}
    BY <1>5
  <2>3. x \div m \in Int /\ a <= x \div m /\ x \div m <= b
    BY <1>9, <2>1, <2>2, DivBetween
  <2> QED BY <2>1, <2>3
<1>13. SumOf(s) < LongSpan
  <2>1. RawSpan \in Int /\ b <= RawSpan
    BY <1>9, HxAssumption
  <2>2. m * b <= m * RawSpan
    BY <1>5, <1>9, <2>1, TimesRises
  <2>3. m * b \in Int /\ m * RawSpan \in Int
    BY <1>5, <1>9, <2>1, Times1
  <2>4. SumOf(s) <= m * RawSpan
    BY <1>11, <2>2, <2>3
  <2>5. m <= TareTimes
    BY <1>1, <1>5
  <2> QED BY <1>5, <1>11, <2>4, <2>5, SumFits
<1>14. SumOf(s) % LongSpan = SumOf(s)
  <2>1. LongSpan \in Nat
    BY HxAssumption
  <2>2. SumOf(s) \in 0..LongSpan - 1
    BY <1>1, <1>11, <1>13, <2>1
  <2> QED BY <2>1, <2>2, ModSmall
<1>15. Signed(q, LongSpan) = q
  <2>1. LongSpan \in Nat /\ RawSpan \in Nat /\ RawSpan < LongSpan
    BY RawFits, HxAssumption
  <2>2. 2 * q < LongSpan
    BY <1>9, <1>12, <2>1
  <2> QED BY <2>1, <2>2 DEF Signed
<1>16. Average(c.got) = q
  BY <1>0, <1>10, <1>12, <1>14, <1>15 DEF Average, s
<1>17. /\ 1 * c.got[low].value <= q /\ q <= 1 * c.got[high].value
       /\ low \in Good(c) /\ high \in Good(c) /\ 1 \in Nat
  BY <1>3, <1>7, <1>8, <1>9, <1>12 DEF g
<1> QED BY <1>12, <1>16, <1>17, Within

-----------------------------------------------------------------------------
(* The calls.                                                              *)

GainSet == {32, 64, 128}
ReadSet == [gain : GainSet, keep : BOOLEAN]
OnA == {"weightA", "tareA"}
OnB == {"weightB", "tareB"}
Others == {"none", "setGain", "locked"}
TimesOf(op) == IF op \in {"tareA", "tareB"} THEN TareTimes ELSE Times

HxTypeOK ==
    /\ gain \in GainSet /\ chipGain \in GainSet
    /\ answers \in BOOLEAN /\ sensorOk \in BOOLEAN /\ timeouts \in 0..MaxTimeouts + 1
    /\ unit \in [{"A", "B"} -> {1, Unit}]
    /\ call.op \in OnA \cup OnB \cup Others
    /\ call.todo \in Seq(ReadSet) /\ call.got \in Seq(Reading)
    /\ call = [op |-> call.op, todo |-> call.todo, got |-> call.got]
    /\ result.got \in Seq(Reading)

\* The read of a call of channel B when left reads are still to do: the first
\* sets the gain to 32, the last sets it back to home.
ReadOnB(n, left, home) ==
    IF left \in 2..n + 1 THEN [gain |-> 32, keep |-> TRUE]
    ELSE [gain |-> IF left = 1 THEN home ELSE 32, keep |-> FALSE]

\* What a call has read and has still to read.
PlanOnA(c) ==
    /\ \A i \in 1..Len(c.todo) : c.todo[i] = [gain |-> gain, keep |-> TRUE]
    /\ Len(c.got) + Len(c.todo) = TimesOf(c.op)
PlanOnB(c, home) ==
    /\ Len(c.todo) <= TimesOf(c.op) + 2
    /\ \A i \in 1..Len(c.todo) : c.todo[i] = ReadOnB(TimesOf(c.op), Len(c.todo) + 1 - i, home)
    /\ Len(c.todo) = TimesOf(c.op) + 2 => Len(c.got) = 0
    /\ Len(c.todo) \in 1..TimesOf(c.op) + 1 => Len(c.got) = TimesOf(c.op) + 1 - Len(c.todo)
    /\ Len(c.todo) = 0 => Len(c.got) = TimesOf(c.op)
PlanOfOthers(c) ==
    /\ c.got = <<>>
    /\ \A i \in 1..Len(c.todo) : ~c.todo[i].keep
Planned ==
    /\ call.op \in OnA => PlanOnA(call)
    /\ call.op \in OnB => \E home \in GainSet : PlanOnB(call, home)
    /\ call.op \in Others => PlanOfOthers(call)

\* A chip that has answered once has the gain the next value is wanted with.
Answered(c) == \E i \in 1..Len(c.got) : c.got[i].gain # None
GainIsSet == call.todo # <<>> /\ call.todo[1].keep /\ Answered(call) => chipGain = WantedGain(call)

\* A result is what its reads give.
Computed ==
    /\ result.op \in {"weightA", "weightB"} => result.value = Median(result.got)
    /\ result.op \in {"tareA", "tareB"} =>
          result.value = Average(result.got) /\ Len(result.got) = TareTimes

HxInv == HxTypeOK /\ Planned /\ GainIsSet /\ OneStrayReading /\ Computed

LEMMA TimesFacts == \A op : TimesOf(op) \in Nat \ {0}
  BY HxAssumption DEF TimesOf

LEMMA SignedFacts ==
    \A s \in Int : \A raw \in Int : 0 <= raw /\ raw < s =>
        Signed(raw, s) \in Int /\ -s <= Signed(raw, s) /\ 2 * Signed(raw, s) < s
  BY DEF Signed

LEMMA SignedRaw == \A raw \in RawValues : \A g \in GainSet :
    [value |-> Signed(raw, RawSpan), gain |-> g] \in Reading
<1> SUFFICES ASSUME NEW raw \in RawValues, NEW g \in GainSet
             PROVE  [value |-> Signed(raw, RawSpan), gain |-> g] \in Reading
  OBVIOUS
<1>1. raw \in Int /\ 0 <= raw /\ raw < RawSpan /\ RawSpan \in Int
  <2>1. RawSpan \in Int /\ RawValues \subseteq 0..RawSpan - 1
    BY HxAssumption
  <2> QED BY <2>1
<1>2. PICK x \in Int : x = Signed(raw, RawSpan) /\ -RawSpan <= x /\ 2 * x < RawSpan
  BY <1>1, SignedFacts
<1> QED BY <1>2 DEF Reading, GainSet

LEMMA NoReading == [value |-> 0, gain |-> None] \in Reading
<1>1. 0 \in Int /\ -RawSpan <= 0 /\ 2 * 0 < RawSpan
  BY HxAssumption
<1> QED BY <1>1 DEF Reading

\* What a read does to the call, answered or not.
Takes(e) ==
    /\ call.todo # <<>> /\ gain' = call.todo[1].gain
    /\ call' = [op |-> call.op, todo |-> Tail(call.todo),
                got |-> IF call.todo[1].keep THEN Append(call.got, e) ELSE call.got]
    /\ \/ e.gain = chipGain /\ chipGain' = call.todo[1].gain
       \/ e.gain = None /\ chipGain' = chipGain
    /\ timeouts' \in 0..MaxTimeouts + 1 /\ sensorOk' \in BOOLEAN
    /\ UNCHANGED <<answers, unit, result>>

LEMMA ReadTakes ==
    ASSUME HxTypeOK, Read
    PROVE  \E e \in Reading : Takes(e)
<1>1. /\ call.todo # <<>> /\ gain' = call.todo[1].gain /\ UNCHANGED <<answers, unit, result>>
      /\ Answer(call.todo[1]) \/ NoAnswer(call.todo[1])
  BY DEF Read
<1>2. MaxTimeouts \in Nat /\ timeouts \in 0..MaxTimeouts + 1 /\ chipGain \in GainSet
      /\ sensorOk \in BOOLEAN /\ call = [op |-> call.op, todo |-> call.todo, got |-> call.got]
  BY HxAssumption DEF HxTypeOK
<1>3. CASE Answer(call.todo[1])
  <2>1. PICK raw \in RawValues :
            call' = [call EXCEPT !.todo = Tail(@),
                !.got = IF call.todo[1].keep
                        THEN Append(@, [value |-> Signed(raw, RawSpan), gain |-> chipGain]) ELSE @]
    BY <1>3 DEF Answer
  <2>2. PICK e \in Reading : e = [value |-> Signed(raw, RawSpan), gain |-> chipGain]
    BY <1>2, SignedRaw
  <2>3. call' = [op |-> call.op, todo |-> Tail(call.todo),
                 got |-> IF call.todo[1].keep THEN Append(call.got, e) ELSE call.got]
    BY <1>2, <2>1, <2>2
  <2>4. e.gain = chipGain /\ chipGain' = call.todo[1].gain /\ timeouts' = 0 /\ sensorOk' = sensorOk
    BY <1>3, <2>2 DEF Answer, GainAfter
  <2>5. timeouts' \in 0..MaxTimeouts + 1 /\ sensorOk' \in BOOLEAN
    BY <1>2, <2>4
  <2>6. Takes(e)
    BY <1>1, <2>3, <2>4, <2>5 DEF Takes
  <2> QED BY <2>6
<1>4. CASE NoAnswer(call.todo[1])
  <2>1. PICK e \in Reading : e = [value |-> 0, gain |-> None]
    BY NoReading
  <2>2. call' = [op |-> call.op, todo |-> Tail(call.todo),
                 got |-> IF call.todo[1].keep THEN Append(call.got, e) ELSE call.got]
    BY <1>2, <1>4, <2>1 DEF NoAnswer
  <2>3. e.gain = None /\ chipGain' = chipGain
    BY <1>4, <2>1 DEF NoAnswer
  <2>4. timeouts' \in 0..MaxTimeouts + 1 /\ sensorOk' \in BOOLEAN
    <3>1. \/ timeouts > MaxTimeouts /\ sensorOk' = FALSE /\ timeouts' = timeouts
          \/ ~(timeouts > MaxTimeouts) /\ timeouts' = timeouts + 1 /\ sensorOk' = sensorOk
      BY <1>4 DEF NoAnswer, GivesUp
    <3>2. MaxTimeouts \in Nat /\ timeouts \in 0..MaxTimeouts + 1 /\ sensorOk \in BOOLEAN
      BY <1>2
    <3>3. timeouts' \in 0..MaxTimeouts + 1
      BY <3>1, <3>2
    <3> QED BY <3>1, <3>2, <3>3
  <2>5. Takes(e)
    BY <1>1, <2>2, <2>3, <2>4 DEF Takes
  <2> QED BY <2>5
<1> QED BY <1>1, <1>3, <1>4

\* The reads that are left after one of them.
LEMMA TailFacts ==
    ASSUME NEW S, NEW s \in Seq(S), s # <<>>
    PROVE  /\ Len(s) \in Nat /\ Len(s) > 0 /\ s[1] \in S
           /\ Tail(s) \in Seq(S) /\ Len(Tail(s)) = Len(s) - 1
           /\ \A i \in 1..Len(s) - 1 : Tail(s)[i] = s[i + 1]
  OBVIOUS

LEMMA AppendFacts ==
    ASSUME NEW S, NEW s \in Seq(S), NEW e \in S
    PROVE  /\ Len(s) \in Nat /\ Append(s, e) \in Seq(S) /\ Len(Append(s, e)) = Len(s) + 1
           /\ \A i \in 1..Len(s) : Append(s, e)[i] = s[i]
           /\ Append(s, e)[Len(s) + 1] = e
  OBVIOUS

\* The call before and after a read.
LEMMA ReadFacts ==
    ASSUME HxTypeOK, NEW e \in Reading, Takes(e)
    PROVE  /\ Len(call.todo) \in Nat /\ Len(call.todo) > 0 /\ call.todo[1] \in ReadSet
           /\ call'.op = call.op /\ gain' = call.todo[1].gain
           /\ call'.todo \in Seq(ReadSet) /\ Len(call'.todo) = Len(call.todo) - 1
           /\ \A i \in 1..Len(call.todo) - 1 : call'.todo[i] = call.todo[i + 1]
           /\ call'.got = IF call.todo[1].keep THEN Append(call.got, e) ELSE call.got
           /\ call'.got \in Seq(Reading)
           /\ Len(call.got) \in Nat
           /\ Len(call'.got) = IF call.todo[1].keep THEN Len(call.got) + 1 ELSE Len(call.got)
<1>1. /\ call.todo \in Seq(ReadSet) /\ call.got \in Seq(Reading) /\ call.todo # <<>>
      /\ call'.op = call.op /\ call'.todo = Tail(call.todo) /\ gain' = call.todo[1].gain
      /\ call'.got = IF call.todo[1].keep THEN Append(call.got, e) ELSE call.got
  BY DEF HxTypeOK, Takes
<1>2. PICK todo \in Seq(ReadSet) : todo = call.todo /\ todo # <<>>
  BY <1>1
<1>3. /\ Len(todo) \in Nat /\ Len(todo) > 0 /\ todo[1] \in ReadSet
      /\ Tail(todo) \in Seq(ReadSet) /\ Len(Tail(todo)) = Len(todo) - 1
      /\ \A i \in 1..Len(todo) - 1 : Tail(todo)[i] = todo[i + 1]
  BY <1>2, TailFacts
<1>4. PICK got \in Seq(Reading) : got = call.got
  BY <1>1
<1>5. Len(got) \in Nat /\ Append(got, e) \in Seq(Reading) /\ Len(Append(got, e)) = Len(got) + 1
  BY AppendFacts
<1> QED BY <1>1, <1>2, <1>3, <1>4, <1>5

LEMMA ReadTypes ==
    ASSUME HxTypeOK, NEW e \in Reading, Takes(e)
    PROVE  HxTypeOK'
<1>1. /\ call'.op = call.op /\ call'.todo \in Seq(ReadSet) /\ call'.got \in Seq(Reading)
      /\ gain' \in GainSet /\ chipGain' \in GainSet
  <2>1. call.todo[1].gain \in GainSet
    BY ReadFacts DEF ReadSet
  <2> QED BY <2>1, ReadFacts DEF Takes, HxTypeOK
<1>2. call' = [op |-> call'.op, todo |-> call'.todo, got |-> call'.got]
  BY DEF Takes
<1>3. /\ timeouts' \in 0..MaxTimeouts + 1 /\ sensorOk' \in BOOLEAN
      /\ answers' = answers /\ unit' = unit /\ result' = result
  BY DEF Takes
<1> QED BY <1>1, <1>2, <1>3 DEF HxTypeOK

LEMMA ReadOnBFacts ==
    \A n, left, home : /\ ReadOnB(n, left, home).keep <=> left \in 2..n + 1
                       /\ left # 1 => ReadOnB(n, left, home).gain = 32
  BY DEF ReadOnB

\* A call of channel B, before and after a read.
LEMMA ReadPlanOnB ==
    ASSUME HxTypeOK, NEW e \in Reading, Takes(e), NEW home \in GainSet, PlanOnB(call, home)
    PROVE  PlanOnB(call', home)
<1>0. PICK n, left : n = TimesOf(call.op) /\ left = Len(call.todo)
  OBVIOUS
<1>1. n \in Nat \ {0} /\ left \in Nat /\ left > 0
  BY <1>0, ReadFacts, TimesFacts
<1>2. /\ left <= n + 2 /\ call.todo[1] = ReadOnB(n, left, home)
      /\ \A i \in 1..left : call.todo[i] = ReadOnB(n, left + 1 - i, home)
      /\ left = n + 2 => Len(call.got) = 0
      /\ left \in 1..n + 1 => Len(call.got) = n + 1 - left
  <2>1. 1 \in 1..left /\ left + 1 - 1 = left
    BY <1>1
  <2> QED BY <1>0, <2>1 DEF PlanOnB
<1>3. call.todo[1].keep <=> left \in 2..n + 1
  BY <1>2, ReadOnBFacts
<1>4. /\ Len(call'.todo) = left - 1 /\ call'.op = call.op
      /\ Len(call'.got) = IF left \in 2..n + 1 THEN Len(call.got) + 1 ELSE Len(call.got)
  BY <1>0, <1>3, ReadFacts
<1>5. ASSUME NEW i \in 1..left - 1 PROVE call'.todo[i] = ReadOnB(n, (left - 1) + 1 - i, home)
  <2>1. i + 1 \in 1..left /\ left + 1 - (i + 1) = (left - 1) + 1 - i
    BY <1>1
  <2>2. call'.todo[i] = call.todo[i + 1]
    BY <1>0, ReadFacts
  <2> QED BY <1>2, <2>1, <2>2
<1>6. /\ left - 1 = n + 2 => Len(call'.got) = 0
      /\ left - 1 \in 1..n + 1 => Len(call'.got) = n + 1 - (left - 1)
      /\ left - 1 = 0 => Len(call'.got) = n
  <2>1. PICK k \in Nat, l \in Nat : k = Len(call.got) /\ l = Len(call'.got)
    BY ReadFacts
  <2>2. /\ left = n + 2 => k = 0
        /\ left \in 1..n + 1 => k = n + 1 - left
        /\ l = IF left \in 2..n + 1 THEN k + 1 ELSE k
    BY <1>2, <1>4, <2>1
  <2>3. /\ left - 1 = n + 2 => l = 0
        /\ left - 1 \in 1..n + 1 => l = n + 1 - (left - 1)
        /\ left - 1 = 0 => l = n
    BY <1>1, <1>2, <2>1, <2>2
  <2> QED BY <2>1, <2>3
<1> QED BY <1>0, <1>1, <1>2, <1>4, <1>5, <1>6 DEF PlanOnB

LEMMA ReadPlanned ==
    ASSUME HxTypeOK, Planned, NEW e \in Reading, Takes(e)
    PROVE  Planned'
<1>1. ASSUME call.op \in OnA PROVE PlanOnA(call)'
  <2>1. PICK n, left : n = TimesOf(call.op) /\ left = Len(call.todo)
    OBVIOUS
  <2>2. n \in Nat /\ left \in Nat /\ left > 0 /\ Len(call.got) \in Nat
    BY <2>1, ReadFacts, TimesFacts
  <2>3. /\ \A i \in 1..left : call.todo[i] = [gain |-> gain, keep |-> TRUE]
        /\ Len(call.got) + left = n
    BY <1>1, <2>1 DEF Planned, PlanOnA
  <2>4. call.todo[1] = [gain |-> gain, keep |-> TRUE]
    <3>1. 1 \in 1..left
      BY <2>2
    <3> QED BY <2>3, <3>1
  <2>5. gain' = gain /\ Len(call'.todo) = left - 1 /\ Len(call'.got) = Len(call.got) + 1 /\ call'.op = call.op
    BY <2>1, <2>4, ReadFacts
  <2>6. \A i \in 1..left - 1 : call'.todo[i] = [gain |-> gain, keep |-> TRUE]
    <3>1. \A i \in 1..left - 1 : i + 1 \in 1..left
      BY <2>2
    <3> QED BY <2>1, <2>3, <3>1, ReadFacts
  <2>7. Len(call'.got) + Len(call'.todo) = n
    BY <2>2, <2>3, <2>5
  <2> QED BY <2>1, <2>5, <2>6, <2>7 DEF PlanOnA
<1>2. ASSUME call.op \in OnB PROVE \E home \in GainSet : PlanOnB(call', home)
  <2>1. PICK home \in GainSet : PlanOnB(call, home)
    BY <1>2 DEF Planned
  <2> QED BY <2>1, ReadPlanOnB
<1>3. ASSUME call.op \in Others PROVE PlanOfOthers(call')
  <2>1. call.got = <<>> /\ \A i \in 1..Len(call.todo) : ~call.todo[i].keep
    BY <1>3 DEF Planned, PlanOfOthers
  <2>2. 1 \in 1..Len(call.todo) /\ \A i \in 1..Len(call.todo) - 1 : i + 1 \in 1..Len(call.todo)
    BY ReadFacts
  <2>3. call'.got = <<>>
    BY <2>1, <2>2, ReadFacts
  <2>4. \A i \in 1..Len(call'.todo) : ~call'.todo[i].keep
    BY <2>1, <2>2, ReadFacts
  <2> QED BY <2>3, <2>4 DEF PlanOfOthers
<1>4. call'.op = call.op
  BY ReadFacts
<1> QED BY <1>1, <1>2, <1>3, <1>4 DEF Planned

\* The gain a call wants its values with does not change, and its reads set it.
LEMMA WantedStays ==
    ASSUME HxTypeOK, Planned, NEW e \in Reading, Takes(e), call.op \in OnA \cup OnB
    PROVE  /\ WantedGain(call)' = WantedGain(call)
           /\ call.todo[1].keep => call.todo[1].gain = WantedGain(call)
<1>1. call'.op = call.op /\ gain' = call.todo[1].gain /\ 1 \in 1..Len(call.todo)
  BY ReadFacts
<1>2. CASE call.op \in OnA
  <2>1. call.todo[1] = [gain |-> gain, keep |-> TRUE]
    BY <1>1, <1>2 DEF Planned, PlanOnA
  <2>2. Channel(call.op) = "A"
    BY <1>2 DEF OnA, Channel
  <2> QED BY <1>1, <2>1, <2>2 DEF WantedGain
<1>3. CASE call.op \in OnB
  <2>1. Channel(call.op) = "B"
    BY <1>3 DEF OnB, Channel
  <2>2. PICK n, left, home : n \in Nat /\ left \in Nat /\ call.todo[1] = ReadOnB(n, left, home)
    <3>1. PICK home \in GainSet : PlanOnB(call, home)
      BY <1>3 DEF Planned
    <3>2. Len(call.todo) \in Nat /\ Len(call.todo) + 1 - 1 = Len(call.todo)
      BY ReadFacts
    <3>3. call.todo[1] = ReadOnB(TimesOf(call.op), Len(call.todo), home)
      BY <1>1, <3>1, <3>2 DEF PlanOnB
    <3> QED BY <3>2, <3>3, TimesFacts
  <2>3. call.todo[1].keep => left # 1
    <3>1. left \in 2..n + 1 => left # 1
      BY <2>2
    <3> QED BY <2>2, <3>1, ReadOnBFacts
  <2>4. call.todo[1].keep => call.todo[1].gain = 32
    BY <2>2, <2>3, ReadOnBFacts
  <2> QED BY <1>1, <2>1, <2>4 DEF WantedGain
<1> QED BY <1>2, <1>3

LEMMA OpIsKnown ==
    ASSUME HxTypeOK PROVE call.op \in OnA \cup OnB \/ call.op \in Others
  BY DEF HxTypeOK

\* Values are read in a row: what comes before a kept read is kept, or nothing
\* is kept yet.
LEMMA KeptInARow ==
    ASSUME HxTypeOK, Planned, NEW e \in Reading, Takes(e),
           call'.todo # <<>>, call'.todo[1].keep
    PROVE  /\ call.op \in OnA \cup OnB
           /\ call.todo[1].keep \/ Len(call'.got) = 0
<1>1. /\ Len(call.todo) \in Nat /\ 1 \in 1..Len(call.todo) - 1 /\ 2 \in 1..Len(call.todo)
      /\ 1 \in 1..Len(call.todo) /\ call'.todo[1] = call.todo[2]
  <2>1. Len(call.todo) \in Nat /\ Len(call'.todo) = Len(call.todo) - 1 /\ call'.todo \in Seq(ReadSet)
    BY ReadFacts
  <2>2. Len(call'.todo) > 0
    BY <2>1, TailFacts
  <2>3. Len(call.todo) >= 2
    BY <2>1, <2>2
  <2>4. 1 \in 1..Len(call.todo) - 1 /\ 2 \in 1..Len(call.todo) /\ 1 \in 1..Len(call.todo) /\ 1 + 1 = 2
    BY <2>1, <2>3
  <2>5. call'.todo[1] = call.todo[1 + 1]
    BY <2>4, ReadFacts
  <2> QED BY <2>1, <2>4, <2>5
<1>2. call.op \notin Others
  BY <1>1 DEF Planned, PlanOfOthers
<1>3. call.op \in OnA => call.todo[1].keep
  BY <1>1 DEF Planned, PlanOnA
<1>4. ASSUME call.op \in OnB, ~call.todo[1].keep PROVE Len(call'.got) = 0
  <2>1. PICK home \in GainSet : PlanOnB(call, home)
    BY <1>4 DEF Planned
  <2>2. PICK n, left : n = TimesOf(call.op) /\ left = Len(call.todo)
    OBVIOUS
  <2>3. n \in Nat /\ left \in Nat /\ left + 1 - 1 = left /\ left + 1 - 2 = left - 1
    BY <1>1, <2>2, TimesFacts
  <2>4. call.todo[1] = ReadOnB(n, left, home) /\ call.todo[2] = ReadOnB(n, left - 1, home) /\ left <= n + 2
    BY <1>1, <2>1, <2>2, <2>3 DEF PlanOnB
  <2>5. ~(left \in 2..n + 1) /\ left - 1 \in 2..n + 1
    BY <1>1, <1>4, <2>4, ReadOnBFacts
  <2>6. left = n + 2
    BY <2>3, <2>4, <2>5
  <2>7. Len(call.got) = 0
    BY <2>1, <2>2, <2>6 DEF PlanOnB
  <2> QED BY <1>4, <2>7, ReadFacts
<1> QED BY <1>2, <1>3, <1>4, OpIsKnown

\* What is in the values after a read.
LEMMA NewValue ==
    ASSUME HxTypeOK, NEW e \in Reading, Takes(e), NEW i \in 1..Len(call'.got)
    PROVE  \/ i \in 1..Len(call.got) /\ call'.got[i] = call.got[i]
           \/ call.todo[1].keep /\ i = Len(call.got) + 1 /\ call'.got[i] = e
<1>1. /\ call'.got = IF call.todo[1].keep THEN Append(call.got, e) ELSE call.got
      /\ Len(call.got) \in Nat
      /\ Len(call'.got) = IF call.todo[1].keep THEN Len(call.got) + 1 ELSE Len(call.got)
  BY ReadFacts
<1>2. call.got \in Seq(Reading)
  BY DEF HxTypeOK
<1>3. CASE call.todo[1].keep
  <2>1. /\ \A j \in 1..Len(call.got) : Append(call.got, e)[j] = call.got[j]
        /\ Append(call.got, e)[Len(call.got) + 1] = e
    BY <1>2, AppendFacts
  <2>2. i \in 1..Len(call.got) \/ i = Len(call.got) + 1
    BY <1>1, <1>3
  <2> QED BY <1>1, <1>3, <2>1, <2>2
<1>4. CASE ~call.todo[1].keep
  BY <1>1, <1>4
<1> QED BY <1>3, <1>4

LEMMA ReadGainIsSet ==
    ASSUME HxTypeOK, Planned, GainIsSet, NEW e \in Reading, Takes(e)
    PROVE  GainIsSet'
<1> SUFFICES ASSUME call'.todo # <<>>, call'.todo[1].keep, Answered(call') PROVE chipGain' = WantedGain(call)'
  BY DEF GainIsSet
<1>1. PICK i \in 1..Len(call'.got) : call'.got[i].gain # None
  BY DEF Answered
<1>2. Len(call'.got) # 0
  BY <1>1
<1>3. call.op \in OnA \cup OnB /\ call.todo[1].keep
  BY <1>2, KeptInARow
<1>4. WantedGain(call)' = WantedGain(call) /\ call.todo[1].gain = WantedGain(call)
  BY <1>3, WantedStays
<1>5. (e.gain = chipGain /\ chipGain' = call.todo[1].gain) \/ (e.gain = None /\ chipGain' = chipGain)
  BY DEF Takes
<1>6. e.gain = None => Answered(call)
  BY <1>1, NewValue DEF Answered
<1>7. Answered(call) => chipGain = WantedGain(call)
  BY <1>3 DEF GainIsSet, Takes
<1> QED BY <1>4, <1>5, <1>6, <1>7

LEMMA ReadOneStray ==
    ASSUME HxTypeOK, Planned, GainIsSet, OneStrayReading, NEW e \in Reading, Takes(e)
    PROVE  OneStrayReading'
<1>1. DOMAIN call.got = 1..Len(call.got) /\ DOMAIN call'.got = 1..Len(call'.got) /\ Len(call.got) \in Nat
  BY ReadFacts DEF HxTypeOK
<1> SUFFICES ASSUME NEW i \in 1..Len(call'.got), NEW j \in 1..Len(call'.got),
                    i < j, call'.got[i].gain # None
             PROVE  call'.got[j].gain \in {None, WantedGain(call)'}
  BY <1>1 DEF OneStrayReading
<1>2. call.op \in OnA \cup OnB
  <2> SUFFICES ASSUME call.op \in Others PROVE FALSE
    BY OpIsKnown
  <2>1. call'.op \in Others /\ Planned'
    BY ReadFacts, ReadPlanned
  <2>2. call'.got = <<>>
    BY <2>1 DEF Planned, PlanOfOthers
  <2> QED BY <2>2
<1>3. WantedGain(call)' = WantedGain(call)
  BY <1>2, WantedStays
<1>4. i \in 1..Len(call.got) /\ call'.got[i] = call.got[i]
  <2>1. Len(call'.got) <= Len(call.got) + 1 /\ Len(call'.got) \in Nat
    BY ReadFacts
  <2>2. i # Len(call.got) + 1
    BY <1>1, <2>1
  <2> QED BY <2>2, NewValue
<1>5. CASE j \in 1..Len(call.got) /\ call'.got[j] = call.got[j]
  BY <1>1, <1>3, <1>4, <1>5 DEF OneStrayReading
<1>6. CASE call.todo[1].keep /\ call'.got[j] = e
  <2>1. chipGain = WantedGain(call)
    BY <1>4, <1>6 DEF GainIsSet, Answered, Takes
  <2>2. e.gain = chipGain \/ e.gain = None
    BY DEF Takes
  <2> QED BY <1>3, <1>6, <2>1, <2>2
<1> QED BY <1>5, <1>6, NewValue

LEMMA ReadInv == HxInv /\ Read => HxInv'
<1> SUFFICES ASSUME HxInv, Read PROVE HxInv'
  OBVIOUS
<1>1. HxTypeOK /\ Planned /\ GainIsSet /\ OneStrayReading /\ Computed
  BY DEF HxInv
<1>2. PICK e \in Reading : Takes(e)
  BY <1>1, ReadTakes
<1>3. HxTypeOK' /\ Planned' /\ GainIsSet' /\ OneStrayReading'
  BY <1>1, <1>2, ReadTypes, ReadPlanned, ReadGainIsSet, ReadOneStray
<1>4. Computed'
  BY <1>1, <1>2 DEF Computed, Takes
<1> QED BY <1>3, <1>4 DEF HxInv

\* The reads of a call as it begins.
LEMMA EmptySeq == \A S : <<>> \in Seq(S) /\ Len(<<>>) = 0
  OBVIOUS

LEMMA ReadsFacts ==
    ASSUME NEW n \in Nat, NEW g \in GainSet, NEW keep \in BOOLEAN
    PROVE  /\ Reads(n, g, keep) \in Seq(ReadSet) /\ Len(Reads(n, g, keep)) = n
           /\ \A i \in 1..n : Reads(n, g, keep)[i] = [gain |-> g, keep |-> keep]
<1>1. [gain |-> g, keep |-> keep] \in ReadSet
  BY DEF ReadSet
<1> QED BY <1>1 DEF Reads

IsConcat(S, s, t, p) == s \in Seq(S) /\ t \in Seq(S) /\ p = s \o t

LEMMA ConcatFacts ==
    ASSUME NEW S, NEW first, NEW second, NEW both, IsConcat(S, first, second, both)
    PROVE  /\ both \in Seq(S) /\ Len(both) = Len(first) + Len(second)
           /\ Len(first) \in Nat /\ Len(second) \in Nat
           /\ \A i \in 1..Len(first) : both[i] = first[i]
           /\ \A i \in 1..Len(second) : both[Len(first) + i] = second[i]
  BY DEF IsConcat

\* s is t with one element before it and one behind it.
Enclosed(S, r, t, u, p, s) ==
    IsConcat(S, r, t, p) /\ IsConcat(S, p, u, s) /\ Len(r) = 1 /\ Len(u) = 1

LEMMA ThreeParts ==
    ASSUME NEW S, NEW r, NEW t, NEW u, NEW p, NEW s, Enclosed(S, r, t, u, p, s)
    PROVE  /\ s \in Seq(S) /\ Len(s) = Len(t) + 2 /\ s[1] = r[1]
           /\ \A i \in 1..Len(t) : s[i + 1] = t[i]
           /\ s[Len(t) + 2] = u[1]
<1>0. Len(r) = 1 /\ Len(u) = 1 /\ IsConcat(S, r, t, p) /\ IsConcat(S, p, u, s)
  BY DEF Enclosed
<1>1. /\ Len(p) = Len(r) + Len(t) /\ Len(t) \in Nat
      /\ \A i \in 1..Len(r) : p[i] = r[i]
      /\ \A i \in 1..Len(t) : p[Len(r) + i] = t[i]
  <2>1. IsConcat(S, r, t, p)
    BY <1>0
  <2> QED BY <2>1, ConcatFacts
<1>2. /\ s \in Seq(S) /\ Len(s) = Len(p) + Len(u)
      /\ \A i \in 1..Len(p) : s[i] = p[i]
      /\ \A i \in 1..Len(u) : s[Len(p) + i] = u[i]
  <2>1. IsConcat(S, p, u, s)
    BY <1>0
  <2> QED BY <2>1, ConcatFacts
<1>3. PICK n \in Nat : n = Len(t)
  BY <1>1
<1>4. /\ 1 \in 1..1 /\ 1 \in 1..1 + n /\ (1 + n) + 1 = n + 2
      /\ \A i \in 1..n : 1 + i \in 1..1 + n /\ 1 + i = i + 1
  OBVIOUS
<1>5. s[1] = r[1] /\ s[n + 2] = u[1] /\ Len(s) = n + 2
  BY <1>0, <1>1, <1>2, <1>3, <1>4
<1>6. \A i \in 1..n : s[i + 1] = t[i]
  BY <1>0, <1>1, <1>2, <1>3, <1>4
<1> QED BY <1>2, <1>3, <1>5, <1>6

\* The reads of a call of channel B, and which of them is which.
LEMMA FirstOnB == \A n \in Nat, home \in GainSet : ReadOnB(n, n + 2, home) = [gain |-> 32, keep |-> FALSE]
<1>1. \A n \in Nat : ~(n + 2 \in 2..n + 1) /\ n + 2 # 1
  OBVIOUS
<1> QED BY <1>1 DEF ReadOnB
LEMMA LastOnB == \A n \in Nat, home \in GainSet : ReadOnB(n, 1, home) = [gain |-> home, keep |-> FALSE]
  BY DEF ReadOnB
LEMMA KeptOnB ==
    \A n \in Nat, home \in GainSet : \A left \in 2..n + 1 :
        ReadOnB(n, left, home) = [gain |-> 32, keep |-> TRUE]
  BY DEF ReadOnB

ReadsOfB(n, home) == Reads(1, 32, FALSE) \o Reads(n, 32, TRUE) \o Reads(1, home, FALSE)

LEMMA ReadsOnB ==
    ASSUME NEW n \in Nat \ {0}, NEW home \in GainSet
    PROVE  /\ ReadsOfB(n, home) \in Seq(ReadSet) /\ Len(ReadsOfB(n, home)) = n + 2
           /\ \A i \in 1..n + 2 : ReadsOfB(n, home)[i] = ReadOnB(n, (n + 2) + 1 - i, home)
<1> DEFINE r == Reads(1, 32, FALSE)
           t == Reads(n, 32, TRUE)
           u == Reads(1, home, FALSE)
           s == ReadsOfB(n, home)
<1>1. 32 \in GainSet /\ 1 \in 1..1
  BY DEF GainSet
<1>2. r \in Seq(ReadSet) /\ Len(r) = 1 /\ r[1] = [gain |-> 32, keep |-> FALSE]
  BY <1>1, ReadsFacts
<1>3. t \in Seq(ReadSet) /\ Len(t) = n /\ \A i \in 1..n : t[i] = [gain |-> 32, keep |-> TRUE]
  BY <1>1, ReadsFacts
<1>4. u \in Seq(ReadSet) /\ Len(u) = 1 /\ u[1] = [gain |-> home, keep |-> FALSE]
  BY <1>1, ReadsFacts
<1>5. s = r \o t \o u
  BY DEF ReadsOfB
<1> HIDE DEF r, t, u, s
<1>6. /\ s \in Seq(ReadSet) /\ Len(s) = n + 2 /\ s[1] = r[1]
      /\ \A i \in 1..n : s[i + 1] = t[i]
      /\ s[n + 2] = u[1]
  <2>1. PICK p : p = r \o t /\ IsConcat(ReadSet, r, t, p)
    BY <1>2, <1>3 DEF IsConcat
  <2>2. p \in Seq(ReadSet)
    BY <2>1, ConcatFacts
  <2>3. IsConcat(ReadSet, p, u, s)
    BY <1>4, <1>5, <2>1, <2>2 DEF IsConcat
  <2>4. /\ s \in Seq(ReadSet) /\ Len(s) = Len(t) + 2 /\ s[1] = r[1]
        /\ \A i \in 1..Len(t) : s[i + 1] = t[i]
        /\ s[Len(t) + 2] = u[1]
    <3>1. Enclosed(ReadSet, r, t, u, p, s)
      BY <1>2, <1>4, <2>1, <2>3 DEF Enclosed
    <3> QED BY <3>1, ThreeParts
  <2> QED BY <1>3, <2>4
<1>7. ASSUME NEW i \in 1..n + 2 PROVE s[i] = ReadOnB(n, (n + 2) + 1 - i, home)
  <2>1. CASE i = 1
    <3>1. s[i] = [gain |-> 32, keep |-> FALSE]
      BY <1>2, <1>6, <2>1
    <3>2. (n + 2) + 1 - i = n + 2
      BY <2>1
    <3> QED BY <3>1, <3>2, FirstOnB
  <2>2. CASE i \in 2..n + 1
    <3>1. PICK j \in 1..n : j + 1 = i
      <4>1. i - 1 \in 1..n /\ (i - 1) + 1 = i
        BY <2>2
      <4> QED BY <4>1
    <3>2. s[i] = [gain |-> 32, keep |-> TRUE]
      BY <1>3, <1>6, <3>1
    <3>3. (n + 2) + 1 - i \in 2..n + 1
      BY <2>2
    <3> QED BY <3>2, <3>3, KeptOnB
  <2>3. CASE i = n + 2
    <3>1. s[i] = [gain |-> home, keep |-> FALSE]
      BY <1>4, <1>6, <2>3
    <3>2. (n + 2) + 1 - i = 1
      BY <2>3
    <3> QED BY <3>1, <3>2, LastOnB
  <2> QED BY <2>1, <2>2, <2>3
<1> QED BY <1>6, <1>7 DEF s

\* A call that begins has no values yet, and no result is left of the last one.
LEMMA BeginInv ==
    ASSUME HxInv, NEW op \in OnA \cup OnB \cup Others, NEW todo \in Seq(ReadSet),
           call' = Call(op, todo), result' = Nothing, Planned',
           gain' = gain, chipGain' \in GainSet, unit' \in [{"A", "B"} -> {1, Unit}],
           UNCHANGED <<answers, timeouts, sensorOk>>
    PROVE  HxInv'
<1>1. /\ call'.op = op /\ call'.todo = todo /\ call'.got = <<>>
      /\ call' = [op |-> op, todo |-> todo, got |-> <<>>]
      /\ result'.op = "none" /\ result'.got = <<>>
  BY DEF Call, Nothing
<1>2. HxTypeOK'
  BY <1>1, EmptySeq DEF HxInv, HxTypeOK
<1>3. Len(call'.got) = 0 /\ DOMAIN call'.got = {}
  BY <1>1
<1>4. GainIsSet' /\ OneStrayReading'
  BY <1>3 DEF GainIsSet, Answered, OneStrayReading
<1>5. Computed'
  BY <1>1 DEF Computed
<1> QED BY <1>2, <1>4, <1>5 DEF HxInv

LEMMA InitInv == Init => HxInv
<1> SUFFICES ASSUME Init PROVE HxInv
  OBVIOUS
<1>1. /\ call.op = "setGain" /\ call.todo = Reads(1, 128, FALSE) /\ call.got = <<>>
      /\ call = [op |-> call.op, todo |-> call.todo, got |-> call.got]
      /\ result.op = "none" /\ result.got = <<>>
  BY DEF Init, Call, Nothing
<1>2. 128 \in GainSet /\ 1 \in Nat /\ FALSE \in BOOLEAN
  BY DEF GainSet
<1>3. call.todo \in Seq(ReadSet) /\ \A i \in 1..Len(call.todo) : call.todo[i] = [gain |-> 128, keep |-> FALSE]
  <2>1. PICK r : r = Reads(1, 128, FALSE)
    OBVIOUS
  <2>2. r \in Seq(ReadSet) /\ Len(r) = 1 /\ \A i \in 1..1 : r[i] = [gain |-> 128, keep |-> FALSE]
    <3>1. Reads(1, 128, FALSE) \in Seq(ReadSet) /\ Len(Reads(1, 128, FALSE)) = 1
      BY <1>2, ReadsFacts
    <3>2. \A i \in 1..1 : Reads(1, 128, FALSE)[i] = [gain |-> 128, keep |-> FALSE]
      BY <1>2, ReadsFacts
    <3> QED BY <2>1, <3>1, <3>2, Zenon
  <2> QED BY <1>1, <2>1, <2>2
<1>4. HxTypeOK
  <2>1. /\ gain = 128 /\ chipGain = 128 /\ answers \in BOOLEAN /\ timeouts = 0 /\ sensorOk = TRUE
        /\ unit = [c \in {"A", "B"} |-> Unit]
    BY DEF Init
  <2>2. timeouts \in 0..MaxTimeouts + 1
    BY <2>1, HxAssumption
  <2>3. unit \in [{"A", "B"} -> {1, Unit}]
    BY <2>1
  <2>4. call.op \in Others
    BY <1>1 DEF Others
  <2> QED BY <1>1, <1>2, <1>3, <2>1, <2>2, <2>3, <2>4, EmptySeq DEF HxTypeOK
<1>5. Planned
  <2>1. call.op \notin OnA /\ call.op \notin OnB
    BY <1>1 DEF OnA, OnB
  <2>2. \A i \in 1..Len(call.todo) : call.todo[i].keep = FALSE
    BY <1>3
  <2>3. \A i \in 1..Len(call.todo) : ~call.todo[i].keep
    BY <2>2
  <2>4. PlanOfOthers(call)
    BY <1>1, <2>3, Zenon DEF PlanOfOthers
  <2> QED BY <2>1, <2>4 DEF Planned
<1>6. Len(call.got) = 0 /\ DOMAIN call.got = {}
  BY <1>1
<1>7. GainIsSet /\ OneStrayReading
  BY <1>6 DEF GainIsSet, Answered, OneStrayReading
<1>8. Computed
  BY <1>1 DEF Computed
<1> QED BY <1>4, <1>5, <1>7, <1>8 DEF HxInv

\* A call of channel A, with the gain as it is, and one of channel B.
LEMMA BeginOnA ==
    ASSUME HxInv, NEW op \in OnA, call' = Call(op, Reads(TimesOf(op), gain, TRUE)),
           result' = Nothing, UNCHANGED <<gain, chipGain, answers, timeouts, sensorOk>>,
           unit' \in [{"A", "B"} -> {1, Unit}]
    PROVE  HxInv'
<1>1. gain \in GainSet /\ chipGain \in GainSet
  BY DEF HxInv, HxTypeOK
<1>2. PICK n \in Nat : n = TimesOf(op)
  BY TimesFacts
<1>3. PICK todo : todo = Reads(n, gain, TRUE)
  OBVIOUS
<1>4. /\ todo \in Seq(ReadSet) /\ Len(todo) = n
      /\ \A i \in 1..n : todo[i] = [gain |-> gain, keep |-> TRUE]
  BY <1>1, <1>3, ReadsFacts
<1>5. call' = Call(op, todo) /\ call'.op = op /\ call'.todo = todo /\ call'.got = <<>> /\ Len(call'.got) = 0
  BY <1>2, <1>3 DEF Call
<1>6. Planned'
  <2>1. op \notin OnB /\ op \notin Others
    BY DEF OnA, OnB, Others
  <2>2. 0 + n = n
    BY <1>2
  <2>3. PlanOnA(call)'
    BY <1>2, <1>4, <1>5, <2>2 DEF PlanOnA
  <2> QED BY <1>5, <2>1, <2>3 DEF Planned
<1> QED BY <1>1, <1>4, <1>5, <1>6, BeginInv

LEMMA BeginOnB ==
    ASSUME HxInv, NEW op \in OnB, call' = Call(op, ReadsOfB(TimesOf(op), gain)),
           result' = Nothing, UNCHANGED <<gain, chipGain, answers, timeouts, sensorOk>>,
           unit' \in [{"A", "B"} -> {1, Unit}]
    PROVE  HxInv'
<1>1. gain \in GainSet /\ chipGain \in GainSet
  BY DEF HxInv, HxTypeOK
<1>2. PICK n \in Nat \ {0} : n = TimesOf(op)
  BY TimesFacts
<1>3. PICK todo : todo = ReadsOfB(n, gain)
  OBVIOUS
<1>4. /\ todo \in Seq(ReadSet) /\ Len(todo) = n + 2
      /\ \A i \in 1..n + 2 : todo[i] = ReadOnB(n, (n + 2) + 1 - i, gain)
  BY <1>1, <1>2, <1>3, ReadsOnB
<1>5. call' = Call(op, todo) /\ call'.op = op /\ call'.todo = todo /\ call'.got = <<>> /\ Len(call'.got) = 0
  BY <1>2, <1>3 DEF Call
<1>6. Planned'
  <2>1. op \notin OnA /\ op \notin Others
    BY DEF OnA, OnB, Others
  <2>2. n + 2 <= n + 2 /\ n + 2 \notin 1..n + 1 /\ n + 2 # 0
    BY <1>2
  <2>3. PlanOnB(call', gain)
    BY <1>2, <1>4, <1>5, <2>2 DEF PlanOnB
  <2> QED BY <1>1, <1>5, <2>1, <2>3 DEF Planned
<1> QED BY <1>1, <1>4, <1>5, <1>6, BeginInv

LEMMA ClientInv == HxInv /\ Client => HxInv'
<1> SUFFICES ASSUME HxInv, Client PROVE HxInv'
  OBVIOUS
<1>1. UNCHANGED <<gain, answers, timeouts, sensorOk>>
  BY DEF Client
<1>2. gain \in GainSet /\ chipGain \in GainSet /\ unit \in [{"A", "B"} -> {1, Unit}]
  BY DEF HxInv, HxTypeOK
<1>3. 128 \in GainSet /\ "weightA" \in OnA /\ "tareA" \in OnA /\ "weightB" \in OnB /\ "tareB" \in OnB
  BY DEF GainSet, OnA, OnB
<1>4. /\ TimesOf("weightA") = Times /\ TimesOf("weightB") = Times
      /\ TimesOf("tareA") = TareTimes /\ TimesOf("tareB") = TareTimes
  BY DEF TimesOf
<1>5. [unit EXCEPT !["A"] = 1] \in [{"A", "B"} -> {1, Unit}] /\ [unit EXCEPT !["B"] = 1] \in [{"A", "B"} -> {1, Unit}]
  BY <1>2
<1>6. CASE GetWeightA /\ UNCHANGED <<chipGain, unit>>
  <2>1. call' = Call("weightA", Reads(Times, gain, TRUE)) /\ result' = Nothing
    BY <1>6 DEF GetWeightA, Begin
  <2> QED BY <1>1, <1>2, <1>3, <1>4, <1>6, <2>1, BeginOnA
<1>7. CASE GetWeightB /\ UNCHANGED <<chipGain, unit>>
  <2>1. call' = Call("weightB", ReadsOfB(Times, gain)) /\ result' = Nothing
    BY <1>7 DEF GetWeightB, Begin, ReadsOfB
  <2> QED BY <1>1, <1>2, <1>3, <1>4, <1>7, <2>1, BeginOnB
<1>8. CASE TareA /\ UNCHANGED chipGain
  <2>1. /\ call' = Call("tareA", Reads(TareTimes, gain, TRUE)) /\ result' = Nothing
        /\ unit' = [unit EXCEPT !["A"] = 1]
    BY <1>8 DEF TareA, Begin
  <2> QED BY <1>1, <1>3, <1>4, <1>5, <1>8, <2>1, BeginOnA
<1>9. CASE TareB /\ UNCHANGED chipGain
  <2>1. /\ call' = Call("tareB", ReadsOfB(TareTimes, gain)) /\ result' = Nothing
        /\ unit' = [unit EXCEPT !["B"] = 1]
    BY <1>9 DEF TareB, Begin, ReadsOfB
  <2> QED BY <1>1, <1>3, <1>4, <1>5, <1>9, <2>1, BeginOnB
<1>10. ASSUME NEW g \in Gains, SetGain(g), UNCHANGED <<chipGain, unit>> PROVE HxInv'
  <2>1. call' = Call("setGain", Reads(1, g, FALSE)) /\ result' = Nothing
    BY <1>10 DEF SetGain, Begin
  <2>2. g \in GainSet
    BY HxAssumption DEF GainSet
  <2>3. PICK todo : todo = Reads(1, g, FALSE)
    OBVIOUS
  <2>4. /\ todo \in Seq(ReadSet) /\ Len(todo) = 1
        /\ \A i \in 1..1 : todo[i] = [gain |-> g, keep |-> FALSE]
    BY <2>2, <2>3, ReadsFacts
  <2>5. "setGain" \in Others /\ "setGain" \notin OnA /\ "setGain" \notin OnB
    BY DEF OnA, OnB, Others
  <2>6. call'.op = "setGain" /\ call'.todo = todo /\ call'.got = <<>> /\ call' = Call("setGain", todo)
    BY <2>1, <2>3 DEF Call
  <2>7. \A i \in 1..Len(todo) : ~todo[i].keep
    BY <2>4
  <2>8. Planned'
    BY <2>5, <2>6, <2>7 DEF Planned, PlanOfOthers
  <2> QED BY <1>1, <1>2, <1>10, <2>1, <2>4, <2>5, <2>6, <2>8, BeginInv
<1>11. CASE Reset /\ UNCHANGED unit
  <2>1. PICK op \in {"none", "locked"} : call' = Call(op, <<>>)
    BY <1>11 DEF Reset, Begin, Idle
  <2>2. result' = Nothing /\ chipGain' = 128
    BY <1>11 DEF Reset, Begin
  <2>3. op \in Others /\ op \notin OnA /\ op \notin OnB
    BY <2>1 DEF OnA, OnB, Others
  <2>4. call'.op = op /\ call'.todo = <<>> /\ call'.got = <<>>
    BY <2>1 DEF Call
  <2>5. \A i \in 1..Len(<<>>) : ~(<<>>)[i].keep
    BY EmptySeq
  <2>6. Planned'
    BY <2>3, <2>4, <2>5 DEF Planned, PlanOfOthers
  <2> QED BY <1>1, <1>2, <1>3, <1>11, <2>1, <2>2, <2>3, <2>6, EmptySeq, BeginInv
<1> QED BY <1>6, <1>7, <1>8, <1>9, <1>10, <1>11 DEF Client

LEMMA ReturnInv == HxInv /\ Return => HxInv'
<1> SUFFICES ASSUME HxInv, Return PROVE HxInv'
  OBVIOUS
<1>1. HxTypeOK /\ Planned /\ call.todo = <<>> /\ call' = Idle /\ UNCHANGED <<gain, chipGain, answers, timeouts, sensorOk>>
  BY DEF HxInv, Return
<1>2. call'.op = "none" /\ call'.todo = <<>> /\ call'.got = <<>> /\ call' = [op |-> call'.op, todo |-> call'.todo, got |-> call'.got]
  BY <1>1 DEF Idle, Call
<1>3. "none" \in Others /\ "none" \notin OnA /\ "none" \notin OnB
  BY DEF OnA, OnB, Others
<1>4. Planned'
  <2>1. \A i \in 1..Len(<<>>) : ~(<<>>)[i].keep
    BY EmptySeq
  <2> QED BY <1>2, <1>3, <2>1 DEF Planned, PlanOfOthers
<1>5. Len(call'.got) = 0 /\ DOMAIN call'.got = {}
  BY <1>2
<1>6. GainIsSet' /\ OneStrayReading'
  BY <1>5 DEF GainIsSet, Answered, OneStrayReading
<1>7. \/ /\ call.op \in {"weightA", "weightB"} /\ unit' = unit
         /\ result' = [op |-> call.op, got |-> call.got, value |-> Median(call.got)]
      \/ /\ call.op \in {"tareA", "tareB"} /\ unit' = [unit EXCEPT ![Channel(call.op)] = Unit]
         /\ result' = [op |-> call.op, got |-> call.got, value |-> Average(call.got)]
      \/ result' = Nothing /\ unit' = unit
  BY DEF Return
<1>8. HxTypeOK'
  <2>1. unit' \in [{"A", "B"} -> {1, Unit}]
    BY <1>1, <1>7 DEF HxTypeOK
  <2>2. result'.got = call.got \/ result'.got = <<>>
    BY <1>7 DEF Nothing
  <2>3. result'.got \in Seq(Reading)
    BY <1>1, <2>2, EmptySeq DEF HxTypeOK
  <2> QED BY <1>1, <1>2, <1>3, <2>1, <2>3, EmptySeq DEF HxTypeOK
<1>9. Computed'
  <2>1. CASE call.op \in {"weightA", "weightB"} /\ result' = [op |-> call.op, got |-> call.got, value |-> Median(call.got)]
    BY <2>1 DEF Computed
  <2>2. CASE call.op \in {"tareA", "tareB"} /\ result' = [op |-> call.op, got |-> call.got, value |-> Average(call.got)]
    <3>1. Len(call.todo) = 0
      BY <1>1, EmptySeq
    <3>2. TimesOf(call.op) = TareTimes
      BY <2>2 DEF TimesOf
    <3>3. Len(call.got) = TareTimes
      <4>1. CASE call.op \in OnA
        <5>1. Len(call.got) + 0 = TareTimes /\ Len(call.got) \in Nat
          BY <1>1, <3>1, <3>2, <4>1 DEF Planned, PlanOnA, HxTypeOK
        <5> QED BY <5>1
      <4>2. CASE call.op \in OnB
        BY <1>1, <3>1, <3>2, <4>2 DEF Planned, PlanOnB
      <4>3. call.op \in OnA \/ call.op \in OnB
        BY <2>2 DEF OnA, OnB
      <4> QED BY <4>1, <4>2, <4>3
    <3>4. /\ result'.op \notin {"weightA", "weightB"}
          /\ result'.value = Average(result'.got) /\ Len(result'.got) = TareTimes
      BY <2>2, <3>3
    <3> QED BY <3>4 DEF Computed
  <2>3. CASE result' = Nothing
    BY <2>3 DEF Computed, Nothing
  <2> QED BY <1>7, <2>1, <2>2, <2>3
<1> QED BY <1>4, <1>6, <1>8, <1>9 DEF HxInv

LEMMA StepInv == HxInv /\ [Next]_vars => HxInv'
<1> SUFFICES ASSUME HxInv, [Next]_vars PROVE HxInv'
  OBVIOUS
<1>1. ASSUME UNCHANGED <<gain, chipGain, timeouts, sensorOk, unit, call, result>>, answers' \in BOOLEAN
      PROVE  HxInv'
  <2>1. HxTypeOK'
    BY <1>1 DEF HxInv, HxTypeOK
  <2>2. Planned'
    <3>1. Planned /\ call' = call /\ gain' = gain
      BY <1>1 DEF HxInv
    <3>2. PlanOnA(call) => PlanOnA(call)'
      BY <3>1 DEF PlanOnA
    <3>3. \A home \in GainSet : PlanOnB(call, home) => PlanOnB(call, home)'
      BY <3>1 DEF PlanOnB
    <3>4. PlanOfOthers(call) => PlanOfOthers(call)'
      BY <3>1 DEF PlanOfOthers
    <3> QED BY <3>1, <3>2, <3>3, <3>4 DEF Planned
  <2>3. GainIsSet'
    BY <1>1 DEF HxInv, GainIsSet, WantedGain
  <2>4. OneStrayReading'
    BY <1>1 DEF HxInv, OneStrayReading, WantedGain
  <2>5. Computed'
    BY <1>1 DEF HxInv, Computed
  <2> QED BY <2>1, <2>2, <2>3, <2>4, <2>5 DEF HxInv
<1>2. ASSUME ChipChanges PROVE HxInv'
  BY <1>1, <1>2 DEF ChipChanges
<1>3. ASSUME UNCHANGED vars PROVE HxInv'
  BY <1>1, <1>3 DEF vars, HxInv, HxTypeOK
<1> QED BY <1>2, <1>3, ClientInv, ReadInv, ReturnInv DEF Next

\* The invariant the results rest on: what a call has read and has still to
\* read, the gain the chip has once it answered, what a result was computed of.
THEOREM HxInvHolds == Spec => []HxInv
<1>1. Init => HxInv
  BY InitInv
<1>2. HxInv /\ [Next]_vars => HxInv'
  BY StepInv
<1> QED BY <1>1, <1>2, PTL DEF Spec

\* get_weight_A() and get_weight_B(): the median (read_median()) lies between
\* two values that were measured on the channel, as long as more than half of
\* the reads were answered with its gain: no stray and no time-out gets through.
THEOREM WeightIsOneMeasured == Spec => []WeightIsMeasured
<1>1. HxInv => WeightIsMeasured
  <2> SUFFICES ASSUME HxInv, result.op \in {"weightA", "weightB"},
                      2 * Cardinality(Good(result)) > Len(result.got)
               PROVE  IsWithin(result, result.value, 2)
    BY DEF WeightIsMeasured
  <2>1. result.value = Median(result.got) /\ result.got \in Seq(Reading)
    BY DEF HxInv, HxTypeOK, Computed
  <2>2. IsWithin(result, Median(result.got), 2)
    BY <2>1, MedianIsWithin
  <2> QED BY <2>1, <2>2
<1> QED BY <1>1, HxInvHolds, PTL

\* tare_A() and tare_B(): the zero point (read_average()) lies between two
\* values that were measured on the channel, as long as no more reads are
\* strays or time-outs than are trimmed and the sum is not negative.
THEOREM TareIsOneMeasured == Spec => []TareIsMeasured
<1>1. HxInv => TareIsMeasured
  <2> SUFFICES ASSUME HxInv, result.op \in {"tareA", "tareB"},
                      Len(result.got) - Cardinality(Good(result)) <= Trim(Len(result.got)),
                      SumOf(KeptValues(result.got)) >= 0
               PROVE  IsWithin(result, result.value, 1)
    BY DEF TareIsMeasured
  <2>1. result.value = Average(result.got) /\ result.got \in Seq(Reading) /\ Len(result.got) = TareTimes
    BY DEF HxInv, HxTypeOK, Computed
  <2>2. FairTare(result)
    BY <2>1 DEF FairTare
  <2>3. IsWithin(result, Average(result.got), 1)
    BY <2>2, AverageIsWithin
  <2> QED BY <2>1, <2>3
<1> QED BY <1>1, HxInvHolds, PTL

\* set_gain() and read(): once a read of a call was answered, no later value of
\* the call is of another gain or channel, whichever reads time out between.
THEOREM AtMostOneStray == Spec => []OneStrayReading
<1>1. HxInv => OneStrayReading
  BY DEF HxInv
<1> QED BY <1>1, HxInvHolds, PTL

=============================================================================
