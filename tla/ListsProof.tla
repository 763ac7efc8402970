------------------------------ MODULE ListsProof ------------------------------
(***************************************************************************)
(* What the sorts, the statistics and the reports of both tools do, for    *)
(* lists of any length and any numbers.  There is no induction theorem that*)
(* the provers can instantiate; it is had from the well-foundedness of the *)
(* strict subsets of a segment (Induction), and with it recursive functions*)
(* exist (Recursion), sorts are sorted step by step and totals are bounded.*)
(***************************************************************************)
EXTENDS CleanupOrder, Stats, Report, SequencesExt, FiniteSetTheorems, TLAPS
-----------------------------------------------------------------------------
(***************************************************************************)
(* Induction and recursion                                                 *)
(***************************************************************************)

\* Induction on the naturals, for a set instead of an operator: the segment below
\* a least counterexample would be a least one of its kind (FS_StrictSubsetOrdering).
LEMMA Induction ==
  ASSUME NEW D, 0 \in D, \A n \in Nat : n \in D => n + 1 \in D
  PROVE  Nat \subseteq D
<1> SUFFICES ASSUME NEW n \in Nat, n \notin D PROVE FALSE
  OBVIOUS
<1> DEFINE T == {S \in SUBSET (0 .. n) : \E k \in 0 .. n : k \notin D /\ S = 0 .. k}
<1>1. T \subseteq FiniteSubsetsOf(0 .. n) /\ T # {}
  <2>1. IsFiniteSet(0 .. n)
    BY FS_Interval
  <2>2. \A S \in SUBSET (0 .. n) : IsFiniteSet(S)
    BY <2>1, FS_Subset
  <2>3. 0 .. n \in T
    OBVIOUS
  <2> QED
    BY <2>2, <2>3 DEF FiniteSubsetsOf
<1>2. PICK S \in T : \A U \in T : <<U, S>> \notin StrictSubsetOrdering(0 .. n)
  BY <1>1, FS_StrictSubsetOrderingWellFounded, WFMin
<1>3. PICK k \in 0 .. n : k \notin D /\ S = 0 .. k
  BY <1>2
<1>4. k # 0 /\ k - 1 \in 0 .. n /\ k - 1 \notin D
  <2>1. k \in Nat
    OBVIOUS
  <2>2. k # 0
    BY <1>3
  <2>3. k - 1 \in Nat /\ (k - 1) + 1 = k
    BY <2>1, <2>2
  <2> QED
    BY <1>3, <2>2, <2>3
<1>5. 0 .. k - 1 \in T
  BY <1>4
<1>6. 0 .. k - 1 \subseteq 0 .. k /\ 0 .. k - 1 # 0 .. k
  <2>1. k \in 0 .. k /\ k \notin 0 .. k - 1
    OBVIOUS
  <2> QED
    BY <2>1
<1>7. <<0 .. k - 1, S>> \in StrictSubsetOrdering(0 .. n)
  BY <1>3, <1>4, <1>6 DEF StrictSubsetOrdering
<1> QED
  BY <1>2, <1>5, <1>7

\* The same up to m.
LEMMA InductionUpTo ==
  ASSUME NEW m \in Nat, NEW D, 0 \in D, \A k \in 1 .. m : k - 1 \in D => k \in D
  PROVE  \A k \in 0 .. m : k \in D
<1> DEFINE E == {k \in Nat : k <= m => k \in D}
<1>1. 0 \in E
  OBVIOUS
<1>2. \A k \in Nat : k \in E => k + 1 \in E
  <2> SUFFICES ASSUME NEW k \in Nat, k \in E, k + 1 <= m PROVE k + 1 \in D
    OBVIOUS
  <2>1. k + 1 \in 1 .. m /\ (k + 1) - 1 = k /\ k <= m
    OBVIOUS
  <2> QED
    BY <2>1
<1> HIDE DEF E
<1>3. Nat \subseteq E
  BY <1>1, <1>2, Induction
<1> QED
  BY <1>3 DEF E

\* g is made step by step: next[k] makes g[k] of g[k - 1].
IsRecursion(g, m, S, a, next) ==
  g \in [0 .. m -> S] /\ g[0] = a /\ \A k \in 1 .. m : g[k] = next[k][g[k - 1]]

\* There is a function that obeys its recursive definition, so that the CHOOSE
\* behind such a definition chooses one.
LEMMA Recursion ==
  ASSUME NEW m \in Nat, NEW S, NEW a \in S, NEW next \in [1 .. m -> [S -> S]]
  PROVE  \E g : IsRecursion(g, m, S, a, next)
<1> DEFINE Meets(g, n) == g[0] = a /\ \A k \in 1 .. n : g[k] = next[k][g[k - 1]]
           D == {n \in 0 .. m : \E g \in [0 .. n -> S] : Meets(g, n)}
<1>1. 0 \in D
  <2> DEFINE g == [k \in 0 .. 0 |-> a]
  <2>1. g \in [0 .. 0 -> S] /\ Meets(g, 0) /\ 0 \in 0 .. m
    OBVIOUS
  <2> HIDE DEF g, Meets
  <2> QED
    BY <2>1
<1>2. ASSUME NEW n \in 1 .. m, n - 1 \in D PROVE n \in D
  <2>1. PICK g \in [0 .. n - 1 -> S] : Meets(g, n - 1)
    BY <1>2
  <2> DEFINE h == [k \in 0 .. n |-> IF k = n THEN next[n][g[n - 1]] ELSE g[k]]
  <2>2. n - 1 \in 0 .. n - 1 /\ g[n - 1] \in S /\ next[n][g[n - 1]] \in S
    OBVIOUS
  <2>3. \A k \in 0 .. n : k # n => k \in 0 .. n - 1
    OBVIOUS
  <2>4. h \in [0 .. n -> S]
    BY <2>2, <2>3
  <2>5. h[0] = a
    BY <2>1, <2>3
  <2>6. ASSUME NEW k \in 1 .. n PROVE h[k] = next[k][h[k - 1]]
    <3>1. k - 1 \in 0 .. n /\ k - 1 # n /\ h[k - 1] = g[k - 1]
      OBVIOUS
    <3>2. CASE k = n
      BY <3>1, <3>2
    <3>3. CASE k # n
      <4>1. k \in 1 .. n - 1 /\ h[k] = g[k]
        BY <3>3
      <4> QED
        BY <4>1, <3>1, <2>1
    <3> QED
      BY <3>2, <3>3
  <2> HIDE DEF h
  <2>7. Meets(h, n)
    BY <2>5, <2>6
  <2>8. n \in 0 .. m
    OBVIOUS
  <2> QED
    BY <2>4, <2>7, <2>8
<1>3. m \in 0 .. m
  OBVIOUS
<1> HIDE DEF D
<1>4. \A n \in 0 .. m : n \in D
  BY <1>1, <1>2, InductionUpTo
<1> QED
  BY <1>3, <1>4 DEF D, IsRecursion

\* Quotient and remainder are the only ones.
LEMMA DivisionIsUnique ==
  ASSUME NEW n \in Nat \ {0}, NEW q \in Nat, NEW r \in 0 .. n - 1
  PROVE  (q * n + r) \div n = q /\ (q * n + r) % n = r
<1> DEFINE y == q * n + r
           k == y \div n
<1>1. y \in Nat /\ k \in Int /\ q * n \in Nat
  OBVIOUS
<1>2. k * n <= y /\ y < (k + 1) * n /\ y % n = y - k * n
  BY <1>1
<1>3. k = q
  BY <1>1, <1>2
<1> QED
  BY <1>1, <1>2, <1>3
-----------------------------------------------------------------------------
(***************************************************************************)
(* The position of a percentile                                            *)
(***************************************************************************)

\* Rounding up by division: for a positive product x, q + 1 is the least number
\* whose hundredfold reaches x.
LEMMA Quotient ==
  ASSUME NEW x \in Nat, x > 0
  PROVE  \E q \in Nat, r \in 1 .. 100 : x = 100 * q + r
<1> DEFINE q == (x - 1) \div 100
           r == ((x - 1) % 100) + 1
<1>1. q \in Nat /\ r \in 1 .. 100
  OBVIOUS
<1>2. x = 100 * q + r
  OBVIOUS
<1> QED
  BY <1>1, <1>2

\* Go's rounding up: the summand 1 - 1/Guard carries over exactly when there is
\* a remainder of at least one hundredth.
LEMMA GoCeiling ==
  ASSUME NEW q \in Nat, NEW r \in 1 .. 100
  PROVE  ((100 * q + r) * Guard + 100 * Guard - 100) \div (100 * Guard) = q + 1
<1> DEFINE d == 100 * Guard
           rest == r * Guard - 100
<1>1. Guard \in Nat /\ Guard >= 100
  BY GuardAssumption
<1>2. r * Guard >= Guard /\ r * Guard <= 100 * Guard
  <2>1. PICK k \in 0 .. 99 : r = 1 + k
    <3>1. r - 1 \in 0 .. 99 /\ r = 1 + (r - 1)
      OBVIOUS
    <3> QED
      BY <3>1
  <2>2. r * Guard = Guard + k * Guard /\ k * Guard >= 0 /\ (99 - k) * Guard >= 0
    BY <1>1, <2>1
  <2> QED
    BY <1>1, <2>1, <2>2
<1>3. rest \in Int /\ 0 <= rest /\ rest < d
  BY <1>1, <1>2
<1>4. (100 * q + r) * Guard + 100 * Guard - 100 = (q + 1) * d + rest
  BY <1>1
<1>5. d \in Nat /\ d > 0
  BY <1>1
<1>6. ((q + 1) * d + rest) \div d = q + 1
  <2> HIDE DEF d, rest
  <2> DEFINE y == (q + 1) * d + rest
             k == y \div d
  <2>1. y \in Int /\ k \in Int
    BY <1>3, <1>5
  <2>2. k * d <= y /\ y < (k + 1) * d
    BY <2>1, <1>3, <1>5
  <2> QED
    BY <2>1, <2>2, <1>3, <1>5
<1> QED
  BY <1>4, <1>6

\* Math.ceil of x hundredths.
LEMMA TsCeiling ==
  ASSUME NEW q \in Nat, NEW r \in 1 .. 100
  PROVE  -((-(100 * q + r)) \div 100) = q + 1
OBVIOUS

\* For every sample size and every ratio, both tools take the same sample, the
\* one at the nearest rank (util.go 64-76, util.ts 35-42): 0.999999999 is as
\* good as a ceiling, and neither clamp is ever needed.
THEOREM IndexIsNearestRank ==
  ASSUME NEW n \in Nat \ {0}, NEW ratio \in 1 .. 100
  PROVE  /\ GoIndex(n, ratio) = TsIndex(n, ratio)
         /\ IsNearestRank(GoIndex(n, ratio) + 1, n, ratio)
<1> DEFINE x == n * ratio
<1>1. x \in Nat /\ x > 0 /\ x <= 100 * n
  <2>1. x = n + n * (ratio - 1) /\ n * (ratio - 1) >= 0 /\ n * (100 - ratio) >= 0
    OBVIOUS
  <2> QED
    BY <2>1
<1>2. PICK q \in Nat, r \in 1 .. 100 : x = 100 * q + r
  BY <1>1, Quotient
<1>3. q \in 0 .. n - 1
  BY <1>1, <1>2
<1>4. GoIndex(n, ratio) = q
  <2>1. (x * Guard + 100 * Guard - 100) \div (100 * Guard) = q + 1
    BY <1>2, GoCeiling
  <2>2. GoIndex(n, ratio) = Clamp(n, q + 1 - 1)
    BY <2>1 DEF GoIndex
  <2> QED
    BY <2>2, <1>3 DEF Clamp
<1>5. TsIndex(n, ratio) = q
  <2>1. -((-x) \div 100) = q + 1
    BY <1>2, TsCeiling
  <2>2. TsIndex(n, ratio) = Clamp(n, q + 1 - 1)
    BY <2>1 DEF TsIndex
  <2> QED
    BY <2>2, <1>3 DEF Clamp
<1>6. IsNearestRank(q + 1, n, ratio)
  <2> HIDE DEF x
  <2>1. q + 1 \in 1 .. n /\ (q + 1) * 100 >= x
    BY <1>2, <1>3
  <2>2. \A k \in 1 .. n : k * 100 >= x => k >= q + 1
    BY <1>2
  <2> QED
    BY <2>1, <2>2 DEF IsNearestRank, x
<1> QED
  BY <1>4, <1>5, <1>6
-----------------------------------------------------------------------------
(***************************************************************************)
(* Sorting                                                                 *)
(***************************************************************************)

\* The positions of a list.
LEMMA Segment ==
  ASSUME NEW n \in Nat
  PROVE  1 .. n \in SUBSET Int /\ IsFiniteSet(1 .. n) /\ Cardinality(1 .. n) = n
<1>1. IsFiniteSet(1 .. n) /\ Cardinality(1 .. n) = IF 1 > n THEN 0 ELSE n - 1 + 1
  BY FS_Interval
<1>2. (IF 1 > n THEN 0 ELSE n - 1 + 1) = n
  OBVIOUS
<1> QED
  BY <1>1, <1>2

\* Those that Place counts.
Upto(S, key, p) == {q \in S : q = p \/ Precedes(key, q, p)}

\* What comes first has the smaller place.
LEMMA PlaceIncreases ==
  ASSUME NEW S \in SUBSET Int, IsFiniteSet(S), NEW key, \A p \in S : key[p] \in Int,
         NEW p \in S, NEW q \in S, Precedes(key, p, q)
  PROVE  /\ Place(S, key, p) \in 1 .. Cardinality(S)
         /\ Place(S, key, q) \in 1 .. Cardinality(S)
         /\ Place(S, key, p) < Place(S, key, q)
<1>1. /\ Upto(S, key, p) \subseteq Upto(S, key, q)
      /\ q \in Upto(S, key, q) \ Upto(S, key, p)
      /\ p \in Upto(S, key, p)
  <2>1. ASSUME NEW r \in S, r = p \/ Precedes(key, r, p)
        PROVE  Precedes(key, r, q) /\ r # q
    <3>1. r \in Int /\ p \in Int /\ q \in Int
          /\ key[r] \in Int /\ key[p] \in Int /\ key[q] \in Int
      OBVIOUS
    <3> QED
      BY <2>1, <3>1 DEF Precedes
  <2> QED
    BY <2>1 DEF Upto
<1>2. Upto(S, key, p) \subseteq S /\ Upto(S, key, q) \subseteq S
  BY DEF Upto
<1>3. IsFiniteSet(Upto(S, key, p)) /\ IsFiniteSet(Upto(S, key, q))
  BY <1>2, FS_Subset
<1>4. Cardinality(Upto(S, key, p)) < Cardinality(Upto(S, key, q))
  <2>1. /\ Cardinality(Upto(S, key, p)) <= Cardinality(Upto(S, key, q))
        /\ Cardinality(Upto(S, key, q)) # Cardinality(Upto(S, key, p))
    BY <1>1, <1>3, FS_Subset
  <2>2. Cardinality(Upto(S, key, p)) \in Nat /\ Cardinality(Upto(S, key, q)) \in Nat
    BY <1>3, FS_CardinalityType
  <2> QED
    BY <2>1, <2>2
<1>5. Cardinality(Upto(S, key, p)) \in Nat /\ Cardinality(Upto(S, key, p)) # 0
  BY <1>1, <1>3, FS_CardinalityType, FS_EmptySet
<1>6. Cardinality(Upto(S, key, q)) \in Nat /\ Cardinality(Upto(S, key, q)) <= Cardinality(S)
  BY <1>2, <1>3, FS_CardinalityType, FS_Subset
<1>7. Cardinality(S) \in Nat
  BY FS_CardinalityType
<1> QED
  BY <1>4, <1>5, <1>6, <1>7 DEF Place, Upto

\* A place is a position of the sorted list.
LEMMA PlaceType ==
  ASSUME NEW S \in SUBSET Int, IsFiniteSet(S), NEW key, NEW p \in S
  PROVE  Place(S, key, p) \in 1 .. Cardinality(S)
<1>1. p \in Upto(S, key, p) /\ Upto(S, key, p) \subseteq S
  BY DEF Upto
<1>2. IsFiniteSet(Upto(S, key, p)) /\ Cardinality(Upto(S, key, p)) <= Cardinality(S)
  BY <1>1, FS_Subset
<1>3. Cardinality(Upto(S, key, p)) \in Nat /\ Cardinality(Upto(S, key, p)) # 0
  BY <1>1, <1>2, FS_CardinalityType, FS_EmptySet
<1>4. Cardinality(S) \in Nat
  BY FS_CardinalityType
<1> QED
  BY <1>2, <1>3, <1>4 DEF Place, Upto

\* StableSort lists every position once, and in order.
LEMMA StableSortSorts ==
  ASSUME NEW S \in SUBSET Int, IsFiniteSet(S), NEW key, \A p \in S : key[p] \in Int
  PROVE  LET order == StableSort(S, key)
         IN  /\ order \in [1 .. Cardinality(S) -> S]
             /\ \A p \in S : \E r \in 1 .. Cardinality(S) : order[r] = p
             /\ \A i, j \in 1 .. Cardinality(S) :
                  i < j => Precedes(key, order[i], order[j])
<1> DEFINE n == Cardinality(S)
           place == [p \in S |-> Place(S, key, p)]
           order == StableSort(S, key)
<1>1. n \in Nat
  BY FS_CardinalityType
<1>2. \A p, q \in S : p # q => Precedes(key, p, q) \/ Precedes(key, q, p)
  BY DEF Precedes
<1>3. \A p, q \in S : Place(S, key, p) = Place(S, key, q) => p = q
  <2> SUFFICES ASSUME NEW p \in S, NEW q \in S, p # q
               PROVE  Place(S, key, p) # Place(S, key, q)
    OBVIOUS
  <2>1. Place(S, key, p) \in 1 .. n /\ Place(S, key, q) \in 1 .. n
    BY PlaceType
  <2>2. CASE Precedes(key, p, q)
    <3>1. Place(S, key, p) < Place(S, key, q)
      BY <2>2, PlaceIncreases
    <3> QED
      BY <2>1, <3>1
  <2>3. CASE Precedes(key, q, p)
    <3>1. Place(S, key, q) < Place(S, key, p)
      BY <2>3, PlaceIncreases
    <3> QED
      BY <2>1, <3>1
  <2> QED
    BY <1>2, <2>2, <2>3
<1>4. place \in Surjection(S, 1 .. n)
  <2>1. place \in [S -> 1 .. n]
    BY PlaceType
  <2>2. place \in Injection(S, 1 .. n)
    BY <2>1, <1>3 DEF Injection, IsInjective
  <2>3. IsFiniteSet(1 .. n) /\ Cardinality(1 .. n) = n
    BY <1>1, FS_Interval
  <2> QED
    BY <2>2, <2>3, FS_Injection
<1>5. \A r \in 1 .. n : order[r] \in S /\ Place(S, key, order[r]) = r
  <2> SUFFICES ASSUME NEW r \in 1 .. n
               PROVE  order[r] \in S /\ Place(S, key, order[r]) = r
    OBVIOUS
  <2>1. \E p \in S : Place(S, key, p) = r
    BY <1>4 DEF Surjection
  <2>2. order[r] = CHOOSE p \in S : Place(S, key, p) = r
    BY DEF StableSort
  <2> QED
    BY <2>1, <2>2
<1>6. order \in [1 .. n -> S]
  <2>1. DOMAIN order = 1 .. n /\ order = [r \in 1 .. n |-> order[r]]
    BY DEF StableSort
  <2> HIDE DEF order
  <2> QED
    BY <1>5, <2>1
<1>7. \A p \in S : \E r \in 1 .. n : order[r] = p
  <2> SUFFICES ASSUME NEW p \in S PROVE \E r \in 1 .. n : order[r] = p
    OBVIOUS
  <2>1. Place(S, key, p) \in 1 .. n
    BY PlaceType
  <2>2. order[Place(S, key, p)] = p
    BY <2>1, <1>5, <1>3
  <2> QED
    BY <2>1, <2>2
<1>8. \A i, j \in 1 .. n : i < j => Precedes(key, order[i], order[j])
  <2> SUFFICES ASSUME NEW i \in 1 .. n, NEW j \in 1 .. n, i < j
               PROVE  Precedes(key, order[i], order[j])
    OBVIOUS
  <2>1. order[i] \in S /\ order[j] \in S /\ order[i] # order[j]
    BY <1>1, <1>5
  <2>2. ASSUME Precedes(key, order[j], order[i]) PROVE FALSE
    <3>1. Place(S, key, order[j]) < Place(S, key, order[i])
      BY <2>1, <2>2, PlaceIncreases
    <3> QED
      BY <3>1, <1>5, <1>1
  <2> QED
    BY <2>1, <2>2, <1>2
<1> QED
  BY <1>6, <1>7, <1>8

\* The same for all positions of a list.
LEMMA StableSortOfList ==
  ASSUME NEW n \in Nat, NEW key, \A p \in 1 .. n : key[p] \in Int
  PROVE  LET order == StableSort(1 .. n, key)
         IN  /\ order \in [1 .. n -> 1 .. n]
             /\ \A p \in 1 .. n : \E r \in 1 .. n : order[r] = p
             /\ \A i, j \in 1 .. n : i < j => Precedes(key, order[i], order[j])
<1> DEFINE S == 1 .. n
           order == StableSort(S, key)
<1>1. S \in SUBSET Int /\ IsFiniteSet(S) /\ Cardinality(S) = n
  BY Segment
<1>2. \A p \in S : key[p] \in Int
  OBVIOUS
<1> HIDE DEF S
<1>3. /\ order \in [1 .. Cardinality(S) -> S]
      /\ \A p \in S : \E r \in 1 .. Cardinality(S) : order[r] = p
      /\ \A i, j \in 1 .. Cardinality(S) : i < j => Precedes(key, order[i], order[j])
  BY <1>1, <1>2, StableSortSorts
<1> HIDE DEF order
<1>4. /\ order \in [1 .. n -> S]
      /\ \A p \in S : \E r \in 1 .. n : order[r] = p
      /\ \A i, j \in 1 .. n : i < j => Precedes(key, order[i], order[j])
  BY <1>1, <1>3
<1> QED
  BY <1>4 DEF S, order

\* Ascending lists every position once, the smallest first.
LEMMA AscendingLists ==
  ASSUME NEW S \in SUBSET Int, IsFiniteSet(S)
  PROVE  LET order == Ascending(S)
         IN  /\ order \in [1 .. Cardinality(S) -> S]
             /\ \A p \in S : \E r \in 1 .. Cardinality(S) : order[r] = p
             /\ \A i, j \in 1 .. Cardinality(S) : i < j => order[i] < order[j]
<1> DEFINE key == [p \in S |-> p]
           order == StableSort(S, key)
<1>1. /\ order \in [1 .. Cardinality(S) -> S]
      /\ \A p \in S : \E r \in 1 .. Cardinality(S) : order[r] = p
      /\ \A i, j \in 1 .. Cardinality(S) : i < j => Precedes(key, order[i], order[j])
  <2>1. \A p \in S : key[p] \in Int
    OBVIOUS
  <2> HIDE DEF key
  <2> QED
    BY <2>1, StableSortSorts
<1>2. Ascending(S) = order
  BY DEF Ascending
<1>3. \A p, q \in S : Precedes(key, p, q) => p < q
  BY DEF Precedes
<1> HIDE DEF order
<1>4. \A i, j \in 1 .. Cardinality(S) : i < j => order[i] < order[j]
  BY <1>1, <1>3
<1> QED
  BY <1>1, <1>2, <1>4

\* CleanupRun of provision.ts: every bucket once, the deepest first, and in the
\* order of creation among those of one depth (provision.ts 136).
LEMMA StableOrderSorts ==
  ASSUME NEW depths \in Seq(Int)
  PROVE  LET stable == StableOrder(depths)
         IN  /\ IsRemovalOrder(depths, stable)
             /\ stable \in [1 .. Len(depths) -> 1 .. Len(depths)]
             /\ \A k, m \in DOMAIN stable :
                  k < m /\ depths[stable[k]] = depths[stable[m]] => stable[k] < stable[m]
<1> DEFINE n == Len(depths)
           key == [k \in DOMAIN depths |-> -depths[k]]
           order == StableSort(1 .. n, key)
<1>1. n \in Nat /\ DOMAIN depths = 1 .. n /\ \A k \in 1 .. n : depths[k] \in Int
  OBVIOUS
<1>2. 1 .. n \in SUBSET Int /\ IsFiniteSet(1 .. n) /\ Cardinality(1 .. n) = n
  BY <1>1, Segment
<1>3. /\ order \in [1 .. n -> 1 .. n]
      /\ \A p \in 1 .. n : \E r \in 1 .. n : order[r] = p
      /\ \A i, j \in 1 .. n : i < j => Precedes(key, order[i], order[j])
  <2>1. \A p \in 1 .. n : key[p] \in Int
    BY <1>1
  <2> HIDE DEF key, n
  <2> QED
    BY <1>1, <2>1, StableSortOfList
<1>4. \A p, q \in 1 .. n : Precedes(key, p, q) =>
        depths[p] > depths[q] \/ (depths[p] = depths[q] /\ p < q)
  <2> SUFFICES ASSUME NEW p \in 1 .. n, NEW q \in 1 .. n, Precedes(key, p, q)
               PROVE  depths[p] > depths[q] \/ (depths[p] = depths[q] /\ p < q)
    OBVIOUS
  <2>1. key[p] = -depths[p] /\ key[q] = -depths[q] /\ depths[p] \in Int /\ depths[q] \in Int
    BY <1>1
  <2> HIDE DEF key
  <2> QED
    BY <2>1 DEF Precedes
<1>5. StableOrder(depths) = order
  BY <1>1 DEF StableOrder
<1> HIDE DEF order, key, n
<1>6. \A i, j \in 1 .. n : i < j =>
        \/ depths[order[i]] > depths[order[j]]
        \/ depths[order[i]] = depths[order[j]] /\ order[i] < order[j]
  BY <1>3, <1>4
<1>7. IsRemovalOrder(depths, order)
  <2>1. \A k, m \in 1 .. n : k < m => depths[order[k]] >= depths[order[m]]
    <3> SUFFICES ASSUME NEW k \in 1 .. n, NEW m \in 1 .. n, k < m
                 PROVE  depths[order[k]] >= depths[order[m]]
      OBVIOUS
    <3>1. depths[order[k]] \in Int /\ depths[order[m]] \in Int
      BY <1>1, <1>3
    <3> QED
      BY <3>1, <1>6
  <2>2. DOMAIN order = 1 .. n
    BY <1>3
  <2> QED
    BY <1>1, <1>3, <2>1, <2>2 DEF IsRemovalOrder
<1>8. \A k, m \in 1 .. n :
        k < m /\ depths[order[k]] = depths[order[m]] => order[k] < order[m]
  <2> SUFFICES ASSUME NEW k \in 1 .. n, NEW m \in 1 .. n, k < m,
                      depths[order[k]] = depths[order[m]]
               PROVE  order[k] < order[m]
    OBVIOUS
  <2>1. depths[order[k]] \in Int /\ depths[order[m]] \in Int
    BY <1>1, <1>3
  <2> QED
    BY <2>1, <1>6
<1>9. DOMAIN order = 1 .. n
  BY <1>3
<1> QED
  BY <1>3, <1>5, <1>7, <1>8, <1>9 DEF n
-----------------------------------------------------------------------------
(***************************************************************************)
(* The exchange sort of Go                                                 *)
(***************************************************************************)

\* The row and the column that one step of the exchange sort compares.
ExchangeRow(n, step) == ((step - 1) \div n) + 1
ExchangeColumn(n, step) == ((step - 1) % n) + 1

\* The steps run through all pairs of a row and a column, row after row.
LEMMA ExchangePairs ==
  ASSUME NEW n \in Nat \ {0}, NEW step \in 1 .. n * n
  PROVE  /\ ExchangeRow(n, step) \in 1 .. n
         /\ ExchangeColumn(n, step) \in 1 .. n
         /\ step = n * n => ExchangeRow(n, step) = n /\ ExchangeColumn(n, step) = n
         /\ step # n * n =>
              IF ExchangeColumn(n, step) = n
              THEN /\ ExchangeRow(n, step + 1) = ExchangeRow(n, step) + 1
                   /\ ExchangeColumn(n, step + 1) = 1
              ELSE /\ ExchangeRow(n, step + 1) = ExchangeRow(n, step)
                   /\ ExchangeColumn(n, step + 1) = ExchangeColumn(n, step) + 1
<1> DEFINE q == (step - 1) \div n
           r == (step - 1) % n
<1>1. step \in Nat /\ step >= 1 /\ step <= n * n
  <2>1. n * n \in Nat
    OBVIOUS
  <2> QED
    BY <2>1
<1>2. q \in Int /\ r \in 0 .. n - 1 /\ step - 1 = q * n + r
  BY <1>1
<1> HIDE DEF q, r
<1>3. q \in 0 .. n - 1
  <2>1. q * n + r < n * n /\ q * n + r >= 0
    BY <1>1, <1>2
  <2>2. q >= 0
    BY <1>2, <2>1
  <2>3. q < n
    BY <1>2, <2>1
  <2> QED
    BY <1>2, <2>2, <2>3
<1>4. ExchangeRow(n, step) = q + 1 /\ ExchangeColumn(n, step) = r + 1
  BY DEF ExchangeRow, ExchangeColumn, q, r
<1>5. ASSUME step = n * n PROVE q = n - 1 /\ r = n - 1
  <2>1. step - 1 = (n - 1) * n + (n - 1)
    BY <1>5
  <2>2. n - 1 \in Nat /\ n - 1 \in 0 .. n - 1
    OBVIOUS
  <2> QED
    BY <2>1, <2>2, DivisionIsUnique DEF q, r
<1>6. ASSUME r # n - 1
      PROVE  ExchangeRow(n, step + 1) = q + 1 /\ ExchangeColumn(n, step + 1) = r + 2
  <2>1. step = q * n + (r + 1) /\ q \in Nat /\ r + 1 \in 0 .. n - 1
    BY <1>1, <1>2, <1>3, <1>6
  <2>2. step \div n = q /\ step % n = r + 1
    BY <2>1, DivisionIsUnique
  <2>3. (step + 1) - 1 = step
    BY <1>1
  <2> QED
    BY <2>2, <2>3, <1>2 DEF ExchangeRow, ExchangeColumn
<1>7. ASSUME r = n - 1
      PROVE  ExchangeRow(n, step + 1) = q + 2 /\ ExchangeColumn(n, step + 1) = 1
  <2>1. step = (q + 1) * n + 0 /\ q + 1 \in Nat /\ 0 \in 0 .. n - 1
    BY <1>1, <1>2, <1>3, <1>7
  <2>2. step \div n = q + 1 /\ step % n = 0
    BY <2>1, DivisionIsUnique
  <2>3. (step + 1) - 1 = step
    BY <1>1
  <2> QED
    BY <2>2, <2>3, <1>3 DEF ExchangeRow, ExchangeColumn
<1> QED
  BY <1>2, <1>3, <1>4, <1>5, <1>6, <1>7

\* The order after a row and a column have been compared.
ExchangeNext(depths, order, a, b) ==
  IF b > a THEN SwapIfDeeper(depths, order, a, b) ELSE order

\* ExchangeOrder is the last of the orders that its steps make.
LEMMA ExchangeRuns ==
  ASSUME NEW depths \in Seq(Int)
  PROVE  LET n == Len(depths)
         IN  \E order \in [0 .. n * n -> [1 .. n -> 1 .. n]] :
               /\ order[0] = Positions(depths)
               /\ \A step \in 1 .. n * n :
                    order[step] = ExchangeNext(depths, order[step - 1],
                                               ExchangeRow(n, step), ExchangeColumn(n, step))
               /\ ExchangeOrder(depths) = order[n * n]
<1> DEFINE n == Len(depths)
           last == n * n
           S == [1 .. n -> 1 .. n]
           next == [step \in 1 .. last |-> [o \in S |->
                      ExchangeNext(depths, o, ExchangeRow(n, step), ExchangeColumn(n, step))]]
<1>1. n \in Nat /\ last \in Nat /\ (n = 0 => last = 0)
  OBVIOUS
<1>2. Positions(depths) \in S
  BY DEF Positions
<1>3. ASSUME NEW o \in S, NEW a \in 1 .. n, NEW b \in 1 .. n
      PROVE  ExchangeNext(depths, o, a, b) \in S
  BY DEF ExchangeNext, SwapIfDeeper
<1>4. next \in [1 .. last -> [S -> S]]
  <2> SUFFICES ASSUME NEW o \in S, NEW step \in 1 .. last
               PROVE  ExchangeNext(depths, o, ExchangeRow(n, step), ExchangeColumn(n, step)) \in S
    OBVIOUS
  <2>1. n # 0
    BY <1>1
  <2>2. ExchangeRow(n, step) \in 1 .. n /\ ExchangeColumn(n, step) \in 1 .. n
    <3> HIDE DEF n
    <3> QED
      BY <1>1, <2>1, ExchangePairs DEF last
  <2> QED
    BY <2>2, <1>3
<1>5. PICK g \in [0 .. last -> S] :
        g[0] = Positions(depths) /\ \A k \in 1 .. last : g[k] = next[k][g[k - 1]]
  <2> DEFINE a == Positions(depths)
  <2>1. last \in Nat /\ a \in S
    BY <1>1, <1>2
  <2> HIDE DEF n, last, S, next, a
  <2>2. PICK g : IsRecursion(g, last, S, a, next)
    BY <2>1, <1>4, Recursion
  <2> QED
    BY <2>2 DEF a, IsRecursion
<1>6. \A k \in 1 .. last :
        g[k] = ExchangeNext(depths, g[k - 1], ExchangeRow(n, k), ExchangeColumn(n, k))
  <2> SUFFICES ASSUME NEW k \in 1 .. last
               PROVE  g[k] = ExchangeNext(depths, g[k - 1], ExchangeRow(n, k), ExchangeColumn(n, k))
    OBVIOUS
  <2>1. k - 1 \in 0 .. last
    BY <1>1
  <2>2. g[k - 1] \in S
    BY <2>1
  <2> QED
    BY <1>5, <2>2
<1> DEFINE i(step) == ((step - 1) \div n) + 1
           j(step) == ((step - 1) % n) + 1
           order[step \in 0 .. last] ==
             IF step = 0 THEN Positions(depths)
             ELSE IF j(step) > i(step)
                  THEN SwapIfDeeper(depths, order[step - 1], i(step), j(step))
                  ELSE order[step - 1]
<1>7. g = [step \in 0 .. last |->
             IF step = 0 THEN Positions(depths)
             ELSE IF j(step) > i(step)
                  THEN SwapIfDeeper(depths, g[step - 1], i(step), j(step))
                  ELSE g[step - 1]]
  <2>1. \A step \in 0 .. last : step # 0 => step \in 1 .. last
    BY <1>1
  <2> QED
    BY <1>5, <1>6, <2>1 DEF ExchangeNext, ExchangeRow, ExchangeColumn
<1>8. order = [step \in 0 .. last |->
             IF step = 0 THEN Positions(depths)
             ELSE IF j(step) > i(step)
                  THEN SwapIfDeeper(depths, order[step - 1], i(step), j(step))
                  ELSE order[step - 1]]
  <2> HIDE DEF n, last, S, next, i, j
  <2> QED
    BY <1>7
<1>9. ExchangeOrder(depths) = order[last]
  BY DEF ExchangeOrder
<1>10. order \in [0 .. last -> S] /\ order[0] = Positions(depths)
         /\ \A step \in 1 .. last :
              order[step] = ExchangeNext(depths, order[step - 1],
                                         ExchangeRow(n, step), ExchangeColumn(n, step))
  <2> DEFINE D == {k \in 0 .. last : order[k] \in S}
  <2>1. 0 \in 0 .. last /\ \A k \in 1 .. last : k \in 0 .. last /\ k # 0 /\ k - 1 \in 0 .. last
    BY <1>1
  <2>2. order[0] = Positions(depths)
    <3> HIDE DEF order, last, i, j
    <3> QED
      BY <1>8, <2>1
  <2>3. \A step \in 1 .. last :
          order[step] = ExchangeNext(depths, order[step - 1],
                                     ExchangeRow(n, step), ExchangeColumn(n, step))
    <3> HIDE DEF order, last
    <3> QED
      BY <1>8, <2>1 DEF ExchangeNext, ExchangeRow, ExchangeColumn
  <2>4. 0 \in D
    <3> HIDE DEF order, last, S
    <3> QED
      BY <1>2, <2>1, <2>2
  <2>5. ASSUME NEW k \in 1 .. last, k - 1 \in D PROVE k \in D
    <3> HIDE DEF order, last, S
    <3>1. order[k - 1] \in S /\ k \in 1 .. last
      BY <2>5
    <3>3. next[k][order[k - 1]] = order[k]
      BY <3>1, <2>3
    <3> HIDE DEF next
    <3> QED
      BY <3>1, <3>3, <1>4, <2>1
  <2>6. \A k \in 0 .. last : k \in D
    <3> HIDE DEF D, last
    <3> QED
      BY <1>1, <2>4, <2>5, InductionUpTo
  <2>7. order = [step \in 0 .. last |-> order[step]]
    <3> HIDE DEF order, last, i, j, n
    <3> QED
      BY <1>8
  <2> HIDE DEF order, last, S
  <2> QED
    BY <2>2, <2>3, <2>6, <2>7
<1>11. \E o \in [0 .. last -> S] :
         /\ o[0] = Positions(depths)
         /\ \A step \in 1 .. last :
              o[step] = ExchangeNext(depths, o[step - 1],
                                     ExchangeRow(n, step), ExchangeColumn(n, step))
         /\ ExchangeOrder(depths) = o[last]
  <2> HIDE DEF order, S, last, n
  <2> QED
    BY <1>9, <1>10
<1> QED
  BY <1>11

\* What is sorted once row a has been compared with the columns up to b.
SortedUpTo(depths, order, n, a, b) ==
  \A k, m \in 1 .. n :
    k < m /\ (k < a \/ (k = a /\ m <= b)) => depths[order[k]] >= depths[order[m]]

\* Every position stands in the order.
Lists(order, n) ==
  order \in [1 .. n -> 1 .. n] /\ \A p \in 1 .. n : \E k \in 1 .. n : order[k] = p

\* A comparison loses no position.
LEMMA ExchangeKeepsPositions ==
  ASSUME NEW depths, NEW n \in Nat, NEW order, Lists(order, n),
         NEW a \in 1 .. n, NEW b \in 1 .. n
  PROVE  Lists(ExchangeNext(depths, order, a, b), n)
<1> DEFINE swapped == [order EXCEPT ![a] = order[b], ![b] = order[a]]
<1>1. Lists(swapped, n)
  <2>1. swapped \in [1 .. n -> 1 .. n]
    BY DEF Lists
  <2>2. ASSUME NEW p \in 1 .. n PROVE \E k \in 1 .. n : swapped[k] = p
    <3>1. PICK k \in 1 .. n : order[k] = p
      BY DEF Lists
    <3>2. CASE k = a
      <4>1. swapped[b] = p
        BY <3>1, <3>2 DEF Lists
      <4> QED
        BY <4>1
    <3>3. CASE k = b
      <4>1. swapped[a] = p
        BY <3>1, <3>3 DEF Lists
      <4> QED
        BY <4>1
    <3>4. CASE k # a /\ k # b
      <4>1. swapped[k] = p
        BY <3>1, <3>4 DEF Lists
      <4> QED
        BY <4>1
    <3> QED
      BY <3>2, <3>3, <3>4
  <2> QED
    BY <2>1, <2>2 DEF Lists
<1>2. ExchangeNext(depths, order, a, b) \in {swapped, order}
  BY DEF ExchangeNext, SwapIfDeeper
<1> QED
  BY <1>1, <1>2

\* What was sorted stays sorted, and the column just compared joins it.
LEMMA ExchangeSortsOn ==
  ASSUME NEW n \in Nat, NEW depths \in [1 .. n -> Int], NEW order, Lists(order, n),
         NEW a \in 1 .. n, NEW b \in 1 .. n, NEW c \in 1 .. n, c = b + 1,
         SortedUpTo(depths, order, n, a, b)
  PROVE  SortedUpTo(depths, ExchangeNext(depths, order, a, c), n, a, c)
<1> DEFINE next == ExchangeNext(depths, order, a, c)
           at(o, k) == depths[o[k]]
<1>1. order \in [1 .. n -> 1 .. n]
  BY DEF Lists
<1>2. \A k \in 1 .. n : at(order, k) \in Int
  BY <1>1
<1>3. \A k, m \in 1 .. n :
        k < m /\ (k < a \/ (k = a /\ m <= b)) => at(order, k) >= at(order, m)
  BY DEF SortedUpTo
<1>4. SUFFICES ASSUME NEW k \in 1 .. n, NEW m \in 1 .. n, k < m,
                      k < a \/ (k = a /\ m <= c)
               PROVE  at(next, k) >= at(next, m)
  BY DEF SortedUpTo
<1>5. k \in Int /\ m \in Int /\ a \in Int /\ b \in Int /\ c \in Int
  OBVIOUS
<1>6. CASE c > a /\ at(order, c) > at(order, a)
  <2>1. next = [order EXCEPT ![a] = order[c], ![c] = order[a]]
    BY <1>6 DEF ExchangeNext, SwapIfDeeper
  <2>2. next[a] = order[c] /\ next[c] = order[a]
        /\ \A i \in 1 .. n : i # a /\ i # c => next[i] = order[i]
    BY <2>1, <1>1, <1>5, <1>6
  <2>3. at(next, a) = at(order, c) /\ at(next, c) = at(order, a)
        /\ \A i \in 1 .. n : i # a /\ i # c => at(next, i) = at(order, i)
    BY <2>2
  <2> HIDE DEF next, at
  <2>4. CASE k < a
    <3>1. at(next, k) = at(order, k)
      BY <2>3, <2>4, <1>5, <1>6
    <3>2. \A i \in {a, c, m} : at(order, k) >= at(order, i)
      BY <1>3, <1>4, <1>5, <1>6, <2>4
    <3>3. at(next, m) \in {at(order, a), at(order, c), at(order, m)}
      BY <2>3
    <3> QED
      BY <3>1, <3>2, <3>3
  <2>5. CASE k = a /\ m = c
    BY <2>3, <2>5, <1>2, <1>6
  <2>6. CASE k = a /\ m # c
    <3>1. m <= b /\ m # a
      BY <1>4, <1>5, <2>6
    <3>2. at(next, m) = at(order, m) /\ at(next, k) = at(order, c)
      BY <3>1, <2>3, <2>6
    <3>3. at(order, a) >= at(order, m)
      BY <3>1, <1>3, <1>4, <2>6
    <3> QED
      BY <3>2, <3>3, <1>2, <1>6
  <2> QED
    BY <1>4, <2>4, <2>5, <2>6
<1>7. CASE ~(c > a /\ at(order, c) > at(order, a))
  <2>1. next = order
    BY <1>7 DEF ExchangeNext, SwapIfDeeper
  <2> HIDE DEF next, at
  <2>2. CASE k = a /\ m = c
    BY <2>1, <2>2, <1>2, <1>4, <1>5, <1>7
  <2>3. CASE ~(k = a /\ m = c)
    <3>1. k < a \/ (k = a /\ m <= b)
      BY <2>3, <1>4, <1>5
    <3> QED
      BY <3>1, <2>1, <1>3, <1>4
  <2> QED
    BY <2>2, <2>3
<1> QED
  BY <1>6, <1>7

\* A row begins where the one before it ended.
LEMMA ExchangeStartsRow ==
  ASSUME NEW n \in Nat, NEW depths, NEW order, NEW a \in 1 .. n, a # n,
         SortedUpTo(depths, order, n, a, n)
  PROVE  SortedUpTo(depths, ExchangeNext(depths, order, a + 1, 1), n, a + 1, 1)
<1>1. ExchangeNext(depths, order, a + 1, 1) = order
  BY DEF ExchangeNext
<1>2. \A k, m \in 1 .. n : k < m /\ (k < a + 1 \/ (k = a + 1 /\ m <= 1)) =>
        k < a \/ (k = a /\ m <= n)
  OBVIOUS
<1> QED
  BY <1>1, <1>2 DEF SortedUpTo

\* CleanupRun of provision.go: every bucket once and the deepest first, although
\* the sort is not stable (provision.go 161-168).
LEMMA ExchangeOrderSorts ==
  ASSUME NEW depths \in Seq(Int)
  PROVE  /\ IsRemovalOrder(depths, ExchangeOrder(depths))
         /\ ExchangeOrder(depths) \in [1 .. Len(depths) -> 1 .. Len(depths)]
<1> DEFINE n == Len(depths)
           last == n * n
<1>1. n \in Nat /\ last \in Nat /\ depths \in [1 .. n -> Int] /\ DOMAIN depths = 1 .. n
  OBVIOUS
<1>2. PICK order \in [0 .. last -> [1 .. n -> 1 .. n]] :
        /\ order[0] = Positions(depths)
        /\ \A step \in 1 .. last :
             order[step] = ExchangeNext(depths, order[step - 1],
                                        ExchangeRow(n, step), ExchangeColumn(n, step))
        /\ ExchangeOrder(depths) = order[last]
  BY ExchangeRuns
<1> HIDE DEF n
<1>3. CASE n = 0
  <2>1. ExchangeOrder(depths) \in [1 .. n -> 1 .. n]
    BY <1>1, <1>2
  <2> QED
    BY <1>1, <1>3, <2>1 DEF IsRemovalOrder, n
<1>4. CASE n # 0
  <2> DEFINE Fine(s) ==
        /\ Lists(order[s], n)
        /\ s # 0 => SortedUpTo(depths, order[s], n, ExchangeRow(n, s), ExchangeColumn(n, s))
      D == {s \in 0 .. last : Fine(s)}
  <2>1. Fine(0)
    <3>1. Lists(Positions(depths), n)
      BY <1>1 DEF Lists, Positions, n
    <3> QED
      BY <3>1, <1>2
  <2>2. ASSUME NEW s \in 1 .. last, Fine(s - 1) PROVE Fine(s)
    <3> DEFINE a == ExchangeRow(n, s)
               b == ExchangeColumn(n, s)
    <3>1. a \in 1 .. n /\ b \in 1 .. n
      BY <1>1, <1>4, ExchangePairs DEF last
    <3>2. order[s] = ExchangeNext(depths, order[s - 1], a, b)
      BY <1>2
    <3>3. Lists(order[s], n)
      BY <1>1, <2>2, <3>1, <3>2, ExchangeKeepsPositions
    <3>4. SortedUpTo(depths, order[s], n, a, b)
      <4>1. CASE s = 1
        <5>1. a = 1 /\ b = 1
          BY <1>1, <1>4, <4>1 DEF ExchangeRow, ExchangeColumn
        <5> QED
          BY <5>1 DEF SortedUpTo
      <4>2. CASE s # 1
        <5> DEFINE t == s - 1
        <5>1. t \in 1 .. last /\ t # last /\ t # 0 /\ t + 1 = s
          BY <1>1, <4>2
        <5>2. SortedUpTo(depths, order[t], n, ExchangeRow(n, t), ExchangeColumn(n, t))
              /\ Lists(order[t], n)
          BY <2>2, <5>1
        <5> HIDE DEF t
        <5>3. ExchangeRow(n, t) \in 1 .. n /\ ExchangeColumn(n, t) \in 1 .. n
          BY <1>1, <1>4, <5>1, ExchangePairs DEF last
        <5>4. IF ExchangeColumn(n, t) = n
              THEN a = ExchangeRow(n, t) + 1 /\ b = 1
              ELSE a = ExchangeRow(n, t) /\ b = ExchangeColumn(n, t) + 1
          BY <1>1, <1>4, <5>1, ExchangePairs DEF last
        <5>5. order[s] = ExchangeNext(depths, order[t], a, b)
          BY <3>2 DEF t
        <5> HIDE DEF a, b, last
        <5>6. CASE ExchangeColumn(n, t) = n
          <6>1. ExchangeRow(n, t) # n
            BY <1>1, <3>1, <5>3, <5>4, <5>6
          <6> QED
            BY <1>1, <5>2, <5>3, <5>4, <5>5, <5>6, <6>1, ExchangeStartsRow
        <5>7. CASE ExchangeColumn(n, t) # n
          BY <1>1, <3>1, <5>2, <5>3, <5>4, <5>5, <5>7, ExchangeSortsOn
        <5> QED
          BY <5>6, <5>7
      <4> QED
        BY <4>1, <4>2
    <3> QED
      BY <3>3, <3>4
  <2>3. Fine(last)
    <3> HIDE DEF Fine, last
    <3>1. 0 \in D /\ \A s \in 1 .. last : s - 1 \in D => s \in D
      BY <1>1, <2>1, <2>2
    <3>2. last \in 0 .. last
      BY <1>1
    <3> HIDE DEF D
    <3>3. last \in D
      BY <1>1, <3>1, <3>2, InductionUpTo
    <3> QED
      BY <3>3 DEF D
  <2>4. last # 0 /\ last \in 1 .. last
    <3>1. last # 0
      BY <1>1, <1>4
    <3> HIDE DEF last
    <3> QED
      BY <1>1, <3>1
  <2>5. ExchangeRow(n, last) = n /\ ExchangeColumn(n, last) = n
    BY <1>1, <1>4, <2>4, ExchangePairs DEF last
  <2>6. \A k, m \in 1 .. n : k < m => depths[order[last][k]] >= depths[order[last][m]]
    <3>1. SortedUpTo(depths, order[last], n, n, n)
      BY <2>3, <2>4, <2>5
    <3> QED
      BY <3>1, <1>1 DEF SortedUpTo
  <2>7. Lists(order[last], n)
    BY <2>3
  <2> HIDE DEF last, Fine
  <2>8. DOMAIN order[last] = 1 .. n
    BY <2>7 DEF Lists
  <2> QED
    BY <1>1, <1>2, <2>6, <2>7, <2>8 DEF IsRemovalOrder, Lists, n
<1> QED
  BY <1>3, <1>4
-----------------------------------------------------------------------------
(***************************************************************************)
(* Statistics                                                              *)
(***************************************************************************)

\* sort.Float64s: a sample's values in ascending order.
LEMMA SortedCopySorts ==
  ASSUME NEW durations \in Seq(Nat)
  PROVE  LET n == Len(durations)
             sorted == SortedCopy(durations)
         IN  \E order \in [1 .. n -> 1 .. n] :
               /\ sorted = [k \in 1 .. n |-> durations[order[k]]]
               /\ sorted \in Seq(Nat) /\ Len(sorted) = n
               /\ \A p \in 1 .. n : \E k \in 1 .. n : order[k] = p
               /\ \A k, m \in 1 .. n : order[k] = order[m] => k = m
               /\ \A k, m \in 1 .. n : k <= m => sorted[k] <= sorted[m]
<1> DEFINE n == Len(durations)
           sorted == SortedCopy(durations)
           order == StableSort(1 .. n, durations)
<1>1. n \in Nat /\ DOMAIN durations = 1 .. n /\ durations \in [1 .. n -> Nat]
  OBVIOUS
<1>2. /\ order \in [1 .. n -> 1 .. n]
      /\ \A p \in 1 .. n : \E r \in 1 .. n : order[r] = p
      /\ \A i, j \in 1 .. n : i < j => Precedes(durations, order[i], order[j])
  <2>1. \A p \in 1 .. n : durations[p] \in Int
    BY <1>1
  <2> HIDE DEF n
  <2> QED
    BY <1>1, <2>1, StableSortOfList
<1>3. sorted = [k \in 1 .. n |-> durations[order[k]]]
  <2>1. DOMAIN order = 1 .. n
    BY <1>2
  <2> QED
    BY <1>1, <2>1 DEF SortedCopy
<1> HIDE DEF n, sorted, order
<1>4. sorted \in [1 .. n -> Nat]
  BY <1>1, <1>2, <1>3
<1>5. sorted \in Seq(Nat) /\ Len(sorted) = n
  BY <1>1, <1>4
<1>6. \A k, m \in 1 .. n : k < m => sorted[k] <= sorted[m] /\ order[k] # order[m]
  <2> SUFFICES ASSUME NEW k \in 1 .. n, NEW m \in 1 .. n, k < m
               PROVE  sorted[k] <= sorted[m] /\ order[k] # order[m]
    OBVIOUS
  <2>1. durations[order[k]] \in Nat /\ durations[order[m]] \in Nat
        /\ order[k] \in Int /\ order[m] \in Int
    <3>1. order[k] \in 1 .. n /\ order[m] \in 1 .. n
      BY <1>2
    <3> QED
      BY <1>1, <3>1
  <2>2. Precedes(durations, order[k], order[m])
    BY <1>2
  <2> QED
    BY <1>3, <2>1, <2>2 DEF Precedes
<1>7. \A k, m \in 1 .. n : k <= m => sorted[k] <= sorted[m]
  <2> SUFFICES ASSUME NEW k \in 1 .. n, NEW m \in 1 .. n, k <= m
               PROVE  sorted[k] <= sorted[m]
    OBVIOUS
  <2>1. sorted[k] \in Nat /\ (k = m \/ k < m)
    BY <1>4
  <2> QED
    BY <1>6, <2>1
<1>8. \A k, m \in 1 .. n : order[k] = order[m] => k = m
  <2> SUFFICES ASSUME NEW k \in 1 .. n, NEW m \in 1 .. n, k # m
               PROVE  order[k] # order[m]
    OBVIOUS
  <2>1. k < m \/ m < k
    OBVIOUS
  <2> QED
    BY <1>6, <2>1
<1>9. \E o \in [1 .. n -> 1 .. n] :
               /\ sorted = [k \in 1 .. n |-> durations[o[k]]]
               /\ sorted \in Seq(Nat) /\ Len(sorted) = n
               /\ \A p \in 1 .. n : \E k \in 1 .. n : o[k] = p
               /\ \A k, m \in 1 .. n : o[k] = o[m] => k = m
               /\ \A k, m \in 1 .. n : k <= m => sorted[k] <= sorted[m]
  BY <1>2, <1>3, <1>5, <1>7, <1>8
<1> QED
  BY <1>9 DEF n, sorted

\* The sample at the nearest rank is the percentile.
LEMMA NearestRankIsPercentile ==
  ASSUME NEW durations \in Seq(Nat), Len(durations) # 0, NEW ratio \in 1 .. 100,
         NEW rank, IsNearestRank(rank, Len(durations), ratio)
  PROVE  IsPercentile(SortedCopy(durations)[rank], durations, ratio)
<1> DEFINE n == Len(durations)
           sorted == SortedCopy(durations)
           v == sorted[rank]
           Below == {k \in 1 .. n : durations[k] < v}
           Equal == {k \in 1 .. n : durations[k] = v}
<1>1. n \in Nat /\ durations \in [1 .. n -> Nat] /\ n # 0
  OBVIOUS
<1>2. PICK order \in [1 .. n -> 1 .. n] :
        /\ sorted = [k \in 1 .. n |-> durations[order[k]]]
        /\ \A p \in 1 .. n : \E k \in 1 .. n : order[k] = p
        /\ \A k, m \in 1 .. n : order[k] = order[m] => k = m
        /\ \A k, m \in 1 .. n : k <= m => sorted[k] <= sorted[m]
  BY SortedCopySorts
<1>3. /\ rank \in 1 .. n
      /\ rank * 100 >= n * ratio
      /\ \A r \in 1 .. n : r * 100 >= n * ratio => r >= rank
  BY DEF IsNearestRank
<1> HIDE DEF n, sorted
<1>4. \A k \in 1 .. n : sorted[k] = durations[order[k]] /\ sorted[k] \in Nat
                        /\ order[k] \in 1 .. n
  BY <1>1, <1>2
<1>5. v = durations[order[rank]] /\ v \in Nat /\ order[rank] \in Equal
  BY <1>3, <1>4
<1> HIDE DEF v
<1>6. Below \subseteq 1 .. n /\ Equal \subseteq 1 .. n /\ Below \cap Equal = {}
  <2>1. \A k \in 1 .. n : durations[k] \in Nat
    BY <1>1
  <2> QED
    BY <2>1, <1>5
<1>7. IsFiniteSet(1 .. n) /\ IsFiniteSet(Below) /\ IsFiniteSet(Equal)
  <2>1. IsFiniteSet(1 .. n)
    BY <1>1, Segment
  <2> QED
    BY <2>1, <1>6, FS_Subset
<1> DEFINE b == Cardinality(Below)
           e == Cardinality(Equal)
<1>8. b \in Nat /\ e \in Nat
  BY <1>7, FS_CardinalityType
<1>9. b <= rank - 1
  <2> DEFINE place == [p \in Below |-> CHOOSE k \in 1 .. n : order[k] = p]
  <2>1. \A p \in Below : place[p] \in 1 .. n /\ order[place[p]] = p
    BY <1>2, <1>6
  <2>2. ASSUME NEW p \in Below PROVE place[p] \in 1 .. rank - 1
    <3>1. sorted[place[p]] < v /\ place[p] \in 1 .. n
      <4>1. place[p] \in 1 .. n /\ order[place[p]] = p /\ durations[p] < v
        BY <2>1
      <4> HIDE DEF place, Below
      <4> QED
        BY <4>1, <1>4
    <3> HIDE DEF place, Below
    <3>2. ~(rank <= place[p])
      <4> SUFFICES ASSUME rank <= place[p] PROVE FALSE
        OBVIOUS
      <4>1. v <= sorted[place[p]]
        BY <1>2, <1>3, <3>1 DEF v
      <4> QED
        <5>1. sorted[place[p]] \in Nat
          BY <3>1, <1>4
        <5> QED
          BY <3>1, <4>1, <5>1, <1>5
    <3>3. rank \in Int /\ place[p] \in Int /\ 1 <= place[p]
      BY <3>1, <1>3
    <3> QED
      BY <3>2, <3>3
  <2>3. place \in Injection(Below, 1 .. rank - 1)
    <3>1. place \in [Below -> 1 .. rank - 1]
      BY <2>2
    <3>2. \A p, q \in Below : place[p] = place[q] => p = q
      BY <2>1
    <3> HIDE DEF place, Below
    <3> QED
      BY <3>1, <3>2 DEF Injection, IsInjective
  <2>4. rank - 1 \in Nat
    BY <1>3, <1>1
  <2>5. IsFiniteSet(1 .. rank - 1) /\ Cardinality(1 .. rank - 1) = rank - 1
    BY <2>4, Segment
  <2> HIDE DEF place, Below
  <2> QED
    BY <2>3, <2>5, FS_Injection
<1>10. rank <= b + e
  <2> DEFINE first == [k \in 1 .. rank |-> order[k]]
             U == Below \cup Equal
  <2>1. ASSUME NEW k \in 1 .. rank PROVE order[k] \in U
    <3>1. k \in 1 .. n /\ k <= rank
      BY <1>3, <1>1
    <3>2. sorted[k] <= v
      BY <3>1, <1>2, <1>3 DEF v
    <3>3. durations[order[k]] <= v /\ durations[order[k]] \in Nat /\ order[k] \in 1 .. n
      BY <3>1, <3>2, <1>4
    <3> QED
      BY <3>3, <1>5
  <2>2. first \in Injection(1 .. rank, U)
    <3>1. \A k \in 1 .. rank : k \in 1 .. n
      BY <1>3, <1>1
    <3>2. \A k, m \in 1 .. rank : first[k] = first[m] => k = m
      BY <3>1, <1>2
    <3>3. first \in [1 .. rank -> U]
      BY <2>1
    <3> HIDE DEF first, U
    <3> QED
      BY <3>2, <3>3 DEF Injection, IsInjective
  <2>3. IsFiniteSet(U) /\ Cardinality(U) = b + e
    <3> HIDE DEF Below, Equal
    <3>1. IsFiniteSet(U) /\ Cardinality(U) = b + e - Cardinality(Below \cap Equal)
      BY <1>7, FS_Union
    <3>2. Cardinality(Below \cap Equal) = 0
      BY <1>6, FS_EmptySet
    <3> QED
      BY <3>1, <3>2, <1>8
  <2>4. Cardinality(1 .. rank) = rank
    BY <1>3, <1>1, Segment
  <2> HIDE DEF first, U
  <2> QED
    BY <2>2, <2>3, <2>4, FS_Injection
<1>11. (b + e) * 100 >= n * ratio
  <2>1. n * ratio \in Int /\ rank \in Int
    BY <1>1, <1>3
  <2> HIDE DEF b, e
  <2> QED
    BY <2>1, <1>3, <1>8, <1>10
<1>12. b * 100 < n * ratio
  <2>1. n * ratio \in Int /\ n * ratio > 0 /\ rank \in Int
    <3>1. n \in Int /\ ratio \in Int /\ n >= 1 /\ ratio >= 1 /\ rank \in Int
      BY <1>1, <1>3
    <3>2. \A x, y \in Int : x >= 1 /\ y >= 1 => x * y \in Int /\ x * y > 0
      OBVIOUS
    <3> QED
      BY <3>1, <3>2
  <2>2. (rank - 1) * 100 < n * ratio
    <3>1. CASE rank = 1
      BY <2>1, <3>1
    <3>2. CASE rank # 1
      <4>1. rank - 1 \in 1 .. n /\ ~(rank - 1 >= rank)
        BY <3>2, <1>3, <1>1
      <4>2. ~((rank - 1) * 100 >= n * ratio)
        BY <4>1, <1>3
      <4> QED
        BY <4>2, <2>1
    <3> QED
      BY <3>1, <3>2
  <2> HIDE DEF b
  <2> QED
    BY <2>1, <2>2, <1>8, <1>9
<1>13. Equal # {}
  BY <1>5
<1> QED
  BY <1>11, <1>12, <1>13 DEF IsPercentile, n, sorted, v

\* A total lies between so many of the smallest and so many of the largest value.
LEMMA TotalIsBounded ==
  ASSUME NEW values \in Seq(Nat), NEW low \in Nat, NEW high \in Nat,
         \A k \in 1 .. Len(values) : low <= values[k] /\ values[k] <= high
  PROVE  /\ Total(values) \in Nat
         /\ Len(values) * low <= Total(values)
         /\ Total(values) <= Len(values) * high
<1> DEFINE n == Len(values)
           next == [k \in 1 .. n |-> [x \in Nat |-> x + values[k]]]
           sum[k \in 0 .. n] == IF k = 0 THEN 0 ELSE sum[k - 1] + values[k]
<1>1. n \in Nat /\ \A k \in 1 .. n : values[k] \in Nat
  OBVIOUS
<1>2. next \in [1 .. n -> [Nat -> Nat]]
  BY <1>1
<1>3. PICK g : IsRecursion(g, n, Nat, 0, next)
  <2> HIDE DEF next, n, sum
  <2> QED
    BY <1>1, <1>2, Recursion
<1>4. g = [k \in 0 .. n |-> IF k = 0 THEN 0 ELSE g[k - 1] + values[k]]
  <2>1. ASSUME NEW k \in 1 .. n PROVE g[k] = g[k - 1] + values[k]
    <3>1. g[k] = next[k][g[k - 1]] /\ g \in [0 .. n -> Nat]
      <4> HIDE DEF n, next
      <4> QED
        BY <1>3 DEF IsRecursion
    <3>2. k - 1 \in 0 .. n
      BY <1>1
    <3> HIDE DEF n
    <3> QED
      BY <3>1, <3>2
  <2>2. \A k \in 0 .. n : k # 0 => k \in 1 .. n
    BY <1>1
  <2> HIDE DEF n, next
  <2> QED
    BY <1>3, <2>1, <2>2 DEF IsRecursion
<1>5. sum = [k \in 0 .. n |-> IF k = 0 THEN 0 ELSE sum[k - 1] + values[k]]
  <2> HIDE DEF n, next
  <2> QED
    BY <1>4
<1>6. Total(values) = sum[n]
  BY DEF Total
<1> DEFINE D == {k \in 0 .. n : sum[k] \in Nat /\ k * low <= sum[k] /\ sum[k] <= k * high}
<1> HIDE DEF sum, n, next
<1>7. 0 \in D
  BY <1>1, <1>5
<1>8. ASSUME NEW k \in 1 .. n, k - 1 \in D PROVE k \in D
  <2>1. /\ k \in 0 .. n /\ k # 0 /\ k - 1 \in Nat
        /\ sum[k - 1] \in Nat /\ (k - 1) * low <= sum[k - 1] /\ sum[k - 1] <= (k - 1) * high
    BY <1>1, <1>8
  <2>2. sum[k] = sum[k - 1] + values[k]
    BY <1>5, <2>1
  <2>3. values[k] \in Nat /\ low <= values[k] /\ values[k] <= high
    BY <1>1 DEF n
  <2>4. k * low = (k - 1) * low + low /\ k * high = (k - 1) * high + high
    BY <2>1
  <2>5. (k - 1) * low \in Nat /\ (k - 1) * high \in Nat
    BY <2>1
  <2>6. sum[k] \in Nat /\ k * low <= sum[k] /\ sum[k] <= k * high
    BY <2>1, <2>2, <2>3, <2>4, <2>5
  <2> QED
    BY <2>1, <2>6
<1>9. n \in D
  <2>1. n \in 0 .. n
    BY <1>1
  <2> HIDE DEF D
  <2> QED
    BY <1>1, <1>7, <1>8, <2>1, InductionUpTo
<1> QED
  BY <1>6, <1>9 DEF n

\* summarize of both tools, for every sample (PercentilesAreTrue).
LEMMA SummaryIsTrue ==
  ASSUME NEW durations \in Seq(Nat)
  PROVE  LET stats == summarize("go", durations)
         IN  /\ stats = summarize("ts", durations)
             /\ durations # <<>> =>
                  /\ IsPercentile(stats.p50, durations, 50)
                  /\ IsPercentile(stats.p95, durations, 95)
                  /\ IsPercentile(stats.p99, durations, 99)
                  /\ stats.min <= stats.p50 /\ stats.p50 <= stats.p95
                  /\ stats.p95 <= stats.p99 /\ stats.p99 <= stats.max
             /\ stats.count * stats.min <= stats.sum /\ stats.sum <= stats.count * stats.max
<1> DEFINE n == Len(durations)
           sorted == SortedCopy(durations)
           stats == summarize("go", durations)
<1>1. n \in Nat /\ sorted \in Seq(Nat) /\ Len(sorted) = n
      /\ \A k, m \in 1 .. n : k <= m => sorted[k] <= sorted[m]
  BY SortedCopySorts
<1>2. /\ sorted = <<>> <=> n = 0
      /\ durations = <<>> <=> n = 0
  <2>1. \A s \in Seq(Nat) : s = <<>> <=> Len(s) = 0
    OBVIOUS
  <2> HIDE DEF sorted
  <2> QED
    BY <1>1, <2>1
<1> HIDE DEF n, sorted
<1>3. /\ stats.count = n /\ stats.sum = Total(sorted)
      /\ stats.min = (IF n = 0 THEN 0 ELSE sorted[1])
      /\ stats.max = (IF n = 0 THEN 0 ELSE sorted[n])
      /\ stats.p50 = Percentile("go", sorted, 50)
      /\ stats.p95 = Percentile("go", sorted, 95)
      /\ stats.p99 = Percentile("go", sorted, 99)
  BY <1>1 DEF summarize, sorted
<1>4. CASE n = 0
  <2>1. \A ratio : Percentile("go", sorted, ratio) = 0 /\ Percentile("ts", sorted, ratio) = 0
    BY <1>2, <1>4 DEF Percentile
  <2>2. stats = summarize("ts", durations)
    BY <2>1 DEF summarize, sorted
  <2>3. \A k \in 1 .. Len(sorted) : 0 <= sorted[k] /\ sorted[k] <= 0
    BY <1>1, <1>4
  <2>4. Total(sorted) \in Nat /\ 0 * 0 <= Total(sorted) /\ Total(sorted) <= 0 * 0
    BY <1>1, <1>4, <2>3, TotalIsBounded
  <2> HIDE DEF stats
  <2> QED
    BY <1>2, <1>3, <1>4, <2>2, <2>4 DEF stats
<1>5. CASE n # 0
  <2> DEFINE rank(ratio) == GoIndex(n, ratio) + 1
  <2>1. ASSUME NEW ratio \in 1 .. 100
        PROVE  /\ GoIndex(n, ratio) = TsIndex(n, ratio)
               /\ IsNearestRank(rank(ratio), n, ratio)
               /\ Percentile("go", sorted, ratio) = sorted[rank(ratio)]
               /\ Percentile("ts", sorted, ratio) = sorted[rank(ratio)]
               /\ IsPercentile(sorted[rank(ratio)], durations, ratio)
    <3>1. GoIndex(n, ratio) = TsIndex(n, ratio) /\ IsNearestRank(rank(ratio), n, ratio)
      BY <1>1, <1>5, IndexIsNearestRank
    <3>2. Percentile("go", sorted, ratio) = sorted[rank(ratio)]
          /\ Percentile("ts", sorted, ratio) = sorted[rank(ratio)]
      BY <1>1, <1>2, <1>5, <3>1 DEF Percentile, Index
    <3> HIDE DEF rank
    <3>3. IsPercentile(sorted[rank(ratio)], durations, ratio)
      BY <1>5, <3>1, NearestRankIsPercentile DEF n, sorted
    <3> QED
      BY <3>1, <3>2, <3>3 DEF rank
  <2>2. \A ratio \in {50, 95, 99} : ratio \in 1 .. 100
    OBVIOUS
  <2> HIDE DEF rank
  <2>3. stats = summarize("ts", durations)
    BY <1>1, <2>1, <2>2 DEF summarize, sorted
  <2>4. /\ rank(50) \in 1 .. n /\ rank(95) \in 1 .. n /\ rank(99) \in 1 .. n
        /\ rank(50) <= rank(95) /\ rank(95) <= rank(99)
    <3>1. /\ IsNearestRank(rank(50), n, 50)
          /\ IsNearestRank(rank(95), n, 95)
          /\ IsNearestRank(rank(99), n, 99)
      BY <2>1, <2>2
    <3>2. rank(50) \in 1 .. n /\ rank(95) \in 1 .. n /\ rank(99) \in 1 .. n
      BY <3>1 DEF IsNearestRank
    <3>3. rank(95) * 100 >= n * 50 /\ rank(99) * 100 >= n * 95
      <4>1. rank(95) * 100 >= n * 95 /\ rank(99) * 100 >= n * 99
        BY <3>1 DEF IsNearestRank
      <4> QED
        BY <3>2, <4>1, <1>1
    <3>4. rank(95) >= rank(50) /\ rank(99) >= rank(95)
      BY <3>1, <3>2, <3>3 DEF IsNearestRank
    <3> QED
      BY <3>2, <3>4
  <2>5. 1 \in 1 .. n /\ n \in 1 .. n
    BY <1>1, <1>5
  <2>6. /\ sorted[1] <= sorted[rank(50)] /\ sorted[rank(50)] <= sorted[rank(95)]
        /\ sorted[rank(95)] <= sorted[rank(99)] /\ sorted[rank(99)] <= sorted[n]
    <3>1. 1 <= rank(50) /\ rank(99) <= n
      BY <2>4
    <3> QED
      BY <1>1, <2>4, <2>5, <3>1
  <2>7. n * sorted[1] <= Total(sorted) /\ Total(sorted) <= n * sorted[n]
    <3>1. sorted[1] \in Nat /\ sorted[n] \in Nat
      BY <1>1, <2>5
    <3>2. \A k \in 1 .. Len(sorted) : sorted[1] <= sorted[k] /\ sorted[k] <= sorted[n]
      BY <1>1, <2>5
    <3> QED
      BY <1>1, <3>1, <3>2, TotalIsBounded
  <2>8. /\ stats.p50 = sorted[rank(50)] /\ stats.p95 = sorted[rank(95)]
        /\ stats.p99 = sorted[rank(99)]
        /\ IsPercentile(stats.p50, durations, 50)
        /\ IsPercentile(stats.p95, durations, 95)
        /\ IsPercentile(stats.p99, durations, 99)
    <3>1. 50 \in 1 .. 100 /\ 95 \in 1 .. 100 /\ 99 \in 1 .. 100
      OBVIOUS
    <3>2. /\ stats.p50 = sorted[rank(50)] /\ stats.p95 = sorted[rank(95)]
          /\ stats.p99 = sorted[rank(99)]
      <4> HIDE DEF stats
      <4> QED
        BY <1>3, <2>1, <3>1
    <3>3. /\ IsPercentile(sorted[rank(50)], durations, 50)
          /\ IsPercentile(sorted[rank(95)], durations, 95)
          /\ IsPercentile(sorted[rank(99)], durations, 99)
      BY <2>1, <3>1
    <3> HIDE DEF stats
    <3> QED
      BY <3>2, <3>3
  <2> HIDE DEF stats
  <2> QED
    BY <1>3, <1>5, <2>3, <2>6, <2>7, <2>8 DEF stats
<1> QED
  BY <1>4, <1>5
-----------------------------------------------------------------------------
(***************************************************************************)
(* Reports                                                                 *)
(***************************************************************************)

\* A set of naturals that is not empty has a least member.
LEMMA LeastMember ==
  ASSUME NEW S \in SUBSET Int, IsFiniteSet(S), S # {}
  PROVE  Ascending(S)[1] \in S /\ \A p \in S : Ascending(S)[1] <= p
<1> DEFINE n == Cardinality(S)
           order == Ascending(S)
<1>1. n \in Nat /\ n # 0
  BY FS_CardinalityType, FS_EmptySet
<1>2. /\ order \in [1 .. n -> S]
      /\ \A p \in S : \E r \in 1 .. n : order[r] = p
      /\ \A i, j \in 1 .. n : i < j => order[i] < order[j]
  BY AscendingLists
<1> HIDE DEF n, order
<1>3. 1 \in 1 .. n /\ order[1] \in S
  BY <1>1, <1>2
<1>4. ASSUME NEW p \in S PROVE order[1] <= p
  <2>1. PICK r \in 1 .. n : order[r] = p
    BY <1>2
  <2>2. CASE r = 1
    BY <2>1, <2>2, <1>3
  <2>3. CASE r # 1
    <3>1. 1 < r
      BY <1>1, <2>3
    <3>2. order[1] < order[r]
      BY <3>1, <1>2, <1>3
    <3>3. order[1] \in Int /\ p \in Int
      BY <1>3
    <3> QED
      BY <3>2, <3>3, <2>1
  <2> QED
    BY <2>2, <2>3
<1> QED
  BY <1>3, <1>4 DEF order

\* What a report takes of a result.
Result(scenarios) == [operation : OperationName, scenario : scenarios, p50 : Nat]

\* What is asked of the order of the sections.
OrdersOperations(results, order) ==
  /\ \A s \in DOMAIN order : \E k \in DOMAIN results : results[k].operation = order[s]
  /\ \A k \in DOMAIN results : \E s \in DOMAIN order : order[s] = results[k].operation
  /\ \A s, t \in DOMAIN order : order[s] = order[t] => s = t

\* What is asked of the rows of an operation.
ListsRows(results, depth, operation, rows) ==
  LET group == Group(results, operation)
  IN  /\ rows \in [1 .. Cardinality(group) -> group]
      /\ \A k \in group : \E i \in DOMAIN rows : rows[i] = k
      /\ \A i, j \in DOMAIN rows :
           i < j => RowKey(results, depth)[rows[i]] <= RowKey(results, depth)[rows[j]]

\* Every operation has one place in OperationNames.
LEMMA OperationNamesDiffer ==
  \A i, j \in DOMAIN OperationNames : OperationNames[i] = OperationNames[j] => i = j
<1>1. DOMAIN OperationNames = 1 .. 7
  BY DEF OperationNames
<1>2. \A i \in 1 .. 7 : i \in {1, 2, 3, 4, 5, 6, 7}
  OBVIOUS
<1>3. /\ OperationNames[1] = "head-shared" /\ OperationNames[2] = "get-shared"
      /\ OperationNames[3] = "get-local" /\ OperationNames[4] = "list-prefix"
      /\ OperationNames[5] = "put-new" /\ OperationNames[6] = "put-overwrite-seeded"
      /\ OperationNames[7] = "remove-seeded"
  BY DEF OperationNames
<1> QED
  BY <1>1, <1>2, <1>3

\* Go's sections go by OperationNames: one for every operation measured.
LEMMA GoOrdersOperations ==
  ASSUME NEW scenarios, NEW results \in Seq(Result(scenarios))
  PROVE  OrdersOperations(results, GoOrder(results))
<1> DEFINE S == {i \in DOMAIN OperationNames : Group(results, OperationNames[i]) # {}}
           named == Ascending(S)
           order == [i \in DOMAIN named |-> OperationNames[named[i]]]
<1>1. S \in SUBSET Int /\ IsFiniteSet(S)
  <2>1. DOMAIN OperationNames = 1 .. 7
    BY DEF OperationNames
  <2>2. S \subseteq 1 .. 7 /\ IsFiniteSet(1 .. 7)
    BY <2>1, Segment
  <2> QED
    BY <2>2, FS_Subset
<1>2. /\ named \in [1 .. Cardinality(S) -> S]
      /\ \A p \in S : \E r \in 1 .. Cardinality(S) : named[r] = p
      /\ \A i, j \in 1 .. Cardinality(S) : i < j => named[i] < named[j]
  <2> HIDE DEF S
  <2> QED
    BY <1>1, AscendingLists
<1> DEFINE n == Cardinality(S)
<1>3. n \in Nat
  <2> HIDE DEF S
  <2> QED
    BY <1>1, FS_CardinalityType
<1>4. GoOrder(results) = order
  BY DEF GoOrder
<1>5. DOMAIN order = 1 .. n /\ \A s \in 1 .. n : order[s] = OperationNames[named[s]]
  BY <1>2
<1> HIDE DEF order, named, n
<1>6. ASSUME NEW s \in 1 .. n
      PROVE  \E k \in DOMAIN results : results[k].operation = order[s]
  <2>1. named[s] \in S
    BY <1>2 DEF n
  <2> QED
    BY <2>1, <1>5 DEF Group
<1>7. ASSUME NEW k \in DOMAIN results
      PROVE  \E s \in 1 .. n : order[s] = results[k].operation
  <2>1. results[k] \in Result(scenarios)
    OBVIOUS
  <2>2. results[k].operation \in OperationName
    BY <2>1 DEF Result
  <2>3. PICK i \in DOMAIN OperationNames : OperationNames[i] = results[k].operation
    BY <2>2 DEF OperationName
  <2>4. i \in S
    BY <2>3 DEF Group
  <2>5. PICK s \in 1 .. n : named[s] = i
    BY <2>4, <1>2 DEF n
  <2> QED
    BY <2>3, <2>5, <1>5
<1>8. ASSUME NEW s \in 1 .. n, NEW t \in 1 .. n, order[s] = order[t]
      PROVE  s = t
  <2>1. named[s] \in S /\ named[t] \in S
    BY <1>2 DEF n
  <2>2. named[s] = named[t]
    BY <2>1, <1>5, <1>8, OperationNamesDiffer
  <2>3. ~(s < t) /\ ~(t < s)
    <3>1. named[s] \in Int
      BY <2>1, <1>1
    <3>2. \A i, j \in 1 .. n : i < j => named[i] < named[j]
      BY <1>2 DEF n
    <3> HIDE DEF S
    <3> QED
      BY <2>2, <3>1, <3>2
  <2> QED
    BY <2>3, <1>3
<1> QED
  BY <1>4, <1>5, <1>6, <1>7, <1>8 DEF OrdersOperations

\* TypeScript's go by first appearance: one for every operation measured.
LEMMA TsOrdersOperations ==
  ASSUME NEW scenarios, NEW results \in Seq(Result(scenarios))
  PROVE  OrdersOperations(results, TsOrder(results))
<1> DEFINE S == {k \in DOMAIN results : \A m \in 1 .. k - 1 :
                            results[m].operation # results[k].operation}
           first == Ascending(S)
           order == [i \in DOMAIN first |-> results[first[i]].operation]
<1>1. DOMAIN results = 1 .. Len(results) /\ Len(results) \in Nat
  OBVIOUS
<1>2. S \in SUBSET Int /\ IsFiniteSet(S)
  <2>1. S \subseteq 1 .. Len(results) /\ IsFiniteSet(1 .. Len(results))
    BY <1>1, Segment
  <2> QED
    BY <2>1, FS_Subset
<1>3. /\ first \in [1 .. Cardinality(S) -> S]
      /\ \A p \in S : \E r \in 1 .. Cardinality(S) : first[r] = p
      /\ \A i, j \in 1 .. Cardinality(S) : i < j => first[i] < first[j]
  <2> HIDE DEF S
  <2> QED
    BY <1>2, AscendingLists
<1> DEFINE n == Cardinality(S)
<1>4. n \in Nat
  <2> HIDE DEF S
  <2> QED
    BY <1>2, FS_CardinalityType
<1>5. TsOrder(results) = order
  BY DEF TsOrder
<1>6. DOMAIN order = 1 .. n /\ \A s \in 1 .. n : order[s] = results[first[s]].operation
  BY <1>3
<1> HIDE DEF order, first, n
<1>7. ASSUME NEW s \in 1 .. n
      PROVE  \E k \in DOMAIN results : results[k].operation = order[s]
  <2>1. first[s] \in S
    BY <1>3 DEF n
  <2> QED
    BY <2>1, <1>6
<1>8. ASSUME NEW k \in DOMAIN results
      PROVE  \E s \in 1 .. n : order[s] = results[k].operation
  <2> DEFINE T == {m \in DOMAIN results : results[m].operation = results[k].operation}
             m == Ascending(T)[1]
  <2>1. T \in SUBSET Int /\ T # {} /\ IsFiniteSet(T)
    <3>1. T \subseteq 1 .. Len(results) /\ IsFiniteSet(1 .. Len(results))
      BY <1>1, Segment
    <3> QED
      BY <3>1, FS_Subset
  <2>2. m \in T /\ \A p \in T : m <= p
    <3> HIDE DEF T
    <3> QED
      BY <2>1, LeastMember
  <2> HIDE DEF m
  <2>3. m \in S
    <3>1. m \in 1 .. Len(results)
      BY <2>2, <1>1
    <3>2. ASSUME NEW p \in 1 .. m - 1 PROVE results[p].operation # results[m].operation
      <4>1. p \in DOMAIN results /\ ~(m <= p)
        BY <1>1, <3>1
      <4> QED
        BY <4>1, <2>2
    <3> QED
      BY <2>2, <3>2
  <2>4. PICK s \in 1 .. n : first[s] = m
    BY <2>3, <1>3 DEF n
  <2> QED
    BY <2>2, <2>4, <1>6
<1>9. ASSUME NEW s \in 1 .. n, NEW t \in 1 .. n, order[s] = order[t]
      PROVE  s = t
  <2>1. first[s] \in S /\ first[t] \in S /\ first[s] \in Int /\ first[t] \in Int
    BY <1>2, <1>3 DEF n
  <2>2. results[first[s]].operation = results[first[t]].operation
    BY <1>6, <1>9
  <2>3. ~(first[s] < first[t]) /\ ~(first[t] < first[s])
    <3>1. first[s] \in 1 .. Len(results) /\ first[t] \in 1 .. Len(results)
      BY <2>1, <1>1
    <3>2. first[s] < first[t] => first[s] \in 1 .. first[t] - 1
      BY <3>1
    <3>3. first[t] < first[s] => first[t] \in 1 .. first[s] - 1
      BY <3>1
    <3> QED
      BY <3>2, <3>3, <2>1, <2>2
  <2>4. first[s] = first[t]
    BY <2>1, <2>3
  <2>5. ~(s < t) /\ ~(t < s)
    BY <2>1, <2>4, <1>3 DEF n
  <2> QED
    BY <2>5, <1>4
<1> QED
  BY <1>5, <1>6, <1>7, <1>8, <1>9 DEF OrdersOperations

\* What AggregatesAssumption says of one aggregate.
ReportInputs(results, depth) ==
  /\ results \in Seq(Result(DOMAIN depth))
  /\ \A k \in DOMAIN results : \E m \in DOMAIN results :
       results[m].operation = results[k].operation /\ results[m].scenario = "normal"
  /\ \/ \A k \in DOMAIN results : results[k].p50 = 0
     \/ \A k \in DOMAIN results : results[k].p50 > 0

\* What ReportIsSound says of one report.
SoundReport(results, depth, report) ==
  /\ \A k \in DOMAIN results :
       \E s \in DOMAIN report :
         /\ Cardinality({i \in DOMAIN report[s].rows : report[s].rows[i] = k}) = 1
         /\ \A t \in DOMAIN report : k \in ToSet(report[t].rows) <=> t = s
  /\ \A s \in DOMAIN report :
       LET rows == report[s].rows
           normal == results[report[s].normal]
       IN  /\ normal.operation = report[s].operation /\ normal.scenario = "normal"
           /\ \A i \in DOMAIN rows :
                /\ results[rows[i]].operation = report[s].operation
                /\ \A j \in 1 .. i :
                     depth[results[rows[j]].scenario] <= depth[results[rows[i]].scenario]
                /\ GoHasRatio(results, report[s], rows[i])
                     <=> TsHasRatio(results, report[s], rows[i])

\* The results of an operation.
LEMMA GroupIsFinite ==
  ASSUME NEW scenarios, NEW results \in Seq(Result(scenarios)), NEW operation
  PROVE  /\ Group(results, operation) \in SUBSET Int
         /\ Group(results, operation) \subseteq DOMAIN results
         /\ IsFiniteSet(Group(results, operation))
         /\ Cardinality(Group(results, operation)) \in Nat
<1>1. DOMAIN results = 1 .. Len(results) /\ Len(results) \in Nat
  OBVIOUS
<1>2. Group(results, operation) \subseteq DOMAIN results
  BY DEF Group
<1>3. IsFiniteSet(1 .. Len(results)) /\ 1 .. Len(results) \subseteq Int
  BY <1>1, Segment
<1>4. IsFiniteSet(Group(results, operation))
  BY <1>1, <1>2, <1>3, FS_Subset
<1> QED
  BY <1>1, <1>2, <1>3, <1>4, FS_CardinalityType

\* A row that goes first by its key has no greater depth.
LEMMA RowKeyOrdersDepths ==
  ASSUME NEW depth, depth \in [DOMAIN depth -> Nat], NEW results \in Seq(Result(DOMAIN depth)),
         NEW k \in DOMAIN results, NEW m \in DOMAIN results
  PROVE  /\ RowKey(results, depth)[k] \in Int
         /\ RowKey(results, depth)[k] <= RowKey(results, depth)[m] =>
              depth[results[k].scenario] <= depth[results[m].scenario]
<1>1. results[k] \in Result(DOMAIN depth) /\ results[m] \in Result(DOMAIN depth)
  OBVIOUS
<1>2. results[k].scenario \in DOMAIN depth /\ results[m].scenario \in DOMAIN depth
  BY <1>1 DEF Result
<1>3. depth[results[k].scenario] \in Nat /\ depth[results[m].scenario] \in Nat
  BY <1>2
<1>4. \A scenario : Rank(scenario) \in 0 .. 2
  BY DEF Rank
<1>5. /\ RowKey(results, depth)[k] = 3 * depth[results[k].scenario] + Rank(results[k].scenario)
      /\ RowKey(results, depth)[m] = 3 * depth[results[m].scenario] + Rank(results[m].scenario)
  BY DEF RowKey
<1>6. \A x, y \in Nat, i, j \in 0 .. 2 :
        3 * x + i \in Int /\ (3 * x + i <= 3 * y + j => x <= y)
  OBVIOUS
<1> QED
  BY <1>3, <1>4, <1>5, <1>6

\* TypeScript's rows, from its stable sort.
LEMMA TsListsRows ==
  ASSUME NEW depth, depth \in [DOMAIN depth -> Nat], NEW results \in Seq(Result(DOMAIN depth)),
         NEW operation
  PROVE  ListsRows(results, depth, operation, TsRows(results, depth, operation))
<1> DEFINE S == Group(results, operation)
           n == Cardinality(S)
           key == RowKey(results, depth)
           rows == StableSort(S, key)
<1>1. S \in SUBSET Int /\ S \subseteq DOMAIN results /\ IsFiniteSet(S)
  BY GroupIsFinite
<1>2. \A k \in S : key[k] \in Int
  BY <1>1, RowKeyOrdersDepths
<1> HIDE DEF S, key
<1>3. /\ rows \in [1 .. n -> S]
      /\ \A p \in S : \E r \in 1 .. n : rows[r] = p
      /\ \A i, j \in 1 .. n : i < j => Precedes(key, rows[i], rows[j])
  BY <1>1, <1>2, StableSortSorts
<1> HIDE DEF rows, n
<1>4. \A i, j \in 1 .. n : i < j => key[rows[i]] <= key[rows[j]]
  <2> SUFFICES ASSUME NEW i \in 1 .. n, NEW j \in 1 .. n, i < j
               PROVE  key[rows[i]] <= key[rows[j]]
    OBVIOUS
  <2>1. key[rows[i]] \in Int /\ key[rows[j]] \in Int
    BY <1>2, <1>3
  <2>2. Precedes(key, rows[i], rows[j])
    BY <1>3
  <2> QED
    BY <2>1, <2>2 DEF Precedes
<1>5. DOMAIN rows = 1 .. n
  BY <1>3
<1>6. TsRows(results, depth, operation) = rows
  BY DEF TsRows, rows, S, key
<1> QED
  BY <1>3, <1>4, <1>5, <1>6 DEF ListsRows, n, S, key

\* Go's rows, whatever sort.Slice makes of equal ones.
LEMMA GoListsRows ==
  ASSUME NEW results, NEW depth, NEW operation,
         NEW rows \in GoRows(results, depth, operation)
  PROVE  ListsRows(results, depth, operation, rows)
BY DEF GoRows, ListsRows

\* What SoundReport asks of one section.
SoundSection(results, depth, operation, rows, section) ==
  LET normal == results[section.normal]
  IN  /\ \A m \in DOMAIN results : m \in ToSet(rows) <=> results[m].operation = operation
      /\ \A m \in ToSet(rows) : Cardinality({i \in DOMAIN rows : rows[i] = m}) = 1
      /\ normal.operation = operation /\ normal.scenario = "normal"
      /\ \A i \in DOMAIN rows :
           /\ results[rows[i]].operation = operation
           /\ \A j \in 1 .. i :
                depth[results[rows[j]].scenario] <= depth[results[rows[i]].scenario]
           /\ GoHasRatio(results, section, rows[i]) <=> TsHasRatio(results, section, rows[i])

\* Each section by itself.
LEMMA SectionIsSound ==
  ASSUME NEW depth, depth \in [DOMAIN depth -> Nat], NEW results, ReportInputs(results, depth),
         NEW k \in DOMAIN results, NEW operation, results[k].operation = operation,
         NEW rows, ListsRows(results, depth, operation, rows)
  PROVE  SoundSection(results, depth, operation, rows, Section(results, operation, rows))
<1> DEFINE S == Group(results, operation)
           n == Cardinality(S)
           key == RowKey(results, depth)
           section == Section(results, operation, rows)
           found == {i \in DOMAIN rows : results[rows[i]].scenario = "normal"}
<1>1. results \in Seq(Result(DOMAIN depth)) /\ DOMAIN results = 1 .. Len(results)
  BY DEF ReportInputs
<1>2. S \in SUBSET Int /\ S \subseteq DOMAIN results /\ IsFiniteSet(S) /\ n \in Nat
  BY <1>1, GroupIsFinite
<1>3. /\ rows \in [1 .. n -> S]
      /\ \A m \in S : \E i \in 1 .. n : rows[i] = m
      /\ \A i, j \in 1 .. n : i < j => key[rows[i]] <= key[rows[j]]
  BY DEF ListsRows
<1>4. \A m \in DOMAIN results : m \in S <=> results[m].operation = operation
  BY DEF Group
<1> HIDE DEF S, n, key
<1>5. ToSet(rows) = S
  BY <1>3 DEF ToSet
<1>6. \A i, j \in 1 .. n : rows[i] = rows[j] => i = j
  <2>1. rows \in Surjection(1 .. n, S)
    BY <1>3 DEF Surjection
  <2>2. IsFiniteSet(1 .. n) /\ Cardinality(1 .. n) = Cardinality(S)
    BY <1>2, Segment DEF n
  <2>3. rows \in Injection(1 .. n, S)
    BY <2>1, <2>2, FS_SurjSameCardinalityImpliesInj
  <2> QED
    BY <2>3 DEF Injection, IsInjective
<1>7. ASSUME NEW m \in S PROVE Cardinality({i \in DOMAIN rows : rows[i] = m}) = 1
  <2>1. PICK i \in 1 .. n : rows[i] = m
    BY <1>3
  <2>2. {j \in DOMAIN rows : rows[j] = m} = {i}
    BY <2>1, <1>3, <1>6
  <2> QED
    BY <2>2, FS_Singleton
<1>8. section.normal \in S /\ results[section.normal].scenario = "normal"
  <2>1. found \in SUBSET Int /\ IsFiniteSet(found) /\ found \subseteq 1 .. n
    <3>1. found \subseteq 1 .. n /\ IsFiniteSet(1 .. n)
      BY <1>2, <1>3, Segment
    <3> QED
      BY <3>1, <1>2, FS_Subset
  <2>2. found # {}
    <3>1. PICK m \in DOMAIN results :
            results[m].operation = results[k].operation /\ results[m].scenario = "normal"
      BY DEF ReportInputs
    <3>2. m \in S
      BY <3>1, <1>4
    <3>3. PICK i \in 1 .. n : rows[i] = m
      BY <3>2, <1>3
    <3> QED
      BY <3>1, <3>3, <1>3
  <2>3. Ascending(found)[1] \in found
    <3> HIDE DEF found
    <3> QED
      BY <2>1, <2>2, LeastMember
  <2>4. section.normal = rows[Ascending(found)[1]]
    BY <2>2 DEF Section, Normal
  <2> HIDE DEF section
  <2> QED
    BY <2>1, <2>3, <2>4, <1>3
<1> HIDE DEF section
<1>9. \A i \in 1 .. n : rows[i] \in DOMAIN results /\ results[rows[i]].operation = operation
  BY <1>2, <1>3, <1>4
<1>10. ASSUME NEW i \in 1 .. n, NEW j \in 1 .. i
       PROVE  depth[results[rows[j]].scenario] <= depth[results[rows[i]].scenario]
  <2>1. j \in 1 .. n /\ (j = i \/ j < i)
    BY <1>2
  <2>2. key[rows[j]] \in Int /\ key[rows[i]] \in Int
    BY <1>1, <1>9, <2>1, RowKeyOrdersDepths DEF key
  <2>3. key[rows[j]] <= key[rows[i]]
    BY <2>1, <2>2, <1>3
  <2> QED
    BY <1>1, <1>9, <2>1, <2>3, RowKeyOrdersDepths DEF key
<1>11. ASSUME NEW i \in 1 .. n
       PROVE  GoHasRatio(results, section, rows[i]) <=> TsHasRatio(results, section, rows[i])
  <2>1. rows[i] \in DOMAIN results /\ section.normal \in DOMAIN results
    BY <1>2, <1>8, <1>9
  <2>2. results[section.normal].p50 > 0 => results[rows[i]].p50 > 0
    <3>1. ~(0 > 0)
      OBVIOUS
    <3> QED
      BY <2>1, <3>1 DEF ReportInputs
  <2> QED
    BY <2>2 DEF GoHasRatio, TsHasRatio
<1>12. DOMAIN rows = 1 .. n
  BY <1>3
<1>13. results[section.normal].operation = operation
  BY <1>2, <1>4, <1>8
<1> QED
  BY <1>4, <1>2, <1>5, <1>7, <1>8, <1>9, <1>10, <1>11, <1>12, <1>13 DEF section, SoundSection

\* Sections whose operations are those measured, one each, make a sound report.
LEMMA ReportOfSections ==
  ASSUME NEW depth, depth \in [DOMAIN depth -> Nat], NEW results, ReportInputs(results, depth),
         NEW order, OrdersOperations(results, order),
         NEW rows, \A s \in DOMAIN order : ListsRows(results, depth, order[s], rows[s]),
         NEW report, report = [s \in DOMAIN order |-> Section(results, order[s], rows[s])]
  PROVE  SoundReport(results, depth, report)
<1>1. ASSUME NEW s \in DOMAIN order
      PROVE  /\ report[s] = Section(results, order[s], rows[s])
             /\ report[s].rows = rows[s] /\ report[s].operation = order[s]
  BY DEF Section
<1>2. ASSUME NEW s \in DOMAIN order
      PROVE  SoundSection(results, depth, order[s], rows[s], report[s])
  <2>1. PICK k \in DOMAIN results : results[k].operation = order[s]
    BY DEF OrdersOperations
  <2>2. ListsRows(results, depth, order[s], rows[s])
    OBVIOUS
  <2> QED
    BY <1>1, <2>1, <2>2, SectionIsSound
<1>3. DOMAIN report = DOMAIN order
  OBVIOUS
<1>4. ASSUME NEW k \in DOMAIN results
      PROVE  \E s \in DOMAIN report :
               /\ Cardinality({i \in DOMAIN report[s].rows : report[s].rows[i] = k}) = 1
               /\ \A t \in DOMAIN report : k \in ToSet(report[t].rows) <=> t = s
  <2>1. PICK s \in DOMAIN order : order[s] = results[k].operation
    BY DEF OrdersOperations
  <2>2. \A t \in DOMAIN order : k \in ToSet(rows[t]) <=> results[k].operation = order[t]
    BY <1>2 DEF SoundSection
  <2>3. \A t \in DOMAIN order : k \in ToSet(rows[t]) <=> t = s
    BY <2>1, <2>2 DEF OrdersOperations
  <2>4. Cardinality({i \in DOMAIN rows[s] : rows[s][i] = k}) = 1
    BY <2>3, <1>2 DEF SoundSection
  <2> QED
    BY <2>3, <2>4, <1>1, <1>3
<1>5. ASSUME NEW s \in DOMAIN report
      PROVE  LET normal == results[report[s].normal]
             IN  /\ normal.operation = report[s].operation /\ normal.scenario = "normal"
                 /\ \A i \in DOMAIN report[s].rows :
                      /\ results[report[s].rows[i]].operation = report[s].operation
                      /\ \A j \in 1 .. i :
                           depth[results[report[s].rows[j]].scenario]
                             <= depth[results[report[s].rows[i]].scenario]
                      /\ GoHasRatio(results, report[s], report[s].rows[i])
                           <=> TsHasRatio(results, report[s], report[s].rows[i])
  BY <1>1, <1>2, <1>3 DEF SoundSection
<1> QED
  BY <1>4, <1>5 DEF SoundReport

\* Both tools' reports.
LEMMA ReportsAreSound ==
  ASSUME NEW depth, depth \in [DOMAIN depth -> Nat], NEW results, ReportInputs(results, depth),
         NEW report \in GoReports(results, depth) \union {TsReport(results, depth)}
  PROVE  SoundReport(results, depth, report)
<1>1. results \in Seq(Result(DOMAIN depth))
  BY DEF ReportInputs
<1>2. CASE report = TsReport(results, depth)
  <2> DEFINE order == TsOrder(results)
             rows == [s \in DOMAIN order |-> TsRows(results, depth, order[s])]
  <2>1. OrdersOperations(results, order)
    BY <1>1, TsOrdersOperations
  <2>2. report = [s \in DOMAIN order |-> Section(results, order[s], rows[s])]
    BY <1>2 DEF TsReport
  <2>3. \A s \in DOMAIN order : ListsRows(results, depth, order[s], rows[s])
    BY <1>1, TsListsRows
  <2> HIDE DEF order, rows
  <2> QED
    BY <2>1, <2>2, <2>3, ReportOfSections
<1>3. CASE report \in GoReports(results, depth)
  <2> DEFINE order == GoOrder(results)
  <2>1. OrdersOperations(results, order)
    BY <1>1, GoOrdersOperations
  <2>2. PICK rows : /\ \A s \in DOMAIN order : rows[s] \in GoRows(results, depth, order[s])
                    /\ report = [s \in DOMAIN order |-> Section(results, order[s], rows[s])]
    BY <1>3 DEF GoReports
  <2>3. \A s \in DOMAIN order : ListsRows(results, depth, order[s], rows[s])
    BY <2>2, GoListsRows
  <2> HIDE DEF order
  <2> QED
    BY <2>1, <2>2, <2>3, ReportOfSections
<1> QED
  BY <1>2, <1>3
-----------------------------------------------------------------------------
(***************************************************************************)
(* What cleanup needs of its sort                                          *)
(***************************************************************************)

\* Either sort lists every scenario of a manifest once, the deepest first: what
\* Provision assumes of its constant SortedPositions (OrderAssumption) holds for
\* both tools, and for every list of depths (provision.go 161-168, provision.ts
\* 136).
THEOREM SortsAreOrders ==
  ASSUME NEW depths \in Seq(Int), NEW order \in {ExchangeOrder(depths), StableOrder(depths)}
  PROVE  LET n == Len(depths)
         IN  /\ order \in [1 .. n -> 1 .. n]
             /\ \A p \in 1 .. n : \E i \in 1 .. n : order[i] = p
             /\ \A i, j \in 1 .. n : i < j =>
                  order[i] # order[j] /\ depths[order[i]] >= depths[order[j]]
<1> DEFINE n == Len(depths)
<1>1. n \in Nat /\ DOMAIN depths = 1 .. n
  OBVIOUS
<1>2. IsFiniteSet(1 .. n) /\ Cardinality(1 .. n) = n
  BY <1>1, Segment
<1>3. IsRemovalOrder(depths, order) /\ order \in [1 .. n -> 1 .. n]
  <2>1. CASE order = ExchangeOrder(depths)
    BY <2>1, ExchangeOrderSorts
  <2>2. CASE order = StableOrder(depths)
    BY <2>2, StableOrderSorts
  <2> QED
    BY <2>1, <2>2
<1> HIDE DEF n
<1>4. /\ \A p \in 1 .. n : \E i \in 1 .. n : order[i] = p
      /\ \A i, j \in 1 .. n : i < j => depths[order[i]] >= depths[order[j]]
  BY <1>1, <1>3 DEF IsRemovalOrder
<1>5. order \in Surjection(1 .. n, 1 .. n)
  BY <1>3, <1>4 DEF Surjection
<1>6. order \in Injection(1 .. n, 1 .. n)
  BY <1>2, <1>5, FS_Surjection
<1>7. \A i, j \in 1 .. n : i < j => order[i] # order[j]
  <2>1. \A i, j \in 1 .. n : i < j => i # j
    BY <1>1
  <2> QED
    BY <1>6, <2>1 DEF Injection, IsInjective
<1> QED
  BY <1>3, <1>4, <1>7 DEF n
===============================================================================
