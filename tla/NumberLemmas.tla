---------------------------- MODULE NumberLemmas ----------------------------
(***************************************************************************)
(* Facts about integers, finite sets and sums that the other proofs use:   *)
(* products and quotients, the rounding of PercentageMath, induction, and  *)
(* what a sum of a function's values over a finite set becomes when the    *)
(* function changes; and the concatenation of a sequence of sequences.     *)
(***************************************************************************)
EXTENDS PercentageMath, FiniteSetTheorems, SequencesExt, TLAPS

(***************************************************************************)
(* Integers: products and quotients.                                       *)
(***************************************************************************)
LEMMA ProductMonotone ==
  ASSUME NEW a \in Nat, NEW x \in Int, NEW y \in Int, x <= y
  PROVE  a * x <= a * y
OBVIOUS

LEMMA ProductType ==
  ASSUME NEW x \in Nat, NEW y \in Nat
  PROVE  x * y \in Nat
OBVIOUS

\* A quotient is the largest integer whose product with the divisor does not
\* exceed the dividend.
LEMMA QuotientFloor ==
  ASSUME NEW n \in Nat, NEW b \in Nat \ {0}
  PROVE  /\ n \div b \in Nat
         /\ b * (n \div b) <= n
         /\ n < b * ((n \div b) + 1)
<1>1. n \div b \in Nat /\ n % b \in 0 .. b - 1 /\ n = b * (n \div b) + (n % b)
  OBVIOUS
<1>2. b * ((n \div b) + 1) = b * (n \div b) + b
  BY <1>1
<1>3. QED
  BY <1>1, <1>2

LEMMA QuotientLargest ==
  ASSUME NEW n \in Nat, NEW b \in Nat \ {0}, NEW q \in Int, b * q <= n
  PROVE  q <= n \div b
<1>1. n \div b \in Nat /\ n < b * ((n \div b) + 1)
  BY QuotientFloor
<1>2. SUFFICES ASSUME (n \div b) + 1 <= q
               PROVE  FALSE
  BY <1>1
<1>3. b * ((n \div b) + 1) <= b * q
  BY <1>1, <1>2, ProductMonotone
<1>4. QED
  BY <1>1, <1>3

LEMMA QuotientBelow ==
  ASSUME NEW n \in Nat, NEW b \in Nat \ {0}, NEW q \in Int, n < b * (q + 1)
  PROVE  n \div b <= q
<1>1. n \div b \in Nat /\ b * (n \div b) <= n
  BY QuotientFloor
<1>2. SUFFICES ASSUME q + 1 <= n \div b
               PROVE  FALSE
  BY <1>1
<1>3. b * (q + 1) <= b * (n \div b)
  BY <1>1, <1>2, ProductMonotone
<1>4. QED
  BY <1>1, <1>3

\* Integer division does not increase a natural number.
LEMMA QuotientBounded ==
  ASSUME NEW x \in Nat, NEW n \in Nat \ {0}
  PROVE  x \div n \in 0 .. x
OBVIOUS

\* Rounded up, a quotient is the least natural number whose product with the
\* divisor reaches the dividend.
LEMMA QuotientUp ==
  ASSUME NEW n \in Nat, NEW b \in Nat \ {0}
  PROVE  /\ (n + b - 1) \div b \in Nat
         /\ n <= b * ((n + b - 1) \div b)
         /\ \A k \in Nat : n <= b * k => (n + b - 1) \div b <= k
<1>1. PICK m \in Nat : m = n + b - 1
  OBVIOUS
<1>2. m \div b \in Nat /\ m < b * ((m \div b) + 1)
  BY QuotientFloor
<1>3. b * ((m \div b) + 1) = b * (m \div b) + b
  BY <1>2
<1>4. n <= b * (m \div b)
  <2>1. b * (m \div b) \in Nat
    BY <1>2, ProductType
  <2>2. QED
    BY <1>1, <1>2, <1>3, <2>1
<1>5. ASSUME NEW k \in Nat, n <= b * k
      PROVE  m \div b <= k
  <2>1. b * (k + 1) = b * k + b /\ b * k \in Nat
    OBVIOUS
  <2>2. m < b * (k + 1)
    BY <1>1, <1>5, <2>1
  <2>3. QED
    BY <2>2, QuotientBelow
<1>6. QED
  BY <1>1, <1>2, <1>4, <1>5

\* Two quotients, rounded down, do not exceed the quotient of the whole.
LEMMA QuotientsAdd ==
  ASSUME NEW m \in Nat, NEW n \in Nat, NEW b \in Nat \ {0}
  PROVE  m \div b + n \div b <= (m + n) \div b
<1>1. /\ m \div b \in Nat /\ b * (m \div b) <= m
      /\ n \div b \in Nat /\ b * (n \div b) <= n
  BY QuotientFloor
<1>2. b * (m \div b + n \div b) = b * (m \div b) + b * (n \div b)
  BY <1>1
<1>3. m + n \in Nat /\ b * (m \div b + n \div b) <= m + n
  BY <1>1, <1>2
<1>4. QED
  BY <1>1, <1>3, QuotientLargest

(***************************************************************************)
(* Basis points.                                                           *)
(***************************************************************************)
\* Division by 10000 after adding half of it, bounded by the whole.
LEMMA HalfUpBounded ==
  ASSUME NEW x \in Nat, NEW m \in Nat, m <= x * 10000
  PROVE  (m + 5000) \div 10000 \in 0 .. x
OBVIOUS

\* A basis-point multiple of a natural number is a natural number.
LEMMA PercentMulNat ==
  ASSUME NEW x \in Nat, NEW p \in Nat
  PROVE  PercentMul(x, p) \in Nat
<1>1. x * p \in Nat
  OBVIOUS
<1>2. QED
  BY <1>1 DEF PercentMul, BasisPoints

\* Rounding half up never exceeds the whole for a ratio of at most 100%.
LEMMA PercentMulBounded ==
  ASSUME NEW x \in Nat, NEW p \in 0 .. BasisPoints
  PROVE  PercentMul(x, p) \in 0 .. x
<1>1. x * p \in Nat /\ x * p <= x * 10000
  BY DEF BasisPoints
<1>2. (x * p + 5000) \div 10000 \in 0 .. x
  BY <1>1, HalfUpBounded
<1>3. QED
  BY <1>2 DEF PercentMul, BasisPoints

(***************************************************************************)
(* Induction, for sets: what holds of all naturals, or of a finite set and *)
(* its subsets, is stated as membership in a set.                          *)
(***************************************************************************)
LEMMA LeastNatural ==
  ASSUME NEW T \in SUBSET Nat, T # {}
  PROVE  \E n \in T : \A m \in T : n <= m
<1> DEFINE Less == OpToRel(<, Nat)
<1>1. \A m, n \in T : m < n => <<m, n>> \in Less
  BY DEF OpToRel
<1>2. IsWellFoundedOn(Less, Nat)
  BY NatLessThanWellFounded
<1> HIDE DEF Less
<1>3. PICK n \in T : \A m \in T : ~(<<m, n>> \in Less)
  BY <1>2, WFMin
<1>4. \A m \in T : ~(m < n)
  BY <1>1, <1>3
<1>5. QED
  BY <1>4

LEMMA AllNaturals ==
  ASSUME NEW T, 0 \in T, \A n \in Nat : n \in T => n + 1 \in T
  PROVE  Nat \subseteq T
<1>1. SUFFICES ASSUME Nat \ T # {}
               PROVE  FALSE
  OBVIOUS
<1>2. PICK n \in Nat \ T : \A m \in Nat \ T : n <= m
  BY <1>1, LeastNatural
<1>3. n # 0 /\ n - 1 \in Nat
  BY <1>2
<1>4. n - 1 \in T
  BY <1>2, <1>3
<1>5. QED
  BY <1>2, <1>3, <1>4

\* What holds at the start of a run and is kept by each of its steps holds at
\* the end.
LEMMA RunKeeps ==
  ASSUME NEW run, NEW n \in Nat, NEW X, run[0] \in X,
         \A i \in 1 .. n : run[i - 1] \in X => run[i] \in X
  PROVE  run[n] \in X
<1> DEFINE T == {k \in Nat : k <= n => run[k] \in X}
<1>1. 0 \in T
  OBVIOUS
<1>2. ASSUME NEW k \in Nat, k \in T
      PROVE  k + 1 \in T
  <2>1. CASE k + 1 <= n
    <3>1. k + 1 \in 1 .. n /\ (k + 1) - 1 = k /\ k <= n
      BY <2>1
    <3>2. run[k] \in X
      BY <1>2, <3>1
    <3>3. QED
      BY <3>1, <3>2
  <2>2. CASE ~(k + 1 <= n)
    BY <2>2
  <2>3. QED
    BY <2>1, <2>2
<1> HIDE DEF T
<1>3. n \in T
  BY <1>1, <1>2, AllNaturals
<1>4. QED
  BY <1>3 DEF T

\* The same, when what is kept depends on how far the run is.
LEMMA RunFollows ==
  ASSUME NEW run, NEW n \in Nat, NEW X, run[0] \in X[0],
         \A i \in 1 .. n : run[i - 1] \in X[i - 1] => run[i] \in X[i]
  PROVE  run[n] \in X[n]
<1> DEFINE T == {k \in Nat : k <= n => run[k] \in X[k]}
<1>1. 0 \in T
  OBVIOUS
<1>2. ASSUME NEW k \in Nat, k \in T
      PROVE  k + 1 \in T
  <2>1. CASE k + 1 <= n
    <3>1. k + 1 \in 1 .. n /\ (k + 1) - 1 = k /\ k <= n
      BY <2>1
    <3>2. run[k] \in X[k]
      BY <1>2, <3>1
    <3>3. QED
      BY <3>1, <3>2
  <2>2. CASE ~(k + 1 <= n)
    BY <2>2
  <2>3. QED
    BY <2>1, <2>2
<1> HIDE DEF T
<1>3. n \in T
  BY <1>1, <1>2, AllNaturals
<1>4. QED
  BY <1>3 DEF T

\* A subset belongs to U as soon as all it becomes by losing an element do.
LEMMA FiniteSubsetsAll ==
  ASSUME NEW S, IsFiniteSet(S), NEW U, {} \in U,
         \A T \in SUBSET S : \A q \in T : (\A z \in T : T \ {z} \in U) => T \in U
  PROVE  \A T \in SUBSET S : T \in U
<1> DEFINE N == {n \in Nat : \E T \in SUBSET S : T \notin U /\ Cardinality(T) = n}
<1>0. ASSUME NEW T \in SUBSET S
      PROVE  IsFiniteSet(T) /\ Cardinality(T) \in Nat
  BY FS_Subset, FS_CardinalityType
<1>1. SUFFICES ASSUME NEW R \in SUBSET S, R \notin U
               PROVE  FALSE
  OBVIOUS
<1>2. Cardinality(R) \in N
  BY <1>0, <1>1
<1>3. PICK n \in N : \A m \in N : n <= m
  BY <1>2, LeastNatural
<1>4. PICK T \in SUBSET S : T \notin U /\ Cardinality(T) = n
  BY <1>3
<1>5. PICK q \in T : TRUE
  BY <1>4
<1>6. PICK z \in T : T \ {z} \notin U
  BY <1>4, <1>5
<1>7. Cardinality(T \ {z}) = n - 1 /\ T \ {z} \in SUBSET S
  BY <1>0, <1>4, FS_RemoveElement
<1>8. n - 1 \in N
  BY <1>0, <1>6, <1>7
<1>9. QED
  BY <1>3, <1>8

\* The same from a single element: whichever is removed.
LEMMA FiniteSubsets ==
  ASSUME NEW S, IsFiniteSet(S), NEW U, {} \in U,
         \A T \in SUBSET S : \A x \in T : T \ {x} \in U => T \in U
  PROVE  \A T \in SUBSET S : T \in U
<1>1. \A T \in SUBSET S : \A q \in T : (\A z \in T : T \ {z} \in U) => T \in U
  OBVIOUS
<1>2. QED
  BY <1>1, FiniteSubsetsAll

(***************************************************************************)
(* Sums of a function's values.                                            *)
(***************************************************************************)
Pick(s) == CHOOSE x \in s : TRUE
Unfolded(g, f, D) ==
  g = [s \in D |-> IF s = {} THEN 0 ELSE f[Pick(s)] + g[s \ {Pick(s)}]]
Small(S, n) == {T \in SUBSET S : Cardinality(T) <= n}

LEMMA SumChosen ==
  ASSUME NEW f, NEW S
  PROVE  SumFunctionOnSet(f, S) = (CHOOSE g : Unfolded(g, f, SUBSET S))[S]
BY DEF SumFunctionOnSet, FoldFunctionOnSet, MapThenFoldSet, Unfolded, Pick

LEMMA PickRemoved ==
  ASSUME NEW S, IsFiniteSet(S), S # {}
  PROVE  /\ Pick(S) \in S /\ IsFiniteSet(S \ {Pick(S)})
         /\ Cardinality(S \ {Pick(S)}) = Cardinality(S) - 1 /\ Cardinality(S) \in Nat
<1>1. Pick(S) \in S
  BY DEF Pick
<1>2. QED
  BY <1>1, FS_RemoveElement, FS_CardinalityType

LEMMA SmallUnfolds ==
  ASSUME NEW f, NEW S, IsFiniteSet(S), NEW n \in Nat
  PROVE  \E g : Unfolded(g, f, Small(S, n))
<1> DEFINE N == {k \in Nat : \E g : Unfolded(g, f, Small(S, k))}
<1>0. ASSUME NEW T \in SUBSET S
      PROVE  IsFiniteSet(T) /\ Cardinality(T) \in Nat
  BY FS_Subset, FS_CardinalityType
<1>1. 0 \in N
  <2> DEFINE g == [s \in Small(S, 0) |-> 0]
  <2>1. ASSUME NEW s \in Small(S, 0)
        PROVE  s = {}
    BY <1>0, FS_EmptySet DEF Small
  <2>2. Unfolded(g, f, Small(S, 0))
    BY <2>1 DEF Unfolded
  <2>3. QED
    BY <2>2
<1>2. ASSUME NEW k \in Nat, k \in N
      PROVE  k + 1 \in N
  <2>1. PICK g : Unfolded(g, f, Small(S, k))
    BY <1>2
  <2> DEFINE h == [s \in Small(S, k + 1) |->
                     IF s = {} THEN 0 ELSE f[Pick(s)] + g[s \ {Pick(s)}]]
  <2>2. ASSUME NEW s \in Small(S, k + 1), s # {}
        PROVE  s \ {Pick(s)} \in Small(S, k)
    BY <1>0, <2>2, PickRemoved DEF Small
  <2>3. ASSUME NEW s \in Small(S, k)
        PROVE  s \in Small(S, k + 1) /\ h[s] = g[s]
    <3>1. s \in Small(S, k + 1)
      BY <1>0 DEF Small
    <3>2. g[s] = IF s = {} THEN 0 ELSE f[Pick(s)] + g[s \ {Pick(s)}]
      BY <2>1 DEF Unfolded
    <3>3. QED
      BY <3>1, <3>2
  <2>4. h = [s \in Small(S, k + 1) |-> IF s = {} THEN 0 ELSE f[Pick(s)] + h[s \ {Pick(s)}]]
    BY <2>2, <2>3
  <2>5. Unfolded(h, f, Small(S, k + 1))
    BY <2>4 DEF Unfolded
  <2>6. QED
    BY <2>5
<1> HIDE DEF N
<1>3. n \in N
  BY <1>1, <1>2, AllNaturals
<1>4. QED
  BY <1>3 DEF N

LEMMA SubsetsUnfold ==
  ASSUME NEW f, NEW S, IsFiniteSet(S)
  PROVE  Unfolded((CHOOSE g : Unfolded(g, f, SUBSET S)), f, SUBSET S)
<1>1. Cardinality(S) \in Nat
  BY FS_CardinalityType
<1>2. SUBSET S = Small(S, Cardinality(S))
  BY FS_Subset DEF Small
<1>3. \E g : Unfolded(g, f, SUBSET S)
  <2>1. \E g : Unfolded(g, f, Small(S, Cardinality(S)))
    BY <1>1, SmallUnfolds
  <2>2. QED
    BY <1>2, <2>1
<1>4. QED
  BY <1>3

Follows(g, f, S) ==
  \A T \in SUBSET S : g[T] = IF T = {} THEN 0 ELSE f[Pick(T)] + g[T \ {Pick(T)}]

LEMMA FollowersAgree ==
  ASSUME NEW f, NEW S, IsFiniteSet(S), NEW g, Follows(g, f, S), NEW h, Follows(h, f, S)
  PROVE  g[S] = h[S]
<1> DEFINE N == {n \in Nat : \E T \in SUBSET S : Cardinality(T) = n /\ g[T] # h[T]}
<1>0. ASSUME NEW T \in SUBSET S
      PROVE  IsFiniteSet(T) /\ Cardinality(T) \in Nat
  BY FS_Subset, FS_CardinalityType
<1>1. SUFFICES ASSUME g[S] # h[S]
               PROVE  FALSE
  OBVIOUS
<1>2. Cardinality(S) \in N
  BY <1>0, <1>1
<1>3. PICK n \in N : \A m \in N : n <= m
  BY <1>2, LeastNatural
<1>4. PICK T \in SUBSET S : Cardinality(T) = n /\ g[T] # h[T]
  BY <1>3
<1>5. /\ g[T] = IF T = {} THEN 0 ELSE f[Pick(T)] + g[T \ {Pick(T)}]
      /\ h[T] = IF T = {} THEN 0 ELSE f[Pick(T)] + h[T \ {Pick(T)}]
  BY DEF Follows
<1>6. T # {}
  BY <1>4, <1>5
<1>7. Cardinality(T \ {Pick(T)}) = n - 1 /\ n \in Nat /\ n - 1 \in Nat
  BY <1>0, <1>4, <1>6, PickRemoved
<1>8. g[T \ {Pick(T)}] = h[T \ {Pick(T)}]
  BY <1>3, <1>7
<1>9. QED
  BY <1>4, <1>5, <1>8

LEMMA SumFollows ==
  ASSUME NEW f, NEW S, IsFiniteSet(S)
  PROVE  \E g : Follows(g, f, S) /\ SumFunctionOnSet(f, S) = g[S]
<1>1. PICK g : Unfolded(g, f, SUBSET S) /\ SumFunctionOnSet(f, S) = g[S]
  BY SubsetsUnfold, SumChosen
<1>2. Follows(g, f, S)
  BY <1>1 DEF Unfolded, Follows
<1>3. QED
  BY <1>1, <1>2

LEMMA SumUnfolds ==
  ASSUME NEW f, NEW S, IsFiniteSet(S), S # {}
  PROVE  SumFunctionOnSet(f, S) = f[Pick(S)] + SumFunctionOnSet(f, S \ {Pick(S)})
<1>1. PICK g : Follows(g, f, S) /\ SumFunctionOnSet(f, S) = g[S]
  BY SumFollows
<1>2. PICK R : R = S \ {Pick(S)}
  OBVIOUS
<1>3. R \in SUBSET S /\ IsFiniteSet(R)
  BY <1>2, FS_Subset
<1>4. PICK h : Follows(h, f, R) /\ SumFunctionOnSet(f, R) = h[R]
  BY <1>3, SumFollows
<1>5. Follows(g, f, R)
  BY <1>1, <1>3 DEF Follows
<1>6. g[R] = h[R]
  BY <1>3, <1>4, <1>5, FollowersAgree
<1>7. g[S] = f[Pick(S)] + g[R]
  BY <1>1, <1>2 DEF Follows
<1>8. QED
  BY <1>1, <1>2, <1>4, <1>6, <1>7

LEMMA SumOfNone ==
  ASSUME NEW f
  PROVE  SumFunctionOnSet(f, {}) = 0
<1>1. PICK g : Follows(g, f, {}) /\ SumFunctionOnSet(f, {}) = g[{}]
  BY SumFollows, FS_EmptySet
<1>2. g[{}] = 0
  BY <1>1 DEF Follows
<1>3. QED
  BY <1>1, <1>2

LEMMA SumInt ==
  ASSUME NEW f, NEW S, IsFiniteSet(S), \A x \in S : f[x] \in Int
  PROVE  SumFunctionOnSet(f, S) \in Int
<1> DEFINE U == {T \in SUBSET S : SumFunctionOnSet(f, T) \in Int}
<1>1. {} \in U
  BY SumOfNone
<1>2. SUFFICES ASSUME S \notin U
               PROVE  FALSE
  OBVIOUS
<1> DEFINE N == {n \in Nat : \E T \in SUBSET S : T \notin U /\ Cardinality(T) = n}
<1>3. Cardinality(S) \in N
  BY <1>2, FS_CardinalityType
<1>4. PICK n \in N : \A m \in N : n <= m
  BY <1>3, LeastNatural
<1>5. PICK T \in SUBSET S : T \notin U /\ Cardinality(T) = n
  BY <1>4
<1>6. T # {} /\ IsFiniteSet(T)
  BY <1>1, <1>5, FS_Subset
<1>7. Pick(T) \in T /\ Cardinality(T \ {Pick(T)}) = n - 1 /\ n - 1 \in Nat
  BY <1>4, <1>5, <1>6, PickRemoved, FS_CardinalityType
<1>8. T \ {Pick(T)} \in U
  BY <1>4, <1>7
<1>9. SumFunctionOnSet(f, T) = f[Pick(T)] + SumFunctionOnSet(f, T \ {Pick(T)})
  BY <1>6, SumUnfolds
<1>10. QED
  BY <1>5, <1>7, <1>8, <1>9

\* Any element can be split off.
Splits(f, T, x) == SumFunctionOnSet(f, T) = f[x] + SumFunctionOnSet(f, T \ {x})

LEMMA SplitsElsewhere ==
  ASSUME NEW f, NEW T, IsFiniteSet(T), \A x \in T : f[x] \in Int,
         NEW p \in T, NEW x \in T, p # x,
         Splits(f, T, p), Splits(f, T \ {p}, x), Splits(f, T \ {x}, p)
  PROVE  Splits(f, T, x)
<1>1. PICK R : R = (T \ {p}) \ {x}
  OBVIOUS
<1>2. R = (T \ {x}) \ {p} /\ IsFiniteSet(R) /\ \A z \in R : f[z] \in Int
  BY <1>1, FS_Subset
<1>3. SumFunctionOnSet(f, R) \in Int
  BY <1>2, SumInt
<1>4. SumFunctionOnSet(f, T) = f[p] + (f[x] + SumFunctionOnSet(f, R))
  BY <1>1 DEF Splits
<1>5. SumFunctionOnSet(f, T \ {x}) = f[p] + SumFunctionOnSet(f, R)
  BY <1>2 DEF Splits
<1>6. SumFunctionOnSet(f, T) = f[x] + SumFunctionOnSet(f, T \ {x})
  BY <1>3, <1>4, <1>5
<1>7. QED
  BY <1>6 DEF Splits

LEMMA SumSplit ==
  ASSUME NEW f, NEW S, IsFiniteSet(S), \A x \in S : f[x] \in Int, NEW y \in S
  PROVE  SumFunctionOnSet(f, S) = f[y] + SumFunctionOnSet(f, S \ {y})
<1> DEFINE U == {T \in SUBSET S : \A x \in T : Splits(f, T, x)}
<1>1. {} \in U
  OBVIOUS
<1>2. ASSUME NEW T \in SUBSET S, NEW q \in T, \A z \in T : T \ {z} \in U
      PROVE  T \in U
  <2>1. IsFiniteSet(T) /\ T # {}
    BY FS_Subset
  <2>2. PICK p \in T : p = Pick(T)
    BY DEF Pick
  <2>3. Splits(f, T, p)
    BY <2>1, <2>2, SumUnfolds DEF Splits
  <2>4. ASSUME NEW x \in T, x # p
        PROVE  Splits(f, T, x)
    <3>1. Splits(f, T \ {p}, x) /\ Splits(f, T \ {x}, p)
      BY <1>2, <2>4
    <3>2. QED
      BY <2>1, <2>3, <2>4, <3>1, SplitsElsewhere
  <2>5. QED
    BY <2>3, <2>4
<1> HIDE DEF U
<1>3. S \in U
  BY <1>1, <1>2, FiniteSubsetsAll
<1>4. QED
  BY <1>3 DEF U, Splits

LEMMA SumNat ==
  ASSUME NEW f, NEW S, IsFiniteSet(S), \A x \in S : f[x] \in Nat
  PROVE  SumFunctionOnSet(f, S) \in Nat
<1> DEFINE U == {T \in SUBSET S : SumFunctionOnSet(f, T) \in Nat}
<1>1. {} \in U
  BY SumOfNone
<1>2. ASSUME NEW T \in SUBSET S, NEW x \in T, T \ {x} \in U
      PROVE  T \in U
  <2>1. IsFiniteSet(T) /\ \A z \in T : f[z] \in Int
    BY FS_Subset
  <2>2. SumFunctionOnSet(f, T) = f[x] + SumFunctionOnSet(f, T \ {x})
    BY <2>1, SumSplit
  <2>3. QED
    BY <1>2, <2>2
<1> HIDE DEF U
<1>3. S \in U
  BY <1>1, <1>2, FiniteSubsets
<1>4. QED
  BY <1>3 DEF U

LEMMA SumAtMost ==
  ASSUME NEW f, NEW g, NEW S, IsFiniteSet(S), \A x \in S : f[x] \in Int /\ g[x] \in Int,
         \A x \in S : f[x] <= g[x]
  PROVE  SumFunctionOnSet(f, S) <= SumFunctionOnSet(g, S)
<1> DEFINE U == {T \in SUBSET S : SumFunctionOnSet(f, T) <= SumFunctionOnSet(g, T)}
<1>1. {} \in U
  BY SumOfNone
<1>2. ASSUME NEW T \in SUBSET S, NEW x \in T, T \ {x} \in U
      PROVE  T \in U
  <2>1. IsFiniteSet(T) /\ IsFiniteSet(T \ {x})
    BY FS_Subset
  <2>2. /\ SumFunctionOnSet(f, T) = f[x] + SumFunctionOnSet(f, T \ {x})
        /\ SumFunctionOnSet(g, T) = g[x] + SumFunctionOnSet(g, T \ {x})
    BY <2>1, SumSplit
  <2>3. SumFunctionOnSet(f, T \ {x}) \in Int /\ SumFunctionOnSet(g, T \ {x}) \in Int
    BY <2>1, SumInt
  <2>4. QED
    BY <1>2, <2>2, <2>3
<1> HIDE DEF U
<1>3. S \in U
  BY <1>1, <1>2, FiniteSubsets
<1>4. QED
  BY <1>3 DEF U

LEMMA SumOfSame ==
  ASSUME NEW f, NEW g, NEW S, IsFiniteSet(S), \A x \in S : f[x] \in Int /\ g[x] = f[x]
  PROVE  SumFunctionOnSet(g, S) = SumFunctionOnSet(f, S)
<1>1. \A x \in S : g[x] \in Int /\ f[x] <= g[x] /\ g[x] <= f[x]
  OBVIOUS
<1>2. /\ SumFunctionOnSet(f, S) <= SumFunctionOnSet(g, S)
      /\ SumFunctionOnSet(g, S) <= SumFunctionOnSet(f, S)
  BY <1>1, SumAtMost
<1>3. SumFunctionOnSet(f, S) \in Int /\ SumFunctionOnSet(g, S) \in Int
  BY <1>1, SumInt
<1>4. QED
  BY <1>2, <1>3

\* One value changes.
LEMMA SumChanged ==
  ASSUME NEW f, NEW g, NEW S, IsFiniteSet(S), NEW y \in S,
         \A x \in S : f[x] \in Int /\ g[x] \in Int, \A x \in S \ {y} : g[x] = f[x]
  PROVE  SumFunctionOnSet(g, S) = SumFunctionOnSet(f, S) + g[y] - f[y]
<1>1. IsFiniteSet(S \ {y})
  BY FS_Subset
<1>2. SumFunctionOnSet(g, S \ {y}) = SumFunctionOnSet(f, S \ {y})
  BY <1>1, SumOfSame
<1>3. /\ SumFunctionOnSet(f, S) = f[y] + SumFunctionOnSet(f, S \ {y})
      /\ SumFunctionOnSet(g, S) = g[y] + SumFunctionOnSet(g, S \ {y})
  BY SumSplit
<1>4. SumFunctionOnSet(f, S \ {y}) \in Int
  BY <1>1, SumInt
<1>5. QED
  BY <1>2, <1>3, <1>4

LEMMA SumCovers ==
  ASSUME NEW f, NEW S, IsFiniteSet(S), NEW y \in S, \A x \in S : f[x] \in Nat
  PROVE  f[y] <= SumFunctionOnSet(f, S)
<1>1. IsFiniteSet(S \ {y})
  BY FS_Subset
<1>2. SumFunctionOnSet(f, S) = f[y] + SumFunctionOnSet(f, S \ {y})
  BY SumSplit
<1>3. SumFunctionOnSet(f, S \ {y}) \in Nat
  BY <1>1, SumNat
<1>4. QED
  BY <1>2, <1>3

LEMMA SumOfEqual ==
  ASSUME NEW f, NEW S, IsFiniteSet(S), NEW c \in Int, \A x \in S : f[x] = c
  PROVE  SumFunctionOnSet(f, S) = Cardinality(S) * c
<1> DEFINE U == {T \in SUBSET S : SumFunctionOnSet(f, T) = Cardinality(T) * c}
<1>1. {} \in U
  BY SumOfNone, FS_EmptySet
<1>2. ASSUME NEW T \in SUBSET S, NEW x \in T, T \ {x} \in U
      PROVE  T \in U
  <2>1. IsFiniteSet(T) /\ Cardinality(T) \in Nat
    BY FS_Subset, FS_CardinalityType
  <2>2. Cardinality(T \ {x}) = Cardinality(T) - 1
    BY <2>1, FS_RemoveElement
  <2>3. SumFunctionOnSet(f, T) = f[x] + SumFunctionOnSet(f, T \ {x})
    BY <2>1, SumSplit
  <2>4. SumFunctionOnSet(f, T) = c + (Cardinality(T) - 1) * c
    BY <1>2, <2>2, <2>3
  <2>5. QED
    BY <2>1, <2>4
<1> HIDE DEF U
<1>3. S \in U
  BY <1>1, <1>2, FiniteSubsets
<1>4. QED
  BY <1>3 DEF U

LEMMA SumOfSums ==
  ASSUME NEW f, NEW g, NEW h, NEW S, IsFiniteSet(S),
         \A x \in S : f[x] \in Int /\ g[x] \in Int /\ h[x] = f[x] + g[x]
  PROVE  SumFunctionOnSet(h, S) = SumFunctionOnSet(f, S) + SumFunctionOnSet(g, S)
<1> DEFINE U == {T \in SUBSET S :
                   SumFunctionOnSet(h, T) = SumFunctionOnSet(f, T) + SumFunctionOnSet(g, T)}
<1>1. {} \in U
  BY SumOfNone
<1>2. ASSUME NEW T \in SUBSET S, NEW x \in T, T \ {x} \in U
      PROVE  T \in U
  <2>1. IsFiniteSet(T) /\ IsFiniteSet(T \ {x}) /\ \A z \in T : h[z] \in Int
    BY FS_Subset
  <2>2. /\ SumFunctionOnSet(f, T) = f[x] + SumFunctionOnSet(f, T \ {x})
        /\ SumFunctionOnSet(g, T) = g[x] + SumFunctionOnSet(g, T \ {x})
        /\ SumFunctionOnSet(h, T) = h[x] + SumFunctionOnSet(h, T \ {x})
    BY <2>1, SumSplit
  <2>3. SumFunctionOnSet(f, T \ {x}) \in Int /\ SumFunctionOnSet(g, T \ {x}) \in Int
    BY <2>1, SumInt
  <2>4. QED
    BY <1>2, <2>2, <2>3
<1> HIDE DEF U
<1>3. S \in U
  BY <1>1, <1>2, FiniteSubsets
<1>4. QED
  BY <1>3 DEF U

\* Shares of a whole, each rounded down, do not add up to more than the whole.
LEMMA SumOfQuotients ==
  ASSUME NEW f, NEW g, NEW S, IsFiniteSet(S), NEW a \in Nat, NEW b \in Nat \ {0},
         \A x \in S : f[x] \in Nat /\ g[x] = (f[x] * a) \div b
  PROVE  SumFunctionOnSet(g, S) <= (SumFunctionOnSet(f, S) * a) \div b
<1> DEFINE U == {T \in SUBSET S :
                   SumFunctionOnSet(g, T) <= (SumFunctionOnSet(f, T) * a) \div b}
<1>1. {} \in U
  <2>1. (0 * a) \div b \in Nat
    BY QuotientFloor
  <2>2. QED
    BY <2>1, SumOfNone
<1>2. ASSUME NEW T \in SUBSET S, NEW x \in T, T \ {x} \in U
      PROVE  T \in U
  <2>1. IsFiniteSet(T) /\ IsFiniteSet(T \ {x}) /\ \A z \in T : f[z] \in Nat /\ g[z] \in Int
    <3>1. \A z \in T : f[z] * a \in Nat
      BY ProductType
    <3>2. QED
      BY <3>1, FS_Subset, QuotientFloor
  <2>2. /\ SumFunctionOnSet(f, T) = f[x] + SumFunctionOnSet(f, T \ {x})
        /\ SumFunctionOnSet(g, T) = g[x] + SumFunctionOnSet(g, T \ {x})
    BY <2>1, SumSplit
  <2>3. SumFunctionOnSet(f, T \ {x}) \in Nat
    BY <2>1, SumNat
  <2>4. PICK r \in Nat : r = SumFunctionOnSet(f, T \ {x})
    BY <2>3
  <2>5. f[x] * a \in Nat /\ r * a \in Nat /\ (f[x] + r) * a = f[x] * a + r * a
    BY <2>1, <2>4
  <2>6. (f[x] * a) \div b + (r * a) \div b <= ((f[x] + r) * a) \div b
    BY <2>5, QuotientsAdd
  <2>7. SumFunctionOnSet(g, T \ {x}) \in Int
    BY <2>1, SumInt
  <2>8. g[x] = (f[x] * a) \div b /\ SumFunctionOnSet(g, T \ {x}) <= (r * a) \div b
    BY <1>2, <2>4
  <2>9. SumFunctionOnSet(g, T) <= ((f[x] + r) * a) \div b
    <3>1. (f[x] * a) \div b \in Nat /\ (r * a) \div b \in Nat /\ ((f[x] + r) * a) \div b \in Nat
      BY <2>5, QuotientFloor
    <3>2. QED
      BY <2>2, <2>6, <2>7, <2>8, <3>1
  <2>10. QED
    BY <2>2, <2>4, <2>9
<1> HIDE DEF U
<1>3. S \in U
  BY <1>1, <1>2, FiniteSubsets
<1>4. QED
  BY <1>3 DEF U

(***************************************************************************)
(* Sequences of sequences.                                                 *)
(***************************************************************************)
\* The partial concatenations of a sequence of sequences.
LEMMA FlattenRun ==
  ASSUME NEW S, NEW n \in Nat, NEW p \in [1 .. n -> Seq(S)]
  PROVE  \E w : /\ w[0] = <<>> /\ w[n] = FlattenSeq(p)
                /\ \A i \in 1 .. n : w[i] = w[i - 1] \o p[i]
<1> DEFINE Runs(w, k) == w = [i \in 1 .. k |-> IF i = 1 THEN p[i] ELSE w[i - 1] \o p[i]]
           T == {k \in Nat : \E w : Runs(w, k)}
<1>0. Len(p) = n /\ \A i \in 1 .. n : p[i] \in Seq(S)
  OBVIOUS
<1>1. 0 \in T
  <2>1. Runs([i \in 1 .. 0 |-> <<>>], 0)
    OBVIOUS
  <2> HIDE DEF Runs
  <2>2. QED
    BY <2>1
<1>2. ASSUME NEW k \in Nat, k \in T
      PROVE  k + 1 \in T
  <2>1. PICK w : Runs(w, k)
    BY <1>2
  <2> PICK z : z = IF k + 1 = 1 THEN p[k + 1] ELSE w[k] \o p[k + 1]
    OBVIOUS
  <2> DEFINE u == [i \in 1 .. k + 1 |-> IF i = k + 1 THEN z ELSE w[i]]
  <2>2. ASSUME NEW i \in 1 .. k + 1
        PROVE  u[i] = IF i = 1 THEN p[i] ELSE u[i - 1] \o p[i]
    <3>1. CASE i = k + 1
      <4>1. u[i] = z /\ (i # 1 => u[i - 1] = w[k])
        BY <3>1
      <4>2. QED
        BY <3>1, <4>1
    <3>2. CASE i # k + 1
      <4>1. u[i] = w[i] /\ (i # 1 => u[i - 1] = w[i - 1]) /\ i \in 1 .. k
        BY <3>2
      <4>2. w[i] = IF i = 1 THEN p[i] ELSE w[i - 1] \o p[i]
        BY <2>1, <4>1
      <4>3. QED
        BY <4>1, <4>2
    <3>3. QED
      BY <3>1, <3>2
  <2>3. Runs(u, k + 1)
    BY <2>2
  <2> HIDE DEF u
  <2> HIDE DEF Runs
  <2>4. QED
    BY <2>3
<1> HIDE DEF T
<1>3. n \in T
  BY <1>1, <1>2, AllNaturals
<1>4. \E w : Runs(w, n)
  BY <1>3 DEF T
<1> DEFINE flatten == CHOOSE w : Runs(w, n)
<1>5. Runs(flatten, n)
  BY <1>4
<1>6. FlattenSeq(p) = IF n = 0 THEN p ELSE flatten[n]
  BY <1>0 DEF FlattenSeq
<1> HIDE DEF flatten
<1> DEFINE v == [i \in 0 .. n |-> IF i = 0 THEN <<>> ELSE flatten[i]]
<1>7. v[0] = <<>>
  OBVIOUS
<1>8. v[n] = FlattenSeq(p)
  <2>1. CASE n = 0
    BY <1>6, <2>1
  <2>2. CASE n # 0
    BY <1>6, <2>2
  <2>3. QED
    BY <2>1, <2>2
<1>9. ASSUME NEW i \in 1 .. n
      PROVE  v[i] = v[i - 1] \o p[i]
  <2>1. flatten[i] = IF i = 1 THEN p[i] ELSE flatten[i - 1] \o p[i]
    BY <1>5
  <2>2. v[i] = flatten[i] /\ v[i - 1] = IF i = 1 THEN <<>> ELSE flatten[i - 1]
    OBVIOUS
  <2>3. <<>> \o p[i] = p[i]
    BY <1>0
  <2>4. QED
    BY <2>1, <2>2, <2>3
<1> HIDE DEF v
<1>10. QED
  BY <1>7, <1>8, <1>9

\* What a concatenation contains, and that it repeats nothing if its parts do not.
LEMMA Concatenated ==
  ASSUME NEW S, NEW x \in Seq(S), NEW y \in Seq(S)
  PROVE  /\ x \o y \in Seq(S)
         /\ ToSet(x \o y) = ToSet(x) \cup ToSet(y)
         /\ IsInjective(x) /\ IsInjective(y) /\ ToSet(x) \cap ToSet(y) = {}
              => IsInjective(x \o y)
<1>1. PICK m \in Nat : m = Len(x) /\ DOMAIN x = 1 .. m
  OBVIOUS
<1>2. PICK n \in Nat : n = Len(y) /\ DOMAIN y = 1 .. n
  OBVIOUS
<1>3. PICK z : z = x \o y
  OBVIOUS
<1>4. /\ z \in Seq(S) /\ DOMAIN z = 1 .. m + n
      /\ \A i \in 1 .. m : z[i] = x[i]
  BY <1>1, <1>2, <1>3
<1>5. \A i \in 1 .. n : z[m + i] = y[i]
  BY <1>1, <1>2, <1>3
<1>6. \A i \in 1 .. m + n : i \in 1 .. m \/ (i - m \in 1 .. n /\ m + (i - m) = i)
  OBVIOUS
<1>7. ToSet(z) \subseteq ToSet(x) \cup ToSet(y)
  <2>1. ASSUME NEW i \in 1 .. m + n
        PROVE  z[i] \in ToSet(x) \cup ToSet(y)
    <3>1. CASE i \in 1 .. m
      BY <1>1, <1>4, <3>1 DEF ToSet
    <3>2. CASE i - m \in 1 .. n /\ m + (i - m) = i
      <4>1. z[i] = y[i - m]
        BY <1>5, <3>2
      <4>2. QED
        BY <1>2, <3>2, <4>1 DEF ToSet
    <3>3. QED
      BY <1>6, <3>1, <3>2
  <2>2. QED
    BY <1>4, <2>1 DEF ToSet
<1>8. ToSet(x) \subseteq ToSet(z)
  BY <1>1, <1>2, <1>4 DEF ToSet
<1>9. ToSet(y) \subseteq ToSet(z)
  <2>1. \A i \in 1 .. n : m + i \in 1 .. m + n
    OBVIOUS
  <2>2. QED
    BY <1>2, <1>4, <1>5, <2>1 DEF ToSet
<1>10. ASSUME IsInjective(x), IsInjective(y), ToSet(x) \cap ToSet(y) = {},
              NEW i \in 1 .. m + n, NEW j \in 1 .. m + n, z[i] = z[j]
       PROVE  i = j
  <2>1. \A k \in 1 .. m, l \in 1 .. n : x[k] # y[l]
    BY <1>1, <1>2, <1>10 DEF ToSet
  <2>2. /\ \A k, l \in 1 .. m : x[k] = x[l] => k = l
        /\ \A k, l \in 1 .. n : y[k] = y[l] => k = l
    BY <1>1, <1>2, <1>10 DEF IsInjective
  <2>3. /\ i \in 1 .. m => z[i] = x[i]
        /\ j \in 1 .. m => z[j] = x[j]
        /\ i \notin 1 .. m => i - m \in 1 .. n /\ z[i] = y[i - m]
        /\ j \notin 1 .. m => j - m \in 1 .. n /\ z[j] = y[j - m]
    BY <1>4, <1>5, <1>6
  <2>4. CASE i \in 1 .. m /\ j \in 1 .. m
    BY <1>10, <2>2, <2>3, <2>4
  <2>5. CASE i \notin 1 .. m /\ j \notin 1 .. m
    <3>1. i - m = j - m
      BY <1>10, <2>2, <2>3, <2>5
    <3>2. QED
      BY <3>1
  <2>6. CASE (i \in 1 .. m) # (j \in 1 .. m)
    BY <1>10, <2>1, <2>3, <2>6
  <2>7. QED
    BY <2>4, <2>5, <2>6
<1>11. QED
  BY <1>3, <1>4, <1>7, <1>8, <1>9, <1>10 DEF IsInjective
=============================================================================
