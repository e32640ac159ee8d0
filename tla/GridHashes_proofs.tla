-------------------------- MODULE GridHashes_proofs --------------------------
(***************************************************************************)
(* That each hash has the bits its definition gives it: aHash, dHash and    *)
(* BMH for any samples, mHash for any sums of blocks, the median threshold  *)
(* for any values, and wHash for images of any size in either mode.  The    *)
(* insertion sort puts the values in order and keeps all of them, so the    *)
(* median is known by its ranks; a level of the wavelet is undone by its    *)
(* inverse, so that removing the coarsest coefficient lowers all samples by *)
(* the same; and the levels that remain add up squares, which are ranked.   *)
(* What rounding adds to wHash's band and mHash's means is any error up to  *)
(* a bound: it reaches the bits that are as near their threshold as that.   *)
(***************************************************************************)
EXTENDS GridHashes, Recursion

-----------------------------------------------------------------------------
\* The sums of the community modules are those of Recursion.
LEMMA SumOfIs ==
    ASSUME NEW S, NEW f, Summable(f, S), NEW t \in SUBSET S
    PROVE  SumOf(f, t) = Sums(f)[t]
<1> DEFINE g == [x \in t |-> f[x]]
     Folds(h) == h = [s \in SUBSET t |-> IF s = {} THEN 0 ELSE f[Chosen(s)] + h[s \ {Chosen(s)}]]
<1>1. Summable(g, t)
  BY FS_Subset DEF Summable
<1>2. \A s \in SUBSET t : s # {} => g[Chosen(s)] = f[Chosen(s)]
  BY ChosenIsIn
<1>3. DOMAIN g = t /\ \A x \in t : f[x] = g[x]
  OBVIOUS
<1> HIDE DEF g
<1>4. \A h : Folds(h) <=> AddsUp(g, h)
  BY <1>2, <1>3 DEF AddsUp
<1>5. Folds(Sums(g))
  BY <1>1, <1>4, SumsAddUp
<1>6. SumOf(f, t) = (CHOOSE h : Folds(h))[t]
  BY DEF SumOf, MapThenSumSet, MapThenFoldSet, Chosen
<1> HIDE DEF Folds
<1>7. Folds(CHOOSE h : Folds(h))
  BY <1>5
<1>8. (CHOOSE h : Folds(h)) = Sums(g)
  BY <1>1, <1>4, <1>7, SumsAreOne
<1>9. Sums(f)[t] = Sums(g)[t]
  BY <1>1, <1>3, SumsAgree
<1> QED
  BY <1>6, <1>8, <1>9

-----------------------------------------------------------------------------
\* aHash.  The differences to all cells add up to the value times the number of cells,
\* less the sum of all.
DifferenceSum(samples, c) ==
    LET above(o) == samples[c] - samples[o] IN MapThenSumSet(above, DOMAIN samples)

LEMMA DifferencesSum ==
    ASSUME NEW S, NEW f, Summable(f, S), NEW c \in S
    PROVE  DifferenceSum(f, c) = f[c] * Cardinality(S) - Sums(f)[S]
<1> DEFINE g == [x \in S |-> f[c] - f[x]]
     ones == [x \in S |-> 1]
     Folds(h) == h = [s \in SUBSET S |-> IF s = {} THEN 0 ELSE (f[c] - f[Chosen(s)]) + h[s \ {Chosen(s)}]]
<1>1. DOMAIN f = S /\ IsFiniteSet(S) /\ f \in [S -> Int] /\ f[c] \in Int
  BY DEF Summable
<1>2. \A s \in SUBSET S : s # {} => g[Chosen(s)] = f[c] - f[Chosen(s)]
  BY ChosenIsIn
<1>3. DOMAIN g = S
  OBVIOUS
<1>4. Summable(ones, S) /\ Sums(ones)[S] = Cardinality(S)
  BY <1>1, CountIsSum
<1>5. g = [x \in S |-> f[c] * ones[x] + (-1) * f[x]]
  BY <1>1
<1>6. Cardinality(S) \in Nat /\ Sums(f)[S] \in Int
  BY <1>1, SumIsInt, FS_CardinalityType
<1> HIDE DEF g, ones
<1>7. Summable(g, S) /\ Sums(g)[S] = f[c] * Sums(ones)[S] + (-1) * Sums(f)[S]
  <2> DEFINE p == f[c]  q == -1
  <2>1. p \in Int /\ q \in Int /\ S \in SUBSET S /\ g = [x \in S |-> p * ones[x] + q * f[x]]
    BY <1>1, <1>5
  <2> HIDE DEF p, q
  <2>2. Summable(g, S) /\ Sums(g)[S] = p * Sums(ones)[S] + q * Sums(f)[S]
    BY ONLY <1>4, <2>1, Summable(f, S), SumsCombine
  <2> QED
    BY <2>2 DEF p, q
<1>8. \A h : Folds(h) <=> AddsUp(g, h)
  BY <1>2, <1>3 DEF AddsUp
<1>9. Folds(Sums(g))
  BY <1>7, <1>8, SumsAddUp
<1>10. DifferenceSum(f, c) = (CHOOSE h : Folds(h))[S]
  BY <1>1 DEF DifferenceSum, MapThenSumSet, MapThenFoldSet, Chosen
<1> HIDE DEF Folds
<1>11. Folds(CHOOSE h : Folds(h))
  BY <1>9
<1>12. (CHOOSE h : Folds(h)) = Sums(g)
  BY <1>7, <1>8, <1>11, SumsAreOne
<1> DEFINE product == f[c] * Cardinality(S)  total == Sums(f)[S]
<1>13. product \in Int /\ total \in Int /\ Sums(g)[S] = product + (-1) * total
  BY <1>1, <1>4, <1>6, <1>7
<1>14. DifferenceSum(f, c) = Sums(g)[S]
  BY <1>10, <1>12
<1> HIDE DEF product, total
<1>15. DifferenceSum(f, c) = product - total
  BY <1>13, <1>14
<1> QED
  BY <1>15 DEF product, total

LEMMA AHashIsDefined ==
    ASSUME NEW S, NEW samples, Summable(samples, S)
    PROVE  AHashAsDefined(samples, AHash(samples))
<1> DEFINE n == Cardinality(S)  total == Sums(samples)[S]
<1>1. DOMAIN samples = S /\ IsFiniteSet(S) /\ samples \in [S -> Int]
  BY DEF Summable
<1>2. n \in Nat /\ total \in Int
  BY <1>1, SumIsInt, FS_CardinalityType
<1>3. SumOf(samples, S) = total
  BY SumOfIs
<1> SUFFICES ASSUME NEW c \in S PROVE c \in AHash(samples) <=> DifferenceSum(samples, c) >= 0
  BY <1>1 DEF AHashAsDefined, DifferenceSum
<1>4. DifferenceSum(samples, c) = samples[c] * n - total
  BY DifferencesSum
<1>5. c \in AHash(samples) <=> samples[c] * n >= total
  BY <1>1, <1>3 DEF AHash, AtLeastMean
<1>6. samples[c] * n \in Int
  BY <1>1, <1>2
<1> HIDE DEF n, total
<1> QED
  BY <1>2, <1>4, <1>5, <1>6

-----------------------------------------------------------------------------
\* dHash.  Bit k is of column k % HashSize of row k \div HashSize, in the code's order
\* of bits and of cells.
LEMMA PlaceOf ==
    ASSUME NEW w \in Nat \ {0}, NEW x \in 0..w - 1, NEW y \in Nat
    PROVE  (y * w + x) \div w = y /\ (y * w + x) % w = x /\ y * w + x \in Nat
<1>1. y * w \in Nat /\ y * w + x \in Nat /\ y * w <= y * w + x /\ y * w + x < y * w + w /\ y * w + x = w * y + x
  OBVIOUS
<1> DEFINE u == y * w + x
<1>2. u \div w = y
  <2> HIDE DEF u
  <2> QED
    BY <1>1, QuotientIs DEF u
<1>3. u % w = x
  BY <1>1, OneRemainder
<1> QED
  BY <1>1, <1>2, <1>3

LEMMA PlaceWithin ==
    ASSUME NEW w \in Nat \ {0}, NEW h \in Nat, NEW x \in 0..w - 1, NEW y \in 0..h - 1
    PROVE  y * w + x \in 0..h * w - 1
<1>1. y \in Nat /\ y + 1 \in Nat /\ y + 1 <= h
  OBVIOUS
<1>2. (y + 1) * w <= h * w /\ h * w \in Nat
  BY <1>1, Product
<1>3. (y + 1) * w = y * w + w /\ y * w \in Nat
  BY <1>1
<1> DEFINE a == y * w  b == h * w  c == (y + 1) * w
<1>4. a \in Nat /\ b \in Nat /\ c = a + w /\ c <= b
  BY <1>2, <1>3
<1> HIDE DEF a, b, c
<1>5. a + x \in 0..b - 1
  BY <1>4
<1> QED
  BY <1>5 DEF a, b

LEMMA DHashIsDefined ==
    ASSUME NEW grid, NEW samples,
           samples = [k \in 0..(HashSize + 1) * HashSize - 1 |-> grid[<<k % (HashSize + 1), k \div (HashSize + 1)>>]]
    PROVE  DHashAsDefined(grid, DHash(samples))
<1> SUFFICES ASSUME NEW x \in 0..HashSize - 1, NEW y \in 0..HashSize - 1
             PROVE  y * HashSize + x \in DHash(samples) <=> grid[<<x + 1, y>>] > grid[<<x, y>>]
  BY DEF DHashAsDefined
<1> DEFINE H == HashSize  w == HashSize + 1  k == y * H + x  at == y * w + x
<1>1. H \in Nat \ {0} /\ w \in Nat \ {0} /\ y \in Nat /\ y \in 0..H - 1 /\ x \in 0..H - 1
  BY GridHashesAssumption
<1> HIDE DEF H
<1>2. x \in 0..w - 1 /\ x + 1 \in 0..w - 1
  BY <1>1 DEF H
<1>2a. y * w + (x + 1) = at + 1
  <2> HIDE DEF w
  <2>1. y * w \in Nat
    BY <1>1
  <2> QED
    BY <1>1, <2>1
<1>3. k \in 0..H * H - 1 /\ k \div H = y /\ k % H = x
  BY <1>1, PlaceOf, PlaceWithin
<1> HIDE DEF w
<1>4. at \in 0..H * w - 1 /\ at \div w = y /\ at % w = x
  BY <1>1, <1>2, PlaceOf, PlaceWithin
<1>5. at + 1 \in 0..H * w - 1 /\ (at + 1) \div w = y /\ (at + 1) % w = x + 1
  <2> DEFINE right == x + 1
  <2>1. right \in 0..w - 1
    BY <1>2
  <2> HIDE DEF right
  <2>2. y * w + right \in 0..H * w - 1 /\ (y * w + right) \div w = y /\ (y * w + right) % w = right
    BY <1>1, <2>1, PlaceOf, PlaceWithin
  <2>3. y * w + right = at + 1
    BY <1>2a DEF right
  <2> HIDE DEF at
  <2> QED
    BY <2>2, <2>3 DEF right
<1>6. H * w = w * H
  BY <1>1
<1>7. samples[at] = grid[<<x, y>>] /\ samples[at + 1] = grid[<<x + 1, y>>]
  BY <1>4, <1>5, <1>6 DEF H, w
<1>8. k \in DHash(samples) <=> samples[(k \div H) * w + (k % H)] < samples[(k \div H) * w + (k % H) + 1]
  <2> HIDE DEF k
  <2> QED
    BY <1>3 DEF DHash, RowWidth, H, w
<1>9. k \in DHash(samples) <=> samples[at] < samples[at + 1]
  BY <1>3, <1>8
<1>10. k \in DHash(samples) <=> grid[<<x, y>>] < grid[<<x + 1, y>>]
  BY <1>7, <1>9
<1> QED
  BY <1>10 DEF H

\* The least and the largest of a finite set, as Min() and Max() choose them.
LEMMA LeastIs ==
    ASSUME NEW T, NEW x \in T, T \subseteq Int, \A y \in T : x <= y
    PROVE  Min(T) = x
<1>1. \A z \in T : (\A y \in T : z <= y) => z = x
  <2> SUFFICES ASSUME NEW z \in T, \A y \in T : z <= y PROVE z = x
    OBVIOUS
  <2>1. z \in Int /\ x \in Int /\ z <= x /\ x <= z
    OBVIOUS
  <2> QED
    BY <2>1
<1>2. Min(T) = CHOOSE z \in T : \A y \in T : z <= y
  BY DEF Min
<1> QED
  BY <1>1, <1>2

LEMMA LargestIs ==
    ASSUME NEW T, NEW x \in T, T \subseteq Int, \A y \in T : y <= x
    PROVE  Max(T) = x
<1>1. \A z \in T : (\A y \in T : z >= y) => z = x
  <2> SUFFICES ASSUME NEW z \in T, \A y \in T : z >= y PROVE z = x
    OBVIOUS
  <2>1. z \in Int /\ x \in Int /\ z <= x /\ x <= z
    OBVIOUS
  <2> QED
    BY <2>1
<1>2. \A y \in T : x >= y
  OBVIOUS
<1>3. Max(T) = CHOOSE z \in T : \A y \in T : z >= y
  BY DEF Max
<1> QED
  BY <1>1, <1>2, <1>3

\* More than the half, without a fraction.
LEMMA MoreThanHalf ==
    ASSUME NEW a \in Nat, NEW n \in Nat
    PROVE  /\ a > n \div 2 <=> 2 * a > n
           /\ n \div 2 \in Nat /\ 2 * (n \div 2) <= n /\ n <= 2 * (n \div 2) + 1
<1> DEFINE h == n \div 2  r == n % 2
<1>1. h \in Nat /\ r \in 0..1 /\ n = 2 * h + r
  OBVIOUS
<1> HIDE DEF h, r
<1> QED
  BY <1>1 DEF h

-----------------------------------------------------------------------------
\* BMH.  How many cells are not brighter than a value.
SeenUpTo(samples, v) == Cardinality({c \in DOMAIN samples : samples[c] <= v})

AreBytes(samples) ==
    /\ IsFiniteSet(DOMAIN samples) /\ DOMAIN samples # {} /\ samples \in [DOMAIN samples -> 0..255]

LEMMA SeenGrows ==
    ASSUME NEW samples, AreBytes(samples), NEW u \in Int, NEW v \in Int, u <= v
    PROVE  /\ SeenUpTo(samples, u) \in Nat /\ SeenUpTo(samples, v) \in Nat
           /\ SeenUpTo(samples, u) <= SeenUpTo(samples, v)
<1> DEFINE S == DOMAIN samples
     low == {c \in S : samples[c] <= u}
     high == {c \in S : samples[c] <= v}
<1>1. IsFiniteSet(S) /\ \A c \in S : samples[c] \in Int
  BY DEF AreBytes
<1>2. low \in SUBSET high /\ high \in SUBSET S
  BY <1>1
<1>3. IsFiniteSet(low) /\ IsFiniteSet(high)
  BY <1>1, <1>2, FS_Subset
<1>4. Cardinality(low) \in Nat /\ Cardinality(high) \in Nat
  BY <1>3, FS_CardinalityType
<1>5. Cardinality(low) <= Cardinality(high)
  BY <1>2, <1>3, FS_Subset
<1> QED
  BY <1>4, <1>5 DEF SeenUpTo

LEMMA MedianIsLeast ==
    ASSUME NEW samples, AreBytes(samples)
    PROVE  /\ Median(samples) \in 0..255
           /\ SeenUpTo(samples, Median(samples)) > Cardinality(DOMAIN samples) \div 2
           /\ \A v \in 0..255 : SeenUpTo(samples, v) > Cardinality(DOMAIN samples) \div 2 => Median(samples) <= v
<1> DEFINE S == DOMAIN samples  half == Cardinality(S) \div 2  T == {v \in 0..255 : SeenUpTo(samples, v) > half}
<1>1. IsFiniteSet(S) /\ S # {} /\ \A c \in S : samples[c] \in 0..255
  BY DEF AreBytes
<1>2. Cardinality(S) \in Nat \ {0}
  BY <1>1, FS_CardinalityType, FS_EmptySet
<1>3. {c \in S : samples[c] <= 255} = S
  BY <1>1
<1>4. SeenUpTo(samples, 255) = Cardinality(S)
  BY <1>3 DEF SeenUpTo
<1>5. Cardinality(S) > half
  <2> DEFINE n == Cardinality(S)
  <2>1. n \in Nat \ {0}
    BY <1>2
  <2> HIDE DEF n
  <2>2. n > n \div 2
    BY <2>1
  <2> QED
    BY <2>2 DEF n
<1>6. T # {} /\ T \subseteq Nat
  <2>1. 255 \in T
    BY <1>4, <1>5
  <2> QED
    BY <2>1
<1>7. PICK x \in T : \A y \in T : x <= y
  <2> HIDE DEF T
  <2> QED
    BY <1>6, LeastOne
<1>8. Min(T) = x
  <2>1. T \subseteq Int
    BY <1>6
  <2> HIDE DEF T
  <2> QED
    BY <1>7, <2>1, LeastIs
<1>9. Median(samples) = Min(T)
  BY DEF Median, SeenEnough, SeenUpTo
<1> QED
  BY <1>7, <1>8, <1>9

LEMMA BmhIsDefined ==
    ASSUME NEW samples, AreBytes(samples)
    PROVE  BmhAsDefined(samples, Bmh(samples))
<1> DEFINE S == DOMAIN samples  n == Cardinality(S)  m == Median(samples)  answer == Bmh(samples)
<1>1. IsFiniteSet(S) /\ S # {} /\ \A c \in S : samples[c] \in 0..255
  BY DEF AreBytes
<1>2. n \in Nat /\ answer = {c \in S : samples[c] >= m}
  BY <1>1, FS_CardinalityType DEF Bmh
<1>3. /\ m \in 0..255 /\ SeenUpTo(samples, m) > n \div 2
      /\ \A v \in 0..255 : SeenUpTo(samples, v) > n \div 2 => m <= v
  BY MedianIsLeast
<1> HIDE DEF m, n, answer
<1>4. ASSUME NEW c \in S
      PROVE  c \in answer <=> 2 * Cardinality({o \in S : samples[o] <= samples[c]}) > n
  <2> DEFINE v == samples[c]  seen == SeenUpTo(samples, v)
  <2>1. v \in 0..255 /\ v \in Int /\ m \in Int
    BY <1>1, <1>3
  <2>2. seen \in Nat
    BY <2>1, SeenGrows
  <2>3. seen > n \div 2 => m <= v
    BY <1>3, <2>1
  <2>4. m <= v => seen > n \div 2
    <3>1. m <= v => SeenUpTo(samples, m) \in Nat /\ SeenUpTo(samples, m) <= seen
      BY <2>1, SeenGrows
    <3>2. n \div 2 \in Nat
      BY <1>2
    <3> HIDE DEF seen, v
    <3> QED
      BY <1>3, <2>2, <3>1, <3>2
  <2>5. c \in answer <=> m <= v
    BY <1>2, <2>1
  <2>6. seen > n \div 2 <=> 2 * seen > n
    BY <1>2, <2>2, MoreThanHalf
  <2>7. c \in answer <=> 2 * seen > n
    <3> HIDE DEF seen, v
    <3> QED
      BY <2>3, <2>4, <2>5, <2>6
  <2> QED
    BY <2>7 DEF SeenUpTo
<1>5. 2 * Cardinality(answer) >= n
  <2> DEFINE below == S \ answer
  <2>1. answer \in SUBSET S
    BY <1>2
  <2>2. IsFiniteSet(answer) /\ IsFiniteSet(below) /\ Cardinality(answer) \in Nat /\ Cardinality(below) \in Nat
    BY <1>1, <2>1, FS_Subset, FS_CardinalityType
  <2>3. Cardinality(below) = n - Cardinality(answer)
    <3>1. S \cap answer = answer
      BY <2>1
    <3> QED
      BY <1>1, <3>1, FS_Difference DEF n
  <2>4. Cardinality(below) <= n \div 2
    <3>1. below = {c \in S : samples[c] <= m - 1}
      BY <1>1, <1>2, <1>3
    <3>2. CASE m = 0
      <4>1. below = {}
        BY <1>1, <3>1, <3>2
      <4>2. Cardinality(below) = 0 /\ n \div 2 \in Nat
        BY <1>2, <4>1, FS_EmptySet
      <4> QED
        BY <4>2
    <3>3. CASE m # 0
      <4>1. m - 1 \in 0..255 /\ ~(m <= m - 1)
        BY <1>3, <3>3
      <4>2. ~(SeenUpTo(samples, m - 1) > n \div 2)
        BY <1>3, <4>1
      <4>3. SeenUpTo(samples, m - 1) = Cardinality(below)
        BY <3>1 DEF SeenUpTo
      <4>4. n \div 2 \in Int
        BY <1>2
      <4> HIDE DEF below
      <4> QED
        BY <2>2, <4>2, <4>3, <4>4
    <3> QED
      BY <3>2, <3>3
  <2> DEFINE a == Cardinality(answer)  b == Cardinality(below)  h == n \div 2
  <2>5. h \in Nat /\ 2 * h <= n
    BY <1>2, MoreThanHalf
  <2>6. a \in Nat /\ b \in Nat /\ b = n - a /\ b <= h
    BY <2>2, <2>3, <2>4
  <2> HIDE DEF a, b, h
  <2>7. 2 * a >= n
    BY <1>2, <2>5, <2>6
  <2> QED
    BY <2>7 DEF a
<1> QED
  BY <1>4, <1>5 DEF BmhAsDefined, answer, n

\* The insertion sort: after i rounds the first i + 1 values are in order, and all are
\* those there were before, in some order.
Reordered(s, x, m) ==
    \E f \in [0..m - 1 -> 0..m - 1] :
        /\ \A j, k \in 0..m - 1 : f[j] = f[k] => j = k
        /\ \A k \in 0..m - 1 : s[k] = x[f[k]]

InOrder(s, i) == \A a, b \in 0..i : a <= b => s[a] <= s[b]

SortedUpTo(s, x, m, i) == s \in [0..m - 1 -> Int] /\ InOrder(s, i) /\ Reordered(s, x, m)

\* Where the inner loop stops.
StopsAt(s, i, j) ==
    /\ j \in -1..i - 1
    /\ \A k \in 0..i - 1 : (k = j => s[k] <= s[i]) /\ (k > j => s[k] > s[i])

LEMMA InnerLoop ==
    ASSUME NEW m \in Nat, NEW s \in [0..m - 1 -> Int], NEW i \in 1..m - 1
    PROVE  StopsAt(s, i, Max({-1} \cup {k \in 0..i - 1 : s[k] <= s[i]}))
<1> DEFINE T == {-1} \cup {k \in 0..i - 1 : s[k] <= s[i]}  U == {i - k : k \in T}
<1>1. T \subseteq Int /\ \A k \in T : i - k \in Nat
  OBVIOUS
<1>2. U \subseteq Nat /\ U # {}
  <2>1. -1 \in T
    OBVIOUS
  <2> HIDE DEF T
  <2> QED
    BY <1>1, <2>1
<1>3. PICK u \in U : \A v \in U : u <= v
  <2> HIDE DEF U
  <2> QED
    BY <1>2, LeastOne
<1>4. PICK j \in T : u = i - j
  BY <1>3
<1>5. \A k \in T : k <= j
  <2> SUFFICES ASSUME NEW k \in T PROVE k <= j
    OBVIOUS
  <2>1. i - k \in U
    OBVIOUS
  <2>2. i - j <= i - k /\ j \in Int /\ k \in Int
    BY <1>1, <1>3, <1>4, <2>1
  <2> QED
    BY <2>2
<1>6. Max(T) = j
  <2> HIDE DEF T
  <2> QED
    BY <1>1, <1>4, <1>5, LargestIs
<1>7. j \in -1..i - 1
  BY <1>4
<1>8. ASSUME NEW k \in 0..i - 1 PROVE (k = j => s[k] <= s[i]) /\ (k > j => s[k] > s[i])
  <2>1. k \in 0..m - 1 /\ i \in 0..m - 1 /\ s[k] \in Int /\ s[i] \in Int
    OBVIOUS
  <2>2. k > j => k \notin T
    BY <1>5, <1>7
  <2>3. k \notin T => ~(s[k] <= s[i])
    OBVIOUS
  <2>4. k = j => s[k] <= s[i]
    BY <1>4
  <2> QED
    BY <2>1, <2>2, <2>3, <2>4
<1> HIDE DEF T
<1>9. StopsAt(s, i, j)
  BY <1>7, <1>8 DEF StopsAt
<1> QED
  BY <1>6, <1>9 DEF T

Goes(i, j, k) == IF k <= j \/ k > i THEN k ELSE IF k = j + 1 THEN i ELSE k - 1

LEMMA InsertedMoves ==
    ASSUME NEW m \in Nat, NEW s \in [0..m - 1 -> Int], NEW i \in 1..m - 1, NEW j, StopsAt(s, i, j),
           j = Max({-1} \cup {k \in 0..i - 1 : s[k] <= s[i]})
    PROVE  /\ Inserted(s, i) \in [0..m - 1 -> Int]
           /\ \A k \in 0..m - 1 : Goes(i, j, k) \in 0..m - 1 /\ Inserted(s, i)[k] = s[Goes(i, j, k)]
<1>1. j \in -1..i - 1
  BY DEF StopsAt
<1>2. Inserted(s, i) = [k \in 0..m - 1 |->
            IF k <= j \/ k > i THEN s[k] ELSE IF k = j + 1 THEN s[i] ELSE s[k - 1]]
  BY DEF Inserted
<1>3. \A k \in 0..m - 1 : Goes(i, j, k) \in 0..m - 1
  BY <1>1 DEF Goes
<1>4. \A k \in 0..m - 1 : Inserted(s, i)[k] = s[Goes(i, j, k)]
  BY <1>2 DEF Goes
<1>5. \A k \in 0..m - 1 : s[Goes(i, j, k)] \in Int
  BY <1>3
<1>6. Inserted(s, i) = [k \in 0..m - 1 |-> s[Goes(i, j, k)]]
  BY <1>2, <1>4
<1> QED
  BY <1>3, <1>4, <1>5, <1>6

LEMMA InsertedKeepsOrder ==
    ASSUME NEW m \in Nat, NEW s \in [0..m - 1 -> Int], NEW i \in 1..m - 1, InOrder(s, i - 1)
    PROVE  InOrder(Inserted(s, i), i)
<1> DEFINE j == Max({-1} \cup {k \in 0..i - 1 : s[k] <= s[i]})  t == Inserted(s, i)
<1>1. StopsAt(s, i, j)
  BY InnerLoop
<1>0. j = Max({-1} \cup {k \in 0..i - 1 : s[k] <= s[i]})
  OBVIOUS
<1> HIDE DEF j
<1>2. \A k \in 0..m - 1 : Goes(i, j, k) \in 0..m - 1 /\ t[k] = s[Goes(i, j, k)]
  BY <1>0, <1>1, InsertedMoves
<1>3. j \in -1..i - 1 /\ \A k \in 0..i - 1 : (k = j => s[k] <= s[i]) /\ (k > j => s[k] > s[i])
  BY <1>1 DEF StopsAt
<1>4. \A a, b \in 0..i - 1 : a <= b => s[a] <= s[b]
  BY DEF InOrder
<1>5. \A k \in 0..m - 1 : s[k] \in Int
  OBVIOUS
<1>6. \A k \in 0..i : k \in 0..m - 1
  OBVIOUS
<1>7. \A k \in 0..j : k \in 0..i - 1 /\ s[k] <= s[i]
  <2> SUFFICES ASSUME NEW k \in 0..j PROVE k \in 0..i - 1 /\ s[k] <= s[i]
    OBVIOUS
  <2>1. k \in 0..i - 1 /\ j \in 0..i - 1 /\ k <= j /\ k \in 0..m - 1 /\ j \in 0..m - 1 /\ i \in 0..m - 1
    BY <1>3
  <2>2. s[k] <= s[j] /\ s[j] <= s[i]
    BY <1>3, <1>4, <2>1
  <2> QED
    BY <1>5, <2>1, <2>2
<1> HIDE DEF t
<1> SUFFICES ASSUME NEW a \in 0..i, NEW b \in 0..i, a <= b PROVE t[a] <= t[b]
  BY DEF InOrder, t
<1>8. t[a] = s[Goes(i, j, a)] /\ t[b] = s[Goes(i, j, b)]
  BY <1>2, <1>6
<1>9. s[i] \in Int
  BY <1>5
<1>10. CASE a <= j
  <2>1. Goes(i, j, a) = a /\ a \in 0..j /\ a \in 0..i - 1 /\ s[a] <= s[i]
    BY <1>3, <1>7, <1>10 DEF Goes
  <2>2. CASE b = j + 1
    <3>1. Goes(i, j, b) = i
      BY <1>3, <2>2 DEF Goes
    <3> QED
      BY <1>8, <2>1, <3>1
  <2>3. CASE b # j + 1
    <3>1. Goes(i, j, b) \in 0..i - 1 /\ a <= Goes(i, j, b)
      BY <1>3, <1>10, <2>3 DEF Goes
    <3> QED
      BY <1>4, <1>8, <2>1, <3>1
  <2> QED
    BY <2>2, <2>3
<1>11. CASE a = j + 1
  <2>1. Goes(i, j, a) = i
    BY <1>3, <1>11 DEF Goes
  <2>2. CASE b = j + 1
    <3>1. t[a] = t[b] /\ t[a] \in Int
      BY <1>8, <1>9, <1>11, <2>1, <2>2
    <3> QED
      BY <3>1
  <2>3. CASE b # j + 1
    <3>1. Goes(i, j, b) \in 0..i - 1 /\ Goes(i, j, b) > j
      BY <1>3, <1>11, <2>3 DEF Goes
    <3>2. s[Goes(i, j, b)] > s[i] /\ s[Goes(i, j, b)] \in Int
      BY <1>3, <1>5, <1>6, <3>1
    <3>3. t[a] = s[i]
      BY <1>8, <2>1
    <3> QED
      BY <1>8, <1>9, <3>2, <3>3
  <2> QED
    BY <2>2, <2>3
<1>12. CASE a > j + 1
  <2>1. Goes(i, j, a) = a - 1 /\ Goes(i, j, b) = b - 1 /\ a - 1 \in 0..i - 1 /\ b - 1 \in 0..i - 1 /\ a - 1 <= b - 1
    BY <1>3, <1>12 DEF Goes
  <2> QED
    BY <1>4, <1>8, <2>1
<1> QED
  BY <1>3, <1>10, <1>11, <1>12

LEMMA InsertedReorders ==
    ASSUME NEW m \in Nat, NEW s \in [0..m - 1 -> Int], NEW i \in 1..m - 1, NEW x, Reordered(s, x, m)
    PROVE  Reordered(Inserted(s, i), x, m)
<1> DEFINE j == Max({-1} \cup {k \in 0..i - 1 : s[k] <= s[i]})  E == 0..m - 1  t == Inserted(s, i)
<1>1. StopsAt(s, i, j)
  BY InnerLoop
<1>0. j = Max({-1} \cup {k \in 0..i - 1 : s[k] <= s[i]})
  OBVIOUS
<1> HIDE DEF j
<1>2. \A k \in E : Goes(i, j, k) \in E /\ t[k] = s[Goes(i, j, k)]
  BY <1>0, <1>1, InsertedMoves
<1>3. j \in -1..i - 1
  BY <1>1 DEF StopsAt
<1>4. PICK f \in [E -> E] : (\A k, l \in E : f[k] = f[l] => k = l) /\ \A k \in E : s[k] = x[f[k]]
  BY DEF Reordered
<1>5. \A k, l \in E : Goes(i, j, k) = Goes(i, j, l) => k = l
  BY <1>3 DEF Goes
<1> DEFINE g == [k \in E |-> f[Goes(i, j, k)]]
<1> HIDE DEF E, t
<1>6. g \in [E -> E] /\ \A k \in E : g[k] = f[Goes(i, j, k)]
  BY <1>2, <1>4
<1> HIDE DEF g
<1>7. \A k, l \in E : g[k] = g[l] => k = l
  BY <1>2, <1>4, <1>5, <1>6
<1>8. \A k \in E : t[k] = x[g[k]]
  BY <1>2, <1>4, <1>6
<1> QED
  BY <1>6, <1>7, <1>8 DEF Reordered, E, t

LEMMA SortedIs ==
    ASSUME NEW m \in Nat \ {0}, NEW x \in [0..m - 1 -> Int]
    PROVE  SortedUpTo(Sorted(x, m), x, m, m - 1)
<1> DEFINE E == 0..m - 1  V == [E -> Int]  n == m - 1
     step == [i \in 1..n |-> [s \in V |-> Inserted(s, i)]]
     Makes(f) == f = [i \in 0..m - 1 |-> IF i = 0 THEN x ELSE Inserted(f[i - 1], i)]
     rounds == CHOOSE f : Makes(f)
<1>1. n \in Nat /\ x \in V
  OBVIOUS
<1>2. ASSUME NEW i \in 1..n, NEW s \in V PROVE Inserted(s, i) \in V
  <2>1. StopsAt(s, i, Max({-1} \cup {k \in 0..i - 1 : s[k] <= s[i]}))
    BY InnerLoop
  <2> QED
    BY <2>1, InsertedMoves
<1>3. Loop(n, V, x, step)
  <2> HIDE DEF V, n
  <2> QED
    BY <1>1, <1>2 DEF Loop
<1>4. PICK f \in [0..n -> V] : f = [k \in 0..n |-> IF k = 0 THEN x ELSE step[k][f[k - 1]]]
  <2> HIDE DEF step, V, n
  <2> QED
    BY <1>3, LoopExists
<1>5. \A k \in 0..n : k # 0 => step[k][f[k - 1]] = Inserted(f[k - 1], k)
  <2> SUFFICES ASSUME NEW k \in 0..n, k # 0 PROVE step[k][f[k - 1]] = Inserted(f[k - 1], k)
    OBVIOUS
  <2>1. k \in 1..n /\ k - 1 \in 0..n
    BY <1>1
  <2>2. f[k - 1] \in V
    BY <1>4, <2>1
  <2> HIDE DEF V, n
  <2> QED
    BY <2>1, <2>2
<1>6. Makes(f)
  <2> HIDE DEF step
  <2> QED
    BY <1>4, <1>5
<1> HIDE DEF Makes
<1>7. Makes(rounds)
  BY <1>6
<1>8. Sorted(x, m) = rounds[n]
  BY DEF Sorted, Makes
<1> HIDE DEF rounds
<1>9. rounds[0] = x /\ \A i \in 1..n : rounds[i] = Inserted(rounds[i - 1], i)
  <2>1. rounds = [i \in 0..m - 1 |-> IF i = 0 THEN x ELSE Inserted(rounds[i - 1], i)]
    BY <1>7 DEF Makes
  <2>2. \A i \in 0..m - 1 : rounds[i] = IF i = 0 THEN x ELSE Inserted(rounds[i - 1], i)
    BY <2>1
  <2>3. 0 \in 0..m - 1 /\ \A i \in 1..n : i \in 0..m - 1 /\ i # 0
    BY <1>1
  <2> QED
    BY <2>2, <2>3
<1> DEFINE P == {i \in 0..n : SortedUpTo(rounds[i], x, m, i)}
<1>10. 0 \in P
  <2>1. InOrder(x, 0)
    BY DEF InOrder
  <2>2. Reordered(x, x, m)
    <3> DEFINE g == [k \in E |-> k]
    <3>1. g \in [E -> E] /\ \A k \in E : g[k] = k
      OBVIOUS
    <3> HIDE DEF g
    <3> QED
      BY <3>1 DEF Reordered
  <2> QED
    BY <1>1, <1>9, <2>1, <2>2 DEF SortedUpTo
<1>11. ASSUME NEW k \in Below(n), k \in P PROVE k + 1 \in P
  <2>1. k + 1 \in 1..n /\ k + 1 \in 0..n /\ (k + 1) - 1 = k /\ k + 1 \in 1..m - 1
    BY <1>1 DEF Below
  <2>2. rounds[k + 1] = Inserted(rounds[k], k + 1)
    BY <1>9, <2>1
  <2>3. SortedUpTo(rounds[k], x, m, k)
    BY <1>11
  <2> DEFINE i == k + 1  s == rounds[k]
  <2>4. i \in 1..m - 1 /\ i - 1 = k /\ s \in [0..m - 1 -> Int] /\ InOrder(s, i - 1) /\ Reordered(s, x, m) /\ m \in Nat
    BY <2>1, <2>3 DEF SortedUpTo
  <2> HIDE DEF i, s
  <2>5. Inserted(s, i) \in [0..m - 1 -> Int]
    BY <1>2, <2>4
  <2>6. InOrder(Inserted(s, i), i)
    BY <2>4, InsertedKeepsOrder
  <2>7. Reordered(Inserted(s, i), x, m)
    BY <2>4, InsertedReorders
  <2>8. SortedUpTo(Inserted(s, i), x, m, i)
    BY <2>5, <2>6, <2>7 DEF SortedUpTo
  <2> QED
    BY <2>1, <2>2, <2>8 DEF i, s
<1> HIDE DEF P
<1>12. n \in P
  <2>1. \A k \in 0..n : k \in P
    <3> HIDE DEF n
    <3> QED
      BY <1>1, <1>10, <1>11, OneByOne
  <2> QED
    BY <1>1, <2>1
<1> QED
  BY <1>8, <1>12 DEF P

LEMMA SameNumber ==
    ASSUME NEW A, NEW B, IsFiniteSet(A), NEW f \in [A -> B], \A x, y \in A : f[x] = f[y] => x = y,
           \A b \in B : \E a \in A : f[a] = b
    PROVE  IsFiniteSet(B) /\ Cardinality(B) = Cardinality(A)
<1>1. f \in Injection(A, B)
  BY DEF Injection, IsInjective
<1>2. f \in Surjection(A, B)
  BY DEF Surjection
<1>3. ExistsBijection(A, B)
  BY <1>1, <1>2 DEF ExistsBijection, Bijection
<1> QED
  BY <1>3, FS_Bijection

\* What the values at `from` and behind are, in order.
Makers(values, n, from) == [i \in 0..(n - from) - 1 |-> values[from + i]]

IsMedianCall(values, n, from) ==
    /\ n \in 1..64 /\ from \in 0..n - 1 /\ values \in [0..n - 1 -> Int]

Ranks(s, values, n, from) ==
    /\ s \in [0..(n - from) - 1 -> Int]
    /\ InOrder(s, (n - from) - 1)
    /\ \E f \in [0..(n - from) - 1 -> from..n - 1] :
          /\ \A j, k \in 0..(n - from) - 1 : f[j] = f[k] => j = k
          /\ \A i \in from..n - 1 : \E k \in 0..(n - from) - 1 : f[k] = i
          /\ \A k \in 0..(n - from) - 1 : s[k] = values[f[k]]

LEMMA MakersRanked ==
    ASSUME NEW values, NEW n, NEW from, IsMedianCall(values, n, from)
    PROVE  Ranks(Sorted(Makers(values, n, from), n - from), values, n, from)
<1> DEFINE m == n - from  E == 0..m - 1  x == Makers(values, n, from)  s == Sorted(x, m)
<1>1. /\ n \in 1..64 /\ from \in 0..n - 1 /\ values \in [0..n - 1 -> Int]
      /\ m \in Nat \ {0} /\ \A i \in E : from + i \in 0..n - 1 /\ from + i \in from..n - 1
  BY DEF IsMedianCall
<1>2. x \in [E -> Int] /\ \A i \in E : x[i] = values[from + i]
  BY <1>1 DEF Makers
<1> HIDE DEF x
<1>3. SortedUpTo(s, x, m, m - 1)
  <2> HIDE DEF m
  <2> QED
    BY <1>1, <1>2, SortedIs
<1> HIDE DEF s
<1>4. s \in [E -> Int] /\ InOrder(s, m - 1) /\ Reordered(s, x, m)
  BY <1>3 DEF SortedUpTo
<1>5. PICK f \in [E -> E] : (\A j, k \in E : f[j] = f[k] => j = k) /\ \A k \in E : s[k] = x[f[k]]
  BY <1>4 DEF Reordered
<1>6. IsFiniteSet(E)
  <2>1. 0 \in Int /\ m - 1 \in Int
    BY <1>1
  <2> QED
    BY <2>1, FS_Interval
<1> DEFINE D == from..n - 1  g == [k \in E |-> from + f[k]]
<1>7. \A i \in D : i - from \in E /\ from + (i - from) = i
  BY <1>1
<1>8. \A i, j \in E : from + i = from + j => i = j
  BY <1>1
<1> HIDE DEF E, D
<1>9. \A i \in E : \E k \in E : f[k] = i
  <2>1. f \in Injection(E, E)
    BY <1>5 DEF Injection, IsInjective
  <2>2. f \in Surjection(E, E)
    BY <1>6, <2>1, FS_Injection
  <2> QED
    BY <2>2 DEF Surjection
<1>10. g \in [E -> D] /\ \A k \in E : g[k] = from + f[k]
  BY <1>1, <1>5 DEF D
<1> HIDE DEF g
<1>11. \A j, k \in E : g[j] = g[k] => j = k
  BY <1>5, <1>8, <1>10
<1>12. \A i \in D : \E k \in E : g[k] = i
  BY <1>7, <1>9, <1>10
<1>13. \A k \in E : s[k] = values[g[k]]
  BY <1>2, <1>5, <1>10
<1>14. Ranks(s, values, n, from)
  BY <1>4, <1>10, <1>11, <1>12, <1>13 DEF Ranks, E, D, m
<1> QED
  BY <1>14 DEF s, x, m

\* As many values as ranks are in a set of values.
LEMMA RankedCounts ==
    ASSUME NEW values, NEW n, NEW from, IsMedianCall(values, n, from), NEW s, Ranks(s, values, n, from),
           NEW T
    PROVE  /\ IsFiniteSet({k \in 0..(n - from) - 1 : s[k] \in T})
           /\ Cardinality({i \in from..n - 1 : values[i] \in T}) = Cardinality({k \in 0..(n - from) - 1 : s[k] \in T})
<1> DEFINE E == 0..(n - from) - 1  D == from..n - 1  A == {k \in E : s[k] \in T}  B == {i \in D : values[i] \in T}
<1>1. PICK f \in [E -> D] :
          /\ \A j, k \in E : f[j] = f[k] => j = k
          /\ \A i \in D : \E k \in E : f[k] = i
          /\ \A k \in E : s[k] = values[f[k]]
  BY DEF Ranks
<1>2. IsFiniteSet(E)
  <2>1. 0 \in Int /\ (n - from) - 1 \in Int
    BY DEF IsMedianCall
  <2> QED
    BY <2>1, FS_Interval
<1> HIDE DEF E, D
<1>3. IsFiniteSet(A)
  BY <1>2, FS_Subset
<1> DEFINE g == [k \in A |-> f[k]]
<1>4. g \in [A -> B] /\ \A k \in A : g[k] = f[k]
  BY <1>1
<1> HIDE DEF g
<1>5. \A j, k \in A : g[j] = g[k] => j = k
  BY <1>1, <1>4
<1>6. \A i \in B : \E k \in A : g[k] = i
  BY <1>1, <1>4
<1> HIDE DEF A, B
<1>7. Cardinality(B) = Cardinality(A)
  BY <1>3, <1>4, <1>5, <1>6, SameNumber
<1> QED
  BY <1>3, <1>7 DEF A, B, E, D

\* How many values are up to, and from, that of a rank.
UpTo(s, m, v)   == Cardinality({k \in 0..m - 1 : s[k] <= v})
AtLeast(s, m, v) == Cardinality({k \in 0..m - 1 : s[k] >= v})

LEMMA RankCounts ==
    ASSUME NEW m \in Nat \ {0}, NEW s \in [0..m - 1 -> Int], InOrder(s, m - 1), NEW k \in 0..m - 1, NEW v \in Int
    PROVE  /\ UpTo(s, m, v) \in Nat /\ AtLeast(s, m, v) \in Nat
           /\ v >= s[k] => UpTo(s, m, v) >= k + 1
           /\ v <= s[k] => AtLeast(s, m, v) >= m - k
           /\ v < s[k] => UpTo(s, m, v) <= k
           /\ v > s[k] => AtLeast(s, m, v) <= (m - 1) - k
<1> DEFINE E == 0..m - 1  low == {j \in E : s[j] <= v}  high == {j \in E : s[j] >= v}
<1>1. IsFiniteSet(E) /\ IsFiniteSet(low) /\ IsFiniteSet(high)
  <2>1. 0 \in Int /\ m - 1 \in Int
    OBVIOUS
  <2>2. IsFiniteSet(E)
    BY <2>1, FS_Interval
  <2> HIDE DEF E
  <2> QED
    BY <2>2, FS_Subset
<1>2. \A a, b \in 0..m - 1 : a <= b => s[a] <= s[b]
  BY DEF InOrder
<1>3. \A j \in E : s[j] \in Int
  OBVIOUS
<1>4. /\ IsFiniteSet(0..k) /\ Cardinality(0..k) = k + 1
      /\ IsFiniteSet(k..m - 1) /\ Cardinality(k..m - 1) = m - k
      /\ IsFiniteSet(0..k - 1) /\ Cardinality(0..k - 1) = k
      /\ IsFiniteSet(k + 1..m - 1) /\ Cardinality(k + 1..m - 1) = (m - 1) - k
  <2>1. 0 \in Int /\ k \in Int /\ m - 1 \in Int /\ k - 1 \in Int /\ k + 1 \in Int
    OBVIOUS
  <2>2. IsFiniteSet(0..k) /\ Cardinality(0..k) = k + 1
    BY <2>1, FS_Interval
  <2>3. IsFiniteSet(k..m - 1) /\ Cardinality(k..m - 1) = m - k
    BY <2>1, FS_Interval
  <2>4. IsFiniteSet(0..k - 1) /\ Cardinality(0..k - 1) = k
    <3>1. IsFiniteSet(0..k - 1) /\ Cardinality(0..k - 1) = IF 0 > k - 1 THEN 0 ELSE (k - 1) - 0 + 1
      BY ONLY <2>1, FS_Interval
    <3>2. (IF 0 > k - 1 THEN 0 ELSE (k - 1) - 0 + 1) = k
      OBVIOUS
    <3> QED
      BY <3>1, <3>2
  <2>5. IsFiniteSet(k + 1..m - 1) /\ Cardinality(k + 1..m - 1) = (m - 1) - k
    <3>1. /\ IsFiniteSet(k + 1..m - 1)
          /\ Cardinality(k + 1..m - 1) = IF k + 1 > m - 1 THEN 0 ELSE (m - 1) - (k + 1) + 1
      BY ONLY <2>1, FS_Interval
    <3>2. (IF k + 1 > m - 1 THEN 0 ELSE (m - 1) - (k + 1) + 1) = (m - 1) - k
      OBVIOUS
    <3> QED
      BY <3>1, <3>2
  <2> QED
    BY <2>2, <2>3, <2>4, <2>5
<1>5. Cardinality(low) \in Nat /\ Cardinality(high) \in Nat
  BY <1>1, FS_CardinalityType
<1>6. v >= s[k] => 0..k \in SUBSET low
  <2> SUFFICES ASSUME v >= s[k], NEW j \in 0..k PROVE j \in low
    OBVIOUS
  <2>1. j \in E /\ j <= k /\ k \in E
    OBVIOUS
  <2>2. s[j] <= s[k] /\ s[j] \in Int /\ s[k] \in Int
    BY <1>2, <1>3, <2>1
  <2> QED
    BY <2>1, <2>2
<1>7. v <= s[k] => k..m - 1 \in SUBSET high
  <2> SUFFICES ASSUME v <= s[k], NEW j \in k..m - 1 PROVE j \in high
    OBVIOUS
  <2>1. j \in E /\ k <= j /\ k \in E
    OBVIOUS
  <2>2. s[k] <= s[j] /\ s[j] \in Int /\ s[k] \in Int
    BY <1>2, <1>3, <2>1
  <2> QED
    BY <2>1, <2>2
<1>8. v < s[k] => low \in SUBSET (0..k - 1)
  <2> SUFFICES ASSUME v < s[k], NEW j \in low PROVE j \in 0..k - 1
    OBVIOUS
  <2>1. j \in E /\ k \in E /\ s[j] <= v /\ s[j] \in Int /\ s[k] \in Int
    BY <1>3
  <2>2. ~(k <= j)
    BY <1>2, <2>1
  <2> QED
    BY <2>1, <2>2
<1>9. v > s[k] => high \in SUBSET (k + 1..m - 1)
  <2> SUFFICES ASSUME v > s[k], NEW j \in high PROVE j \in k + 1..m - 1
    OBVIOUS
  <2>1. j \in E /\ k \in E /\ s[j] >= v /\ s[j] \in Int /\ s[k] \in Int
    BY <1>3
  <2>2. ~(j <= k)
    BY <1>2, <2>1
  <2> QED
    BY <2>1, <2>2
<1> DEFINE L == Cardinality(low)  H == Cardinality(high)
<1>10. UpTo(s, m, v) = L /\ AtLeast(s, m, v) = H
  BY DEF UpTo, AtLeast
<1> HIDE DEF low, high
<1>11. v >= s[k] => k + 1 <= L
  BY <1>1, <1>4, <1>6, FS_Subset
<1>12. v <= s[k] => m - k <= H
  BY <1>1, <1>4, <1>7, FS_Subset
<1>13. v < s[k] => L <= k
  BY <1>4, <1>8, FS_Subset
<1>14. v > s[k] => H <= (m - 1) - k
  BY <1>4, <1>9, FS_Subset
<1> HIDE DEF L, H
<1> QED
  BY <1>5, <1>10, <1>11, <1>12, <1>13, <1>14 DEF L, H

-----------------------------------------------------------------------------
\* The two central ranks, which are one when their number is odd.
LEMMA CentralRanks ==
    ASSUME NEW m \in Nat \ {0}
    PROVE  /\ (m - 1) \div 2 \in 0..m - 1 /\ m \div 2 \in 0..m - 1
           /\ (m - 1) \div 2 + m \div 2 = m - 1
           /\ (m - 1) \div 2 <= m \div 2 /\ m \div 2 <= (m - 1) \div 2 + 1
           /\ m % 2 = 0 => m \div 2 - 1 = (m - 1) \div 2
           /\ m % 2 # 0 => m \div 2 = (m - 1) \div 2
  OBVIOUS

LEMMA TwiceMedianIs ==
    ASSUME NEW m \in Nat \ {0}, NEW s \in [0..m - 1 -> Int]
    PROVE  TwiceMedian(s, m) = s[(m - 1) \div 2] + s[m \div 2]
<1> DEFINE lo == (m - 1) \div 2  hi == m \div 2
<1>1. lo \in 0..m - 1 /\ hi \in 0..m - 1 /\ (m % 2 = 0 => hi - 1 = lo) /\ (m % 2 # 0 => hi = lo)
  BY CentralRanks
<1>2. s[lo] \in Int /\ s[hi] \in Int
  BY <1>1
<1>3. TwiceMedian(s, m) = IF m % 2 = 0 THEN s[hi - 1] + s[hi] ELSE 2 * s[hi]
  BY DEF TwiceMedian
<1> HIDE DEF lo, hi
<1> QED
  BY <1>1, <1>2, <1>3 DEF lo, hi

Making(values, n, from) == {values[i] : i \in from..n - 1}
Share(values, n, from, T) == 2 * Cardinality({i \in from..n - 1 : values[i] \in T})
NotAbove(v) == {u \in Int : u <= v}
NotBelow(v) == {u \in Int : u >= v}
Middle(values, n, from) ==
    {v \in Making(values, n, from) :
        /\ Share(values, n, from, NotAbove(v)) >= n - from
        /\ Share(values, n, from, NotBelow(v)) >= n - from}

LEMMA SharesAreRanks ==
    ASSUME NEW values, NEW n, NEW from, IsMedianCall(values, n, from), NEW s, Ranks(s, values, n, from), NEW v \in Int
    PROVE  /\ Share(values, n, from, NotAbove(v)) = 2 * UpTo(s, n - from, v)
           /\ Share(values, n, from, NotBelow(v)) = 2 * AtLeast(s, n - from, v)
<1> DEFINE E == 0..(n - from) - 1
<1>1. s \in [E -> Int]
  BY DEF Ranks
<1>2. \A k \in E : s[k] \in Int
  BY <1>1
<1> HIDE DEF E
<1>3. {k \in E : s[k] \in NotAbove(v)} = {k \in E : s[k] <= v}
  BY <1>2 DEF NotAbove
<1>4. {k \in E : s[k] \in NotBelow(v)} = {k \in E : s[k] >= v}
  BY <1>2 DEF NotBelow
<1>7. ASSUME NEW T PROVE Share(values, n, from, T) = 2 * Cardinality({k \in E : s[k] \in T})
  <2>1. Cardinality({i \in from..n - 1 : values[i] \in T}) = Cardinality({k \in 0..(n - from) - 1 : s[k] \in T})
    BY RankedCounts
  <2> QED
    BY <2>1 DEF Share, E
<1>5. Share(values, n, from, NotAbove(v)) = 2 * Cardinality({k \in E : s[k] \in NotAbove(v)})
  BY <1>7
<1>6. Share(values, n, from, NotBelow(v)) = 2 * Cardinality({k \in E : s[k] \in NotBelow(v)})
  BY <1>7
<1> QED
  BY <1>3, <1>4, <1>5, <1>6 DEF UpTo, AtLeast, E

LEMMA MakingIsRanked ==
    ASSUME NEW values, NEW n, NEW from, IsMedianCall(values, n, from), NEW s, Ranks(s, values, n, from)
    PROVE  /\ n - from \in Nat \ {0} /\ s \in [0..(n - from) - 1 -> Int] /\ InOrder(s, (n - from) - 1)
           /\ Making(values, n, from) = {s[k] : k \in 0..(n - from) - 1}
           /\ Making(values, n, from) \subseteq Int
<1> DEFINE E == 0..(n - from) - 1  D == from..n - 1
<1>1. n - from \in Nat \ {0} /\ s \in [E -> Int] /\ InOrder(s, (n - from) - 1)
  <2>1. n - from \in Nat \ {0}
    BY DEF IsMedianCall
  <2> QED
    BY <2>1 DEF Ranks
<1>2. PICK f \in [E -> D] :
          /\ \A i \in D : \E k \in E : f[k] = i
          /\ \A k \in E : s[k] = values[f[k]]
  BY DEF Ranks
<1>3. \A k \in E : s[k] \in Int
  BY <1>1
<1> HIDE DEF E, D
<1>4. {values[i] : i \in D} = {s[k] : k \in E}
  BY <1>2
<1> QED
  BY <1>1, <1>3, <1>4 DEF Making, E, D

LEMMA MiddleIs ==
    ASSUME NEW values, NEW n, NEW from, IsMedianCall(values, n, from), NEW s, Ranks(s, values, n, from),
           NEW m, m = n - from
    PROVE  /\ Min(Middle(values, n, from)) = s[(m - 1) \div 2]
           /\ Max(Middle(values, n, from)) = s[m \div 2]
           /\ Min(Making(values, n, from)) = s[0]
           /\ Max(Making(values, n, from)) = s[m - 1]
<1> DEFINE T == Middle(values, n, from)  U == Making(values, n, from)  lo == (m - 1) \div 2  hi == m \div 2
<1>1. /\ m \in Nat \ {0} /\ s \in [0..m - 1 -> Int] /\ InOrder(s, m - 1)
      /\ U = {s[k] : k \in 0..m - 1} /\ U \subseteq Int
  BY MakingIsRanked
<1>2. lo \in 0..m - 1 /\ hi \in 0..m - 1 /\ lo + hi = m - 1 /\ lo <= hi /\ hi <= lo + 1
  BY <1>1, CentralRanks
<1>3. s[lo] \in Int /\ s[hi] \in Int /\ s[lo] <= s[hi] /\ s[lo] \in U /\ s[hi] \in U
  BY <1>1, <1>2 DEF InOrder
<1>4. \A v \in U : v \in T <=> 2 * UpTo(s, m, v) >= m /\ 2 * AtLeast(s, m, v) >= m
  <2> SUFFICES ASSUME NEW v \in U PROVE v \in T <=> 2 * UpTo(s, m, v) >= m /\ 2 * AtLeast(s, m, v) >= m
    OBVIOUS
  <2>1. v \in Int
    BY <1>1
  <2>2. Share(values, n, from, NotAbove(v)) = 2 * UpTo(s, m, v)
        /\ Share(values, n, from, NotBelow(v)) = 2 * AtLeast(s, m, v)
    BY <2>1, SharesAreRanks
  <2> QED
    BY <2>2 DEF Middle
<1>5. T \subseteq U
  BY DEF Middle
<1> HIDE DEF T, U, lo, hi
<1>6. ASSUME NEW k \in {lo, hi} PROVE s[k] \in T
  <2> DEFINE v == s[k]  up == UpTo(s, m, v)  down == AtLeast(s, m, v)
  <2>1. v \in Int /\ v \in U /\ k \in 0..m - 1 /\ v >= s[k] /\ v <= s[k]
    BY <1>2, <1>3
  <2>2. up \in Nat /\ down \in Nat /\ (v >= s[k] => up >= k + 1) /\ (v <= s[k] => down >= m - k)
    BY <1>1, <2>1, RankCounts
  <2>3. up >= k + 1 /\ down >= m - k
    BY <2>1, <2>2
  <2> HIDE DEF up, down, v
  <2>4. 2 * up >= m /\ 2 * down >= m
    <3>1. m \in Nat \ {0} /\ lo \in Nat /\ hi \in Nat /\ lo + hi = m - 1 /\ lo <= hi /\ hi <= lo + 1
      BY <1>1, <1>2
    <3>2. CASE k = lo
      BY <3>1, <3>2, <2>2, <2>3
    <3>3. CASE k = hi
      BY <3>1, <3>3, <2>2, <2>3
    <3> QED
      BY <3>2, <3>3
  <2> QED
    BY <1>4, <2>1, <2>4 DEF up, down, v
<1>7. ASSUME NEW v \in T PROVE s[lo] <= v /\ v <= s[hi]
  <2> DEFINE up == UpTo(s, m, v)  down == AtLeast(s, m, v)
  <2>1. v \in Int /\ v \in U
    BY <1>1, <1>5
  <2>2. 2 * up >= m /\ 2 * down >= m
    BY <1>4, <2>1
  <2>3. up \in Nat /\ (v < s[lo] => up <= lo)
    BY <1>1, <1>2, <2>1, RankCounts
  <2>4. down \in Nat /\ (v > s[hi] => down <= (m - 1) - hi)
    BY <1>1, <1>2, <2>1, RankCounts
  <2> HIDE DEF up, down
  <2>5. ~(v < s[lo])
    BY <1>1, <1>2, <2>2, <2>3
  <2>6. ~(v > s[hi])
    BY <1>1, <1>2, <2>2, <2>4
  <2> QED
    BY <1>3, <2>1, <2>5, <2>6
<1>8. T \subseteq Int /\ s[lo] \in T /\ s[hi] \in T
  BY <1>1, <1>5, <1>6
<1>9. Min(T) = s[lo] /\ Max(T) = s[hi]
  <2>1. \A v \in T : s[lo] <= v
    BY <1>7
  <2>2. \A v \in T : v <= s[hi]
    BY <1>7
  <2>3. Min(T) = s[lo]
    BY <1>8, <2>1, LeastIs
  <2>4. Max(T) = s[hi]
    BY <1>8, <2>2, LargestIs
  <2> QED
    BY <2>3, <2>4
<1>10. Min(U) = s[0] /\ Max(U) = s[m - 1]
  <2>1. 0 \in 0..m - 1 /\ m - 1 \in 0..m - 1
    BY <1>1
  <2>2. s[0] \in U /\ s[m - 1] \in U
    BY <1>1, <2>1
  <2>3. \A k \in 0..m - 1 : s[0] <= s[k] /\ s[k] <= s[m - 1]
    <3> SUFFICES ASSUME NEW k \in 0..m - 1 PROVE s[0] <= s[k] /\ s[k] <= s[m - 1]
      OBVIOUS
    <3>1. 0 <= k /\ k <= m - 1
      BY <1>1
    <3> QED
      BY <1>1, <2>1, <3>1 DEF InOrder
  <2>4. \A v \in U : s[0] <= v
    BY <1>1, <2>3
  <2>5. \A v \in U : v <= s[m - 1]
    BY <1>1, <2>3
  <2>6. Min(U) = s[0]
    BY <1>1, <2>2, <2>4, LeastIs
  <2>7. Max(U) = s[m - 1]
    BY <1>1, <2>2, <2>5, LargestIs
  <2> QED
    BY <2>6, <2>7
<1> QED
  BY <1>9, <1>10 DEF T, U, lo, hi

\* The bits of a call within the limits: the values that are more than the margin above
\* the middle of the two central ranks.
LEMMA MedianBitsAre ==
    ASSUME NEW values, NEW n, NEW from, IsMedianCall(values, n, from), NEW margin,
           NEW m, m = n - from, NEW s, s = Sorted(Makers(values, n, from), m)
    PROVE  /\ Ranks(s, values, n, from)
           /\ MedianBits(values, n, from, margin) =
                 {i \in 0..n - 1 : MarginUnits * (2 * values[i] - (s[(m - 1) \div 2] + s[m \div 2]))
                                      > 2 * margin * (s[m - 1] - s[0])}
<1>1. Ranks(s, values, n, from)
  BY MakersRanked
<1>2. s \in [0..m - 1 -> Int] /\ m \in Nat \ {0}
  BY <1>1, MakingIsRanked
<1>3. TwiceMedian(s, m) = s[(m - 1) \div 2] + s[m \div 2]
  BY <1>2, TwiceMedianIs
<1>4. ~(n <= 0 \/ n > 64 \/ from < 0 \/ from >= n)
  BY DEF IsMedianCall
<1>5. s = Sorted([i \in 0..m - 1 |-> values[from + i]], m)
  BY DEF Makers
<1> QED
  BY <1>1, <1>3, <1>4, <1>5 DEF MedianBits

LEMMA MedianIsDefined ==
    ASSUME NEW values, NEW n, NEW from, IsMedianCall(values, n, from), NEW margin \in Nat
    PROVE  MedianAsDefined([values |-> values, n |-> n, from |-> from, margin |-> margin],
                           MedianBits(values, n, from, margin))
<1> DEFINE m == n - from  s == Sorted(Makers(values, n, from), m)  answer == MedianBits(values, n, from, margin)
     T == Middle(values, n, from)  U == Making(values, n, from)
     lo == (m - 1) \div 2  hi == m \div 2
     given == [values |-> values, n |-> n, from |-> from, margin |-> margin]
<1>1. /\ Ranks(s, values, n, from)
      /\ answer = {i \in 0..n - 1 : MarginUnits * (2 * values[i] - (s[lo] + s[hi])) > 2 * margin * (s[m - 1] - s[0])}
  BY MedianBitsAre
<1>2. Min(T) = s[lo] /\ Max(T) = s[hi] /\ Min(U) = s[0] /\ Max(U) = s[m - 1]
  BY <1>1, MiddleIs
<1>3. m \in Nat \ {0} /\ s \in [0..m - 1 -> Int] /\ InOrder(s, m - 1)
  BY <1>1, MakingIsRanked
<1>4. lo \in 0..m - 1 /\ hi \in 0..m - 1 /\ lo + hi = m - 1 /\ lo <= hi /\ hi <= lo + 1
      /\ 0 \in 0..m - 1 /\ m - 1 \in 0..m - 1
  BY <1>3, CentralRanks
<1>5. s[lo] \in Int /\ s[hi] \in Int /\ s[lo] <= s[hi] /\ s[0] \in Int /\ s[m - 1] \in Int /\ s[0] <= s[m - 1]
  <2> HIDE DEF s, lo, hi, m
  <2>1. \A a, b \in 0..m - 1 : a <= b => s[a] <= s[b]
    BY <1>3 DEF InOrder
  <2>2. 0 <= m - 1
    BY <1>3
  <2>3. \A a \in 0..m - 1 : s[a] \in Int
    BY <1>3
  <2> QED
    BY <1>4, <2>1, <2>2, <2>3
<1>6. n \in Nat /\ from \in 0..n - 1 /\ values \in [0..n - 1 -> Int]
  BY DEF IsMedianCall
<1> HIDE DEF s, answer, T, U, lo, hi
<1>7. ASSUME NEW i \in 0..n - 1
      PROVE  i \in answer <=> MarginUnits * ((2 * values[i] - Min(T)) - Max(T)) > 2 * margin * (Max(U) - Min(U))
  <2>1. values[i] \in Int
    BY <1>6
  <2>2. 2 * values[i] - (s[lo] + s[hi]) = (2 * values[i] - s[lo]) - s[hi]
    BY <1>5, <2>1
  <2> QED
    BY <1>1, <1>2, <2>2
<1>8. 2 * Cardinality(answer \cap from..n - 1) <= m
  <2> DEFINE above == {k \in 0..m - 1 : s[k] >= s[lo] + 1}  high == {u \in Int : u >= s[lo] + 1}
       those == {i \in from..n - 1 : values[i] \in high}
  <2>1. answer \cap from..n - 1 \subseteq those
    <3> SUFFICES ASSUME NEW i \in answer \cap from..n - 1 PROVE i \in those
      OBVIOUS
    <3> DEFINE range == s[m - 1] - s[0]  v == values[i]  twice == s[lo] + s[hi]
    <3>1. i \in 0..n - 1 /\ v \in Int
      BY <1>1, <1>6
    <3>2. MarginUnits * (2 * v - twice) > 2 * margin * range
      BY <1>1
    <3>3. range \in Nat /\ twice \in Int
      BY <1>5
    <3>4. 2 * v > twice
      <4> HIDE DEF range, v, twice
      <4>1. 2 * margin * range \in Nat
        <5>1. 2 * margin \in Nat
          OBVIOUS
        <5> QED
          BY <3>3, <5>1
      <4> DEFINE e == 2 * v - twice
      <4>2. e \in Int /\ MarginUnits \in Nat \ {0} /\ MarginUnits * e > 0
        BY <3>1, <3>2, <3>3, <4>1, GridHashesAssumption
      <4> HIDE DEF e
      <4>3. e > 0
        BY <4>2
      <4> QED
        BY <3>1, <3>3, <4>3 DEF e
    <3>5. v >= s[lo] + 1
      <4> HIDE DEF v
      <4> QED
        BY <1>5, <3>1, <3>4
    <3> QED
      BY <3>1, <3>5
  <2>2. IsFiniteSet(above) /\ Cardinality(those) = Cardinality(above)
    <3>1. /\ IsFiniteSet({k \in 0..m - 1 : s[k] \in high})
          /\ Cardinality(those) = Cardinality({k \in 0..m - 1 : s[k] \in high})
      <4>1. ASSUME NEW W
            PROVE  /\ IsFiniteSet({k \in 0..m - 1 : s[k] \in W})
                   /\ Cardinality({i \in from..n - 1 : values[i] \in W}) = Cardinality({k \in 0..m - 1 : s[k] \in W})
        <5>1. Ranks(s, values, n, from)
          BY <1>1
        <5>2. /\ IsFiniteSet({k \in 0..(n - from) - 1 : s[k] \in W})
              /\ Cardinality({i \in from..n - 1 : values[i] \in W})
                    = Cardinality({k \in 0..(n - from) - 1 : s[k] \in W})
          BY ONLY <5>1, IsMedianCall(values, n, from), RankedCounts
        <5> QED
          BY <5>2
      <4> HIDE DEF high
      <4> QED
        BY <4>1
    <3>2. {k \in 0..m - 1 : s[k] \in high} = above
      BY <1>3
    <3> QED
      BY <3>1, <3>2
  <2>3. Cardinality(above) \in Nat /\ Cardinality(above) <= (m - 1) - lo
    <3> DEFINE v == s[lo] + 1
    <3>1. v \in Int /\ v > s[lo]
      BY <1>5
    <3>2. AtLeast(s, m, v) \in Nat /\ (v > s[lo] => AtLeast(s, m, v) <= (m - 1) - lo)
      <4> HIDE DEF v, m
      <4> QED
        BY <1>3, <1>4, <3>1, RankCounts
    <3>3. AtLeast(s, m, v) = Cardinality(above)
      BY DEF AtLeast
    <3> QED
      BY <3>1, <3>2, <3>3
  <2>4. IsFiniteSet(those)
    <3>1. IsFiniteSet(from..n - 1)
      <4>1. from \in Int /\ n - 1 \in Int
        BY <1>6
      <4> QED
        BY <4>1, FS_Interval
    <3>2. those \in SUBSET (from..n - 1)
      OBVIOUS
    <3> QED
      BY <3>1, <3>2, FS_Subset
  <2> DEFINE a == Cardinality(answer \cap from..n - 1)
  <2>5. a \in Nat /\ a <= Cardinality(those)
    <3> HIDE DEF those
    <3> QED
      BY <2>1, <2>4, FS_Subset, FS_CardinalityType
  <2> DEFINE b == Cardinality(above)
  <2>6. a <= b /\ b \in Nat /\ b <= (m - 1) - lo
    BY <2>2, <2>3, <2>5
  <2> HIDE DEF a, b, m
  <2>7. 2 * a <= m
    <3>1. lo \in Nat /\ hi \in Nat
      BY <1>4
    <3> QED
      BY <1>3, <1>4, <2>5, <2>6, <3>1
  <2> QED
    BY <2>7 DEF a
<1>9. MedianAsDefined(given, answer) <=>
         IF given.from >= given.n THEN answer = {}
         ELSE /\ \A i \in 0..given.n - 1 :
                    i \in answer <=> MarginUnits * ((2 * given.values[i] - Min(T)) - Max(T))
                                        > 2 * given.margin * (Max(U) - Min(U))
              /\ 2 * Cardinality(answer \cap given.from..given.n - 1) <= given.n - given.from
  <2>1. \A v \in U : v \in Int
    BY <1>1, MakingIsRanked DEF U
  <2>2. \A i \in from..n - 1 : values[i] \in Int
    BY <1>6
  <2>3. U = {values[i] : i \in from..n - 1}
    BY DEF U, Making
  <2>4. ASSUME NEW v \in U
        PROVE  /\ {i \in from..n - 1 : values[i] \in NotAbove(v)} = {i \in from..n - 1 : values[i] <= v}
               /\ {i \in from..n - 1 : values[i] \in NotBelow(v)} = {i \in from..n - 1 : values[i] >= v}
    BY <2>2 DEF NotAbove, NotBelow
  <2>5. T = {v \in U : /\ 2 * Cardinality({i \in from..n - 1 : values[i] <= v}) >= n - from
                       /\ 2 * Cardinality({i \in from..n - 1 : values[i] >= v}) >= n - from}
    BY <2>4 DEF T, U, Middle, Share
  <2> HIDE DEF m
  <2> QED
    BY <2>3, <2>5 DEF MedianAsDefined
<1> QED
  BY <1>6, <1>7, <1>8, <1>9 DEF answer

LEMMA Division ==
    ASSUME NEW o \in Nat, NEW t \in Nat \ {0}
    PROVE  o \div t \in Nat /\ o % t \in 0..t - 1 /\ o = t * (o \div t) + (o % t)
<1>1. o \div t \in Nat
  OBVIOUS
<1>2. o % t \in 0..t - 1
  OBVIOUS
<1>3. o = t * (o \div t) + (o % t)
  OBVIOUS
<1> QED
  BY <1>1, <1>2, <1>3

-----------------------------------------------------------------------------
\* mHash.  The blocks of a row that windows cover, and which of a window's each is; a row
\* ends with the last window, as one of PH_MH_GRID blocks does.
FitSide  == (WindowsPerAxis - 1) * WindowStride + Window
BlockOf(a, r) == a * WindowStride + r
Covered == {c \in 0..FitSide - 1 : \E o \in {p \in 0..FitSide - Window : p % WindowStride = 0} : c - o \in 0..Window - 1}

MhashSizes ==
    /\ Window \in Nat \ {0} /\ WindowStride \in Nat \ {0} /\ WindowsPerAxis \in Nat \ {0} /\ Window <= WindowStride
    /\ FitSide \in Nat \ {0} /\ FitSide - Window = (WindowsPerAxis - 1) * WindowStride /\ FitSide - Window \in Nat
    /\ Window * Window \in Nat \ {0}

LEMMA SizesAre == MhashSizes
<1>1. /\ Window \in Nat \ {0} /\ WindowStride \in Nat \ {0} /\ WindowsPerAxis \in Nat \ {0} /\ Window <= WindowStride
  BY GridHashesAssumption
<1> DEFINE w == Window  b == (WindowsPerAxis - 1) * WindowStride
<1>2. b \in Nat
  BY <1>1
<1>3. w * w \in Nat \ {0} /\ w \in Nat \ {0}
  BY <1>1
<1>4. FitSide = b + w
  BY DEF FitSide
<1> HIDE DEF w, b
<1>5. FitSide \in Nat \ {0} /\ FitSide - w = b
  BY <1>2, <1>3, <1>4
<1> QED
  BY <1>1, <1>2, <1>3, <1>5 DEF MhashSizes, w, b

\* The place of a block in its row, and back.
Recovered(a, r) ==
    /\ BlockOf(a, r) \in Covered /\ BlockOf(a, r) \in 0..FitSide - 1
    /\ BlockOf(a, r) \div WindowStride = a /\ BlockOf(a, r) % WindowStride = r

LEMMA BlockIsCovered ==
    ASSUME NEW a \in 0..WindowsPerAxis - 1, NEW r \in 0..Window - 1
    PROVE  Recovered(a, r)
<1> DEFINE t == WindowStride  o == a * t  top == (WindowsPerAxis - 1) * t  c == a * t + r  w == Window
<1>1. MhashSizes
  BY SizesAre
<1>2. w \in Nat \ {0} /\ t \in Nat \ {0} /\ w <= t /\ top \in Nat /\ FitSide = top + w /\ a \in Nat
      /\ a <= WindowsPerAxis - 1 /\ WindowsPerAxis - 1 \in Nat
  BY <1>1 DEF MhashSizes, FitSide
<1> HIDE DEF t, w
<1>3. o \in Nat /\ o <= top
  BY <1>2, Product
<1>4. r \in 0..t - 1 /\ r \in 0..w - 1
  BY <1>2 DEF w
<1>5. c \div t = a /\ c % t = r
  BY <1>2, <1>4, PlaceOf
<1>6. (a * t + 0) % t = 0
  BY <1>2, PlaceOf
<1>7. o % t = 0
  BY <1>3, <1>6
<1> HIDE DEF o, top
<1>8. o + r \in 0..FitSide - 1 /\ (o + r) - o \in 0..w - 1 /\ o \in 0..FitSide - w
  BY <1>2, <1>3, <1>4
<1>9. c = o + r /\ c = BlockOf(a, r)
  BY DEF o, BlockOf, t
<1> HIDE DEF c
<1>10. c \in Covered
  BY <1>7, <1>8, <1>9 DEF Covered, t, w
<1> QED
  BY <1>5, <1>8, <1>9, <1>10 DEF Recovered, t

LEMMA CoveredIsBlock ==
    ASSUME NEW c \in Covered
    PROVE  \E a \in 0..WindowsPerAxis - 1, r \in 0..Window - 1 :
              c = BlockOf(a, r) /\ c \div WindowStride = a /\ c % WindowStride = r
<1> DEFINE t == WindowStride  q == WindowsPerAxis  w == Window
<1>1. MhashSizes
  BY SizesAre
<1>2. PICK o \in 0..FitSide - w : o % t = 0 /\ c - o \in 0..w - 1
  BY DEF Covered
<1>3. w \in Nat \ {0} /\ t \in Nat \ {0} /\ w <= t /\ q \in Nat \ {0} /\ FitSide - w = (q - 1) * t /\ (q - 1) * t \in Nat
  BY <1>1 DEF MhashSizes
<1>4. c \in Int
  BY <1>1 DEF Covered
<1> DEFINE a == o \div t  r == c - o
<1> HIDE DEF t, q, w
<1>5. a \in Nat /\ o = t * a + (o % t)
  <2>1. o \in Nat /\ t \in Nat \ {0}
    BY <1>2, <1>3
  <2> QED
    BY ONLY <2>1, Division
<1>6. o = a * t
  BY <1>2, <1>3, <1>5
<1>7. a \in 0..q - 1
  <2>1. a <= q - 1
    <3> SUFFICES ASSUME ~(a <= q - 1) PROVE FALSE
      OBVIOUS
    <3>1. q <= a /\ q \in Nat
      BY <1>3, <1>5
    <3>2. q * t <= a * t
      BY <1>3, <1>5, <3>1, Product
    <3>3. q * t = (q - 1) * t + t
      BY <1>3
    <3> DEFINE top == (q - 1) * t  high == q * t
    <3>4. top \in Nat /\ high = top + t /\ high <= o /\ o <= top
      BY <1>2, <1>3, <1>6, <3>2, <3>3
    <3> HIDE DEF top, high
    <3> QED
      BY <1>3, <3>4
  <2> QED
    BY <1>3, <1>5, <2>1
<1>8. r \in 0..w - 1 /\ c = a * t + r
  <2> HIDE DEF a
  <2> QED
    BY <1>2, <1>4, <1>6
<1>9. c = BlockOf(a, r)
  BY <1>8 DEF BlockOf, t
<1> HIDE DEF a, r
<1>10. Recovered(a, r)
  BY <1>7, <1>8, BlockIsCovered DEF q, w
<1> QED
  BY <1>7, <1>8, <1>9, <1>10 DEF Recovered, t, q, w

-----------------------------------------------------------------------------
\* Numbers of two digits are in the order of their digits.
LEMMA TwoDigits ==
    ASSUME NEW n \in Nat \ {0}, NEW a \in Nat, NEW b \in 0..n - 1, NEW c \in Nat, NEW d \in 0..n - 1
    PROVE  /\ a * n + b < c * n + d <=> a < c \/ (a = c /\ b < d)
           /\ a * n + b = c * n + d <=> a = c /\ b = d
<1> DEFINE p == a * n  s == c * n
<1>1. p \in Nat /\ s \in Nat
  OBVIOUS
<1>2. ASSUME NEW u \in Nat, NEW v \in Nat, u < v PROVE u * n \in Nat /\ v * n \in Nat /\ u * n + n <= v * n
  <2>1. u + 1 \in Nat /\ u + 1 <= v
    BY <1>2
  <2>2. (u + 1) * n <= v * n
    BY <2>1, Product
  <2>3. (u + 1) * n = u * n + n
    OBVIOUS
  <2> QED
    BY <2>2, <2>3
<1>3. a < c => p + n <= s
  BY <1>2
<1>4. c < a => s + n <= p
  BY <1>2
<1>5. a = c => p = s
  OBVIOUS
<1> HIDE DEF p, s
<1>6. /\ p + b < s + d <=> a < c \/ (a = c /\ b < d)
      /\ p + b = s + d <=> a = c /\ b = d
  <2>1. CASE a < c
    BY <1>1, <1>3, <2>1
  <2>2. CASE c < a
    BY <1>1, <1>4, <2>2
  <2>3. CASE a = c
    BY <1>1, <1>5, <2>3
  <2> QED
    BY <2>1, <2>2, <2>3
<1> QED
  BY <1>6 DEF p, s

\* A cell's window and place in it, row before column, and the number of its bit.
Key(c) == <<c[2] \div WindowStride, c[1] \div WindowStride, c[2] % WindowStride, c[1] % WindowStride>>
BitOf(k) == (k[1] * WindowsPerAxis + k[2]) * (Window * Window) + (k[3] * Window + k[4])
Keys ==
    (0..WindowsPerAxis - 1) \X (0..WindowsPerAxis - 1) \X (0..Window - 1) \X (0..Window - 1)
Bits == 0..(WindowsPerAxis * WindowsPerAxis) * (Window * Window) - 1

SoonerKey(k, l) == \E i \in 1..4 : k[i] < l[i] /\ \A j \in 1..i - 1 : k[j] = l[j]

LEMMA KeysInOrder ==
    ASSUME NEW k \in Keys, NEW l \in Keys
    PROVE  /\ SoonerKey(k, l) <=> BitOf(k) < BitOf(l)
           /\ k = l <=> BitOf(k) = BitOf(l)
           /\ BitOf(k) \in Bits
<1> DEFINE q == WindowsPerAxis  w == Window  size == Window * Window
<1>1. q \in Nat \ {0} /\ w \in Nat \ {0} /\ size \in Nat \ {0}
  BY SizesAre DEF MhashSizes
<1>2. PICK k1 \in 0..q - 1, k2 \in 0..q - 1, k3 \in 0..w - 1, k4 \in 0..w - 1 : k = <<k1, k2, k3, k4>>
  BY DEF Keys
<1>3. PICK l1 \in 0..q - 1, l2 \in 0..q - 1, l3 \in 0..w - 1, l4 \in 0..w - 1 : l = <<l1, l2, l3, l4>>
  BY DEF Keys
<1> DEFINE u == k1 * q + k2  v == k3 * w + k4  x == l1 * q + l2  y == l3 * w + l4
<1>4. BitOf(k) = u * size + v /\ BitOf(l) = x * size + y
  BY <1>2, <1>3 DEF BitOf
<1>5. /\ k1 \in Nat /\ k2 \in Nat /\ k3 \in Nat /\ k4 \in Nat
      /\ l1 \in Nat /\ l2 \in Nat /\ l3 \in Nat /\ l4 \in Nat
  OBVIOUS
<1> HIDE DEF q, w
<1>6. v \in 0..w * w - 1 /\ y \in 0..w * w - 1 /\ u \in 0..q * q - 1 /\ x \in 0..q * q - 1
  BY <1>1, PlaceWithin
<1>7. size = w * w
  BY DEF w
<1>8. (u < x <=> k1 < l1 \/ (k1 = l1 /\ k2 < l2)) /\ (u = x <=> k1 = l1 /\ k2 = l2)
  BY <1>1, <1>5, TwoDigits
<1>9. (v < y <=> k3 < l3 \/ (k3 = l3 /\ k4 < l4)) /\ (v = y <=> k3 = l3 /\ k4 = l4)
  BY <1>1, <1>5, TwoDigits
<1> HIDE DEF size
<1>10. v \in 0..size - 1 /\ y \in 0..size - 1 /\ u \in Nat /\ x \in Nat
  <2>1. q * q \in Nat
    BY <1>1
  <2> QED
    BY <1>6, <1>7, <2>1
<1>11. u * size + v \in 0..(q * q) * size - 1
  <2> DEFINE n == q * q
  <2>1. n \in Nat /\ u \in 0..n - 1
    BY <1>1, <1>6
  <2> HIDE DEF n, u, v
  <2> QED
    BY <1>1, <1>10, <2>1, PlaceWithin DEF n
<1> HIDE DEF u, v, x, y
<1>12. /\ u * size + v < x * size + y <=> u < x \/ (u = x /\ v < y)
       /\ u * size + v = x * size + y <=> u = x /\ v = y
  BY <1>1, <1>10, TwoDigits
<1>13. SoonerKey(k, l) <=>
          \/ k1 < l1
          \/ k1 = l1 /\ k2 < l2
          \/ k1 = l1 /\ k2 = l2 /\ k3 < l3
          \/ k1 = l1 /\ k2 = l2 /\ k3 = l3 /\ k4 < l4
  <2>1. SoonerKey(k, l) <=>
          \/ k[1] < l[1]
          \/ k[1] = l[1] /\ k[2] < l[2]
          \/ k[1] = l[1] /\ k[2] = l[2] /\ k[3] < l[3]
          \/ k[1] = l[1] /\ k[2] = l[2] /\ k[3] = l[3] /\ k[4] < l[4]
    <3>1. 1..4 = {1, 2, 3, 4} /\ 1..1 - 1 = {} /\ 1..2 - 1 = {1} /\ 1..3 - 1 = {1, 2} /\ 1..4 - 1 = {1, 2, 3}
      OBVIOUS
    <3> QED
      BY <3>1 DEF SoonerKey
  <2> QED
    BY <1>2, <1>3, <2>1
<1>14. k = l <=> k1 = l1 /\ k2 = l2 /\ k3 = l3 /\ k4 = l4
  BY <1>2, <1>3
<1>15. BitOf(k) \in Bits
  BY <1>4, <1>11 DEF Bits, q, size
<1> QED
  BY <1>4, <1>8, <1>9, <1>12, <1>13, <1>14, <1>15

MhGrid == (0..FitSide - 1) \X (0..FitSide - 1)
Cells  == {c \in MhGrid : c[1] \in Covered /\ c[2] \in Covered}
CellOf(k) == <<BlockOf(k[2], k[4]), BlockOf(k[1], k[3])>>

LEMMA CellsAreKeys ==
    /\ \A c \in Cells : Key(c) \in Keys /\ CellOf(Key(c)) = c
    /\ \A k \in Keys : CellOf(k) \in Cells /\ Key(CellOf(k)) = k
    /\ IsFiniteSet(MhGrid) /\ IsFiniteSet(Cells)
<1>1. ASSUME NEW c \in Cells PROVE Key(c) \in Keys /\ CellOf(Key(c)) = c
  <2>1. PICK x \in 0..FitSide - 1, y \in 0..FitSide - 1 : c = <<x, y>> /\ x \in Covered /\ y \in Covered
    BY DEF Cells, MhGrid
  <2>2. PICK a \in 0..WindowsPerAxis - 1, r \in 0..Window - 1 :
            x = BlockOf(a, r) /\ x \div WindowStride = a /\ x % WindowStride = r
    BY <2>1, CoveredIsBlock
  <2>3. PICK b \in 0..WindowsPerAxis - 1, s \in 0..Window - 1 :
            y = BlockOf(b, s) /\ y \div WindowStride = b /\ y % WindowStride = s
    BY <2>1, CoveredIsBlock
  <2>4. Key(c) = <<b, a, s, r>>
    BY <2>1, <2>2, <2>3 DEF Key
  <2> QED
    BY <2>1, <2>2, <2>3, <2>4 DEF CellOf, Keys
<1>2. ASSUME NEW k \in Keys PROVE CellOf(k) \in Cells /\ Key(CellOf(k)) = k
  <2>1. PICK b \in 0..WindowsPerAxis - 1, a \in 0..WindowsPerAxis - 1, s \in 0..Window - 1, r \in 0..Window - 1 :
            k = <<b, a, s, r>>
    BY DEF Keys
  <2>2. Recovered(a, r) /\ Recovered(b, s)
    BY BlockIsCovered
  <2>3. CellOf(k) = <<BlockOf(a, r), BlockOf(b, s)>>
    BY <2>1 DEF CellOf
  <2> QED
    BY <2>1, <2>2, <2>3 DEF Recovered, Key, Cells, MhGrid
<1>3. IsFiniteSet(MhGrid) /\ IsFiniteSet(Cells)
  <2>1. FitSide - 1 \in Int /\ 0 \in Int
    BY SizesAre DEF MhashSizes
  <2>2. IsFiniteSet(0..FitSide - 1)
    BY <2>1, FS_Interval
  <2>3. IsFiniteSet(MhGrid)
    BY <2>2, FS_Product DEF MhGrid
  <2>4. Cells \in SUBSET MhGrid
    BY DEF Cells
  <2> QED
    BY <2>3, <2>4, FS_Subset
<1> QED
  BY <1>1, <1>2, <1>3

\* Every bit is some key's.
LEMMA EveryBit ==
    ASSUME NEW j \in Bits
    PROVE  \E k \in Keys : BitOf(k) = j
<1> DEFINE q == WindowsPerAxis  w == Window  size == w * w  u == j \div size  v == j % size
<1>1. q \in Nat \ {0} /\ w \in Nat \ {0} /\ size \in Nat \ {0} /\ q * q \in Nat
  BY SizesAre DEF MhashSizes
<1>2. j \in Nat /\ j < (q * q) * size
  <2>1. (q * q) * size \in Nat
    BY <1>1
  <2> HIDE DEF q, size, w
  <2> QED
    BY <2>1 DEF Bits, q, size, w
<1> HIDE DEF q, w
<1>3. u \in Nat /\ u < q * q /\ v \in 0..size - 1 /\ j = u * size + v
  <2> HIDE DEF size
  <2>1. u \in Nat /\ u < q * q
    BY <1>1, <1>2, BelowProduct
  <2>2. v \in 0..size - 1 /\ j = size * u + v
    BY <1>1, <1>2
  <2> QED
    BY <1>1, <2>1, <2>2
<1> HIDE DEF u, v
<1> DEFINE k1 == u \div q  k2 == u % q  k3 == v \div w  k4 == v % w
<1>4. k1 \in 0..q - 1 /\ k2 \in 0..q - 1 /\ u = k1 * q + k2
  <2>1. k1 \in Nat /\ k1 < q
    BY <1>1, <1>3, BelowProduct
  <2>2. k2 \in 0..q - 1 /\ u = q * k1 + k2
    BY <1>1, <1>3
  <2> QED
    BY <1>1, <2>1, <2>2
<1>5. k3 \in 0..w - 1 /\ k4 \in 0..w - 1 /\ v = k3 * w + k4
  <2>0. v \in Nat /\ v < w * w
    BY <1>1, <1>3
  <2>1. k3 \in Nat /\ k3 < w
    BY <1>1, <2>0, BelowProduct
  <2>2. k4 \in 0..w - 1 /\ v = w * k3 + k4
    BY <1>1, <2>0
  <2> QED
    BY <1>1, <2>1, <2>2
<1> HIDE DEF k1, k2, k3, k4
<1>6. <<k1, k2, k3, k4>> \in Keys
  BY <1>4, <1>5 DEF Keys, q, w
<1>7. BitOf(<<k1, k2, k3, k4>>) = (k1 * q + k2) * size + (k3 * w + k4)
  BY DEF BitOf, q, w
<1> QED
  BY <1>3, <1>4, <1>5, <1>6, <1>7

\* As many cells come before one as the number of its bit.
LEMMA BitIsPlace ==
    ASSUME NEW c \in Cells
    PROVE  Cardinality({d \in Cells : SoonerKey(Key(d), Key(c))}) = BitOf(Key(c))
<1> DEFINE A == {d \in Cells : SoonerKey(Key(d), Key(c))}  n == BitOf(Key(c))  B == 0..n - 1
     f == [d \in A |-> BitOf(Key(d))]
<1>1. \A d \in Cells : Key(d) \in Keys /\ CellOf(Key(d)) = d
  BY CellsAreKeys
<1>2. n \in Bits /\ Bits \subseteq Nat /\ \A j \in Nat : j < n => j \in Bits
  <2>1. n \in Bits
    BY <1>1, KeysInOrder
  <2> HIDE DEF n
  <2>2. (WindowsPerAxis * WindowsPerAxis) * (Window * Window) \in Nat
    <3>1. WindowsPerAxis * WindowsPerAxis \in Nat /\ Window * Window \in Nat
      BY SizesAre DEF MhashSizes
    <3> QED
      BY <3>1
  <2> QED
    BY <2>1, <2>2 DEF Bits
<1>3. \A d \in Cells : d \in A <=> BitOf(Key(d)) < n
  BY <1>1, KeysInOrder
<1>4. \A d \in Cells : BitOf(Key(d)) \in Bits
  BY <1>1, KeysInOrder
<1>5. IsFiniteSet(A)
  <2>1. A \in SUBSET Cells
    OBVIOUS
  <2> QED
    BY <2>1, CellsAreKeys, FS_Subset
<1>6. f \in [A -> B] /\ \A d \in A : f[d] = BitOf(Key(d))
  <2> HIDE DEF n
  <2>1. \A d \in A : BitOf(Key(d)) \in B
    <3> SUFFICES ASSUME NEW d \in A PROVE BitOf(Key(d)) \in B
      OBVIOUS
    <3>1. d \in Cells
      OBVIOUS
    <3> HIDE DEF A
    <3> DEFINE b == BitOf(Key(d))
    <3>2. b < n /\ b \in Bits
      BY <1>3, <1>4, <3>1
    <3>3. b \in Nat /\ n \in Nat
      BY <1>2, <3>2
    <3> HIDE DEF b
    <3> QED
      BY <3>2, <3>3 DEF b
  <2> HIDE DEF A, B
  <2> QED
    BY <2>1
<1> HIDE DEF f
<1>7. \A d, e \in A : f[d] = f[e] => d = e
  <2> SUFFICES ASSUME NEW d \in A, NEW e \in A, f[d] = f[e] PROVE d = e
    OBVIOUS
  <2>1. Key(d) \in Keys /\ Key(e) \in Keys /\ BitOf(Key(d)) = BitOf(Key(e))
    BY <1>1, <1>6
  <2>2. Key(d) = Key(e)
    BY <2>1, KeysInOrder
  <2> QED
    BY <1>1, <2>2
<1>8. \A b \in B : \E d \in A : f[d] = b
  <2> SUFFICES ASSUME NEW b \in B PROVE \E d \in A : f[d] = b
    OBVIOUS
  <2>1. b \in Bits /\ b < n
    <3>1. n \in Nat
      BY <1>2
    <3> HIDE DEF n
    <3>2. b \in Nat /\ b < n
      BY <3>1
    <3> QED
      BY <1>2, <3>2
  <2>2. PICK k \in Keys : BitOf(k) = b
    BY <2>1, EveryBit
  <2>3. CellOf(k) \in Cells /\ Key(CellOf(k)) = k
    BY CellsAreKeys
  <2>4. CellOf(k) \in A
    BY <1>3, <2>1, <2>2, <2>3
  <2> QED
    BY <1>6, <2>2, <2>3, <2>4
<1>9. Cardinality(B) = Cardinality(A)
  <2> HIDE DEF A, B
  <2> QED
    BY <1>5, <1>6, <1>7, <1>8, SameNumber
<1>10. Cardinality(B) = n
  <2> HIDE DEF n
  <2>1. n \in Nat /\ 0 \in Int /\ n - 1 \in Int
    BY <1>2
  <2>2. Cardinality(0..n - 1) = IF 0 > n - 1 THEN 0 ELSE (n - 1) - 0 + 1
    BY ONLY <2>1, FS_Interval
  <2>3. (IF 0 > n - 1 THEN 0 ELSE (n - 1) - 0 + 1) = n
    BY <2>1
  <2> QED
    BY <2>2, <2>3
<1> QED
  BY <1>9, <1>10

\* The blocks of a window, by their numbers in it.
Size     == Window * Window
Spots    == 0..Size - 1
SpotAt(v, i) == <<BlockOf(v[1], i % Window), BlockOf(v[2], i \div Window)>>
SpotsOf(grid, v) == [i \in Spots |-> grid[SpotAt(v, i)]]
NumberOf(b)  == (b[1][2] * WindowsPerAxis + b[1][1]) * Size + b[2]
AboveMean(grid, off) ==
    {b \in Windows \X Spots : grid[SpotAt(b[1], b[2])] * Size > Sums(SpotsOf(grid, b[1]))[Spots] + off[b[1]]}

InRows(grid) == [k \in 0..FitSide * FitSide - 1 |-> grid[<<k % FitSide, k \div FitSide>>]]

SpotIsKey(v, i) ==
    LET k == <<v[2], v[1], i \div Window, i % Window>>
    IN  k \in Keys /\ SpotAt(v, i) = CellOf(k) /\ SpotAt(v, i) \in MhGrid /\ BitOf(k) = NumberOf(<<v, i>>)

LEMMA SpotsAreKeys ==
    ASSUME NEW v \in Windows, NEW i \in Spots
    PROVE  SpotIsKey(v, i)
<1> DEFINE w == Window  r == i % w  s == i \div w  k == <<v[2], v[1], s, r>>
<1>1. w \in Nat \ {0} /\ w * w \in Nat \ {0}
  BY SizesAre DEF MhashSizes
<1>2. i \in Nat /\ i < w * w
  BY <1>1 DEF Spots, Size
<1> HIDE DEF w
<1>3. r \in 0..w - 1 /\ i = w * s + r /\ s \in Nat
  BY <1>1, <1>2, Division
<1>4. s \in 0..w - 1
  <2>1. s \in Nat /\ s < w
    BY <1>1, <1>2, BelowProduct
  <2> QED
    BY <1>1, <2>1
<1>5. i = s * w + r
  BY <1>1, <1>3
<1> HIDE DEF r, s
<1>6. k \in Keys
  BY <1>3, <1>4 DEF Keys, Windows, w
<1>7. SpotAt(v, i) = CellOf(k)
  BY DEF SpotAt, CellOf, r, s, w
<1>8. CellOf(k) \in MhGrid
  BY <1>6, CellsAreKeys DEF Cells
<1>9. BitOf(k) = (v[2] * WindowsPerAxis + v[1]) * Size + i
  BY <1>5 DEF BitOf, Size, w
<1>10. k = <<v[2], v[1], i \div Window, i % Window>>
  BY DEF r, s, w
<1> HIDE DEF k
<1> QED
  BY <1>6, <1>7, <1>8, <1>9, <1>10 DEF SpotIsKey, NumberOf

LEMMA WindowsSum ==
    ASSUME NEW grid \in [MhGrid -> Int], NEW v \in Windows
    PROVE  /\ Summable(SpotsOf(grid, v), Spots)
           /\ Sums(SpotsOf(grid, v))[Spots] = Sums(grid)[{SpotAt(v, i) : i \in Spots}]
           /\ IsFiniteSet(Spots) /\ Cardinality(Spots) = Size
<1> DEFINE turn == [i \in Spots |-> SpotAt(v, i)]  h == SpotsOf(grid, v)
<1>1. \A i \in Spots : SpotAt(v, i) \in MhGrid
  BY SpotsAreKeys DEF SpotIsKey
<1>2. ASSUME NEW i \in Spots, NEW j \in Spots, SpotAt(v, i) = SpotAt(v, j) PROVE i = j
  <2> DEFINE k == <<v[2], v[1], i \div Window, i % Window>>  l == <<v[2], v[1], j \div Window, j % Window>>
  <2>1. k \in Keys /\ SpotAt(v, i) = CellOf(k) /\ BitOf(k) = NumberOf(<<v, i>>)
    BY SpotsAreKeys DEF SpotIsKey
  <2>2. l \in Keys /\ SpotAt(v, j) = CellOf(l) /\ BitOf(l) = NumberOf(<<v, j>>)
    BY SpotsAreKeys DEF SpotIsKey
  <2> HIDE DEF k, l
  <2>3. k = l
    BY <1>2, <2>1, <2>2, CellsAreKeys
  <2>4. NumberOf(<<v, i>>) = NumberOf(<<v, j>>)
    BY <2>1, <2>2, <2>3
  <2> DEFINE base == (v[2] * WindowsPerAxis + v[1]) * Size
  <2>5. base + i = base + j
    BY <2>4 DEF NumberOf
  <2>6. base \in Int
    <3>1. WindowsPerAxis \in Nat /\ Size \in Nat /\ v[1] \in Nat /\ v[2] \in Nat
      BY SizesAre DEF MhashSizes, Windows, Size
    <3>2. v[2] * WindowsPerAxis + v[1] \in Nat
      BY <3>1
    <3> QED
      BY <3>1, <3>2
  <2>7. i \in Int /\ j \in Int
    BY DEF Spots
  <2> HIDE DEF base
  <2> QED
    BY <2>5, <2>6, <2>7
<1>3. IsFiniteSet(Spots) /\ Cardinality(Spots) = Size
  <2>1. Size \in Nat \ {0}
    BY SizesAre DEF MhashSizes, Size
  <2>2. 0 \in Int /\ Size - 1 \in Int
    BY <2>1
  <2>3. IsFiniteSet(0..Size - 1) /\ Cardinality(0..Size - 1) = IF 0 > Size - 1 THEN 0 ELSE (Size - 1) - 0 + 1
    BY ONLY <2>2, FS_Interval
  <2>4. (IF 0 > Size - 1 THEN 0 ELSE (Size - 1) - 0 + 1) = Size
    BY <2>1
  <2> QED
    BY <2>3, <2>4 DEF Spots
<1>4. turn \in [Spots -> MhGrid] /\ \A i \in Spots : turn[i] = SpotAt(v, i)
  BY <1>1
<1>5. h \in [Spots -> Int] /\ \A i \in Spots : h[i] = grid[SpotAt(v, i)]
  BY <1>1 DEF SpotsOf
<1> HIDE DEF turn, h
<1>6. \A i, j \in Spots : turn[i] = turn[j] => i = j
  BY <1>2, <1>4
<1>7. Carries(turn, Spots, MhGrid, grid, h)
  BY <1>3, <1>4, <1>5, <1>6, CellsAreKeys DEF Carries
<1>8. Sums(h)[Spots] = Sums(grid)[{turn[i] : i \in Spots}]
  <2>1. Spots \in SUBSET Spots
    OBVIOUS
  <2> QED
    BY ONLY <1>7, <2>1, Carried
<1>9. {turn[i] : i \in Spots} = {SpotAt(v, i) : i \in Spots}
  BY <1>4
<1>10. Summable(h, Spots)
  BY <1>3, <1>5 DEF Summable
<1> QED
  BY <1>3, <1>8, <1>9, <1>10 DEF h

\* What Mhash() adds up in a window.
WindowTotal(sums, side, v) ==
    LET of(i) == sums[(v[2] * WindowStride + (i \div Window)) * side + (v[1] * WindowStride + (i % Window))]
    IN  MapThenSumSet(of, 0..Window * Window - 1)

LEMMA ValueOfSpot ==
    ASSUME NEW grid \in [MhGrid -> Int], NEW v \in Windows, NEW i \in Spots
    PROVE  InRows(grid)[(v[2] * WindowStride + (i \div Window)) * FitSide + (v[1] * WindowStride + (i % Window))]
              = grid[SpotAt(v, i)]
<1> DEFINE x == v[1] * WindowStride + (i % Window)  y == v[2] * WindowStride + (i \div Window)  F == FitSide
<1>1. F \in Nat \ {0}
  BY SizesAre DEF MhashSizes
<1>2. SpotAt(v, i) = <<x, y>> /\ x \in 0..F - 1 /\ y \in 0..F - 1
  BY SpotsAreKeys DEF SpotIsKey, SpotAt, BlockOf, MhGrid
<1> HIDE DEF x, y, F
<1>3. y * F + x \in 0..F * F - 1 /\ (y * F + x) \div F = y /\ (y * F + x) % F = x
  <2>1. y \in Nat
    BY <1>1, <1>2
  <2> QED
    BY <1>1, <1>2, <2>1, PlaceOf, PlaceWithin
<1>4. InRows(grid)[y * F + x] = grid[<<x, y>>]
  BY <1>3 DEF InRows, F
<1> QED
  BY <1>2, <1>4 DEF x, y, F

LEMMA WindowTotalIs ==
    ASSUME NEW grid \in [MhGrid -> Int], NEW v \in Windows
    PROVE  WindowTotal(InRows(grid), FitSide, v) = Sums(SpotsOf(grid, v))[Spots]
<1> DEFINE e == SpotsOf(grid, v)
     at(i) == InRows(grid)[(v[2] * WindowStride + (i \div Window)) * FitSide + (v[1] * WindowStride + (i % Window))]
     Folds(h) == h = [s \in SUBSET Spots |-> IF s = {} THEN 0 ELSE at(Chosen(s)) + h[s \ {Chosen(s)}]]
<1>1. Summable(e, Spots) /\ DOMAIN e = Spots
  BY WindowsSum DEF SpotsOf
<1>2. \A i \in Spots : e[i] = at(i)
  BY ValueOfSpot DEF SpotsOf
<1> HIDE DEF e
<1>3. WindowTotal(InRows(grid), FitSide, v) = (CHOOSE h : Folds(h))[Spots]
  BY DEF WindowTotal, MapThenSumSet, MapThenFoldSet, Chosen, Spots, Size
<1> HIDE DEF at
<1>4. \A s \in SUBSET Spots : s # {} => e[Chosen(s)] = at(Chosen(s))
  BY <1>2, ChosenIsIn
<1>5. \A h : Folds(h) <=> AddsUp(e, h)
  BY <1>1, <1>4 DEF AddsUp
<1>6. Folds(Sums(e))
  BY <1>1, <1>5, SumsAddUp
<1> HIDE DEF Folds
<1>7. Folds(CHOOSE h : Folds(h))
  BY <1>6
<1>8. (CHOOSE h : Folds(h)) = Sums(e)
  BY <1>1, <1>5, <1>7, SumsAreOne
<1> QED
  BY <1>3, <1>8 DEF e

LEMMA MhashIs ==
    ASSUME NEW grid \in [MhGrid -> Int], NEW off
    PROVE  Mhash(InRows(grid), FitSide, off) = {FromHigh(NumberOf(b)) : b \in AboveMean(grid, off)}
<1> DEFINE sums == InRows(grid)
     value(v, i) == sums[(v[2] * WindowStride + (i \div Window)) * FitSide + (v[1] * WindowStride + (i % Window))]
     above == {b \in Windows \X Spots : value(b[1], b[2]) * Size > WindowTotal(sums, FitSide, b[1]) + off[b[1]]}
<1>1. Mhash(sums, FitSide, off) = {FromHigh((b[1][2] * WindowsPerAxis + b[1][1]) * Size + b[2]) : b \in above}
  BY DEF Mhash, WindowTotal, Windows, Spots, Size
<1>2. ASSUME NEW b \in Windows \X Spots
      PROVE  value(b[1], b[2]) = grid[SpotAt(b[1], b[2])]
             /\ WindowTotal(sums, FitSide, b[1]) = Sums(SpotsOf(grid, b[1]))[Spots]
  <2>1. b[1] \in Windows /\ b[2] \in Spots
    OBVIOUS
  <2> QED
    BY <2>1, ValueOfSpot, WindowTotalIs
<1> HIDE DEF sums, value
<1>3. above = AboveMean(grid, off)
  BY <1>2 DEF AboveMean
<1> HIDE DEF above
<1> QED
  BY <1>1, <1>3 DEF NumberOf, sums

\* The cells of a cell's window.
Fellows(c) == {d \in Cells : Key(d)[1] = Key(c)[1] /\ Key(d)[2] = Key(c)[2]}
WindowOf(c) == <<Key(c)[2], Key(c)[1]>>
SpotIn(c)  == Key(c)[3] * Window + Key(c)[4]

IsSpot(c) ==
    /\ WindowOf(c) \in Windows /\ SpotIn(c) \in Spots
    /\ SpotAt(WindowOf(c), SpotIn(c)) = c /\ NumberOf(<<WindowOf(c), SpotIn(c)>>) = BitOf(Key(c))

LEMMA CellsAreSpots ==
    ASSUME NEW c \in Cells
    PROVE  IsSpot(c)
<1> DEFINE w == Window  k == Key(c)
<1>1. k \in Keys /\ CellOf(k) = c
  BY CellsAreKeys
<1> HIDE DEF k
<1>2. PICK k1 \in 0..WindowsPerAxis - 1, k2 \in 0..WindowsPerAxis - 1, k3 \in 0..w - 1, k4 \in 0..w - 1 :
         k = <<k1, k2, k3, k4>>
  BY <1>1 DEF Keys
<1>3. w \in Nat \ {0} /\ k3 \in Nat
  BY SizesAre DEF MhashSizes
<1>4. <<k2, k1>> \in Windows
  BY DEF Windows
<1> HIDE DEF w
<1>5. k3 * w + k4 \in 0..w * w - 1 /\ (k3 * w + k4) \div w = k3 /\ (k3 * w + k4) % w = k4
  BY <1>3, PlaceOf, PlaceWithin
<1>6. WindowOf(c) = <<k2, k1>> /\ SpotIn(c) = k3 * w + k4
  BY <1>2 DEF WindowOf, SpotIn, k, w
<1>7. SpotAt(<<k2, k1>>, k3 * w + k4) = CellOf(k)
  BY <1>2, <1>5 DEF SpotAt, CellOf, w
<1>8. NumberOf(<<<<k2, k1>>, k3 * w + k4>>) = BitOf(k)
  BY <1>2 DEF NumberOf, BitOf, w, Size
<1>9. k3 * w + k4 \in Spots
  BY <1>5 DEF Spots, Size, w
<1> QED
  BY <1>1, <1>4, <1>6, <1>7, <1>8, <1>9 DEF IsSpot, k

LEMMA FellowsAreWindow ==
    ASSUME NEW c \in Cells
    PROVE  Fellows(c) = {SpotAt(WindowOf(c), i) : i \in Spots}
<1>1. ASSUME NEW d \in Fellows(c) PROVE \E i \in Spots : d = SpotAt(WindowOf(c), i)
  <2>1. d \in Cells /\ WindowOf(d) = WindowOf(c)
    BY DEF Fellows, WindowOf
  <2>2. IsSpot(d)
    BY <2>1, CellsAreSpots
  <2> QED
    BY <2>1, <2>2 DEF IsSpot
<1>2. ASSUME NEW i \in Spots PROVE SpotAt(WindowOf(c), i) \in Fellows(c)
  <2> DEFINE v == WindowOf(c)  k == <<v[2], v[1], i \div Window, i % Window>>
  <2>1. v \in Windows
    BY CellsAreSpots DEF IsSpot
  <2>2. k \in Keys /\ SpotAt(v, i) = CellOf(k)
    BY <2>1, SpotsAreKeys DEF SpotIsKey
  <2>3. k[1] = Key(c)[1] /\ k[2] = Key(c)[2]
    BY DEF WindowOf
  <2> HIDE DEF k, v
  <2>4. CellOf(k) \in Cells /\ Key(CellOf(k)) = k
    BY <2>2, CellsAreKeys
  <2> QED
    BY <2>2, <2>3, <2>4 DEF Fellows, v
<1> QED
  BY <1>1, <1>2

\* A bit of the digest by its byte and its place in it, and back.
LEMMA FromHighReads ==
    ASSUME NEW bit \in Nat
    PROVE  8 * FromHigh(bit)[1] + (7 - FromHigh(bit)[2]) = bit
<1> DEFINE u == bit \div 8  r == bit % 8
<1>1. u \in Nat /\ r \in 0..7 /\ bit = 8 * u + r
  OBVIOUS
<1>2. FromHigh(bit)[1] = u /\ FromHigh(bit)[2] = 7 - r
  BY DEF FromHigh
<1> HIDE DEF u, r
<1> QED
  BY <1>1, <1>2

LEMMA NumbersAreBits ==
    ASSUME NEW b \in Windows \X Spots
    PROVE  /\ NumberOf(b) \in Nat
           /\ \A c \in Cells : NumberOf(b) = BitOf(Key(c)) <=> b = <<WindowOf(c), SpotIn(c)>>
<1> DEFINE v == b[1]  i == b[2]  k == <<v[2], v[1], i \div Window, i % Window>>
<1>1. v \in Windows /\ i \in Spots /\ b = <<v, i>>
  OBVIOUS
<1>2. k \in Keys /\ SpotAt(v, i) = CellOf(k) /\ BitOf(k) = NumberOf(<<v, i>>)
  BY <1>1, SpotsAreKeys DEF SpotIsKey
<1>3. i = (i \div Window) * Window + (i % Window)
  <2>1. Window \in Nat \ {0} /\ i \in Nat
    BY SizesAre DEF MhashSizes, Spots
  <2>2. i = Window * (i \div Window) + (i % Window) /\ i \div Window \in Nat
    BY <2>1, Division
  <2> DEFINE w == Window  e == i \div Window
  <2>3. w * e = e * w
    <3> HIDE DEF w, e
    <3> QED
      BY <2>1, <2>2 DEF w, e
  <2> QED
    BY <2>2, <2>3
<1>4. v = <<v[1], v[2]>>
  BY DEF Windows
<1>5. k[1] = v[2] /\ k[2] = v[1] /\ k[3] * Window + k[4] = i
  BY <1>3
<1> HIDE DEF k, v, i
<1>6. NumberOf(b) \in Nat
  <2>1. BitOf(k) \in Bits
    BY <1>2, KeysInOrder
  <2> QED
    BY <1>1, <1>2, <2>1 DEF Bits
<1>7. ASSUME NEW c \in Cells PROVE NumberOf(b) = BitOf(Key(c)) <=> b = <<WindowOf(c), SpotIn(c)>>
  <2>1. NumberOf(<<WindowOf(c), SpotIn(c)>>) = BitOf(Key(c))
    BY CellsAreSpots DEF IsSpot
  <2>2. Key(c) \in Keys
    BY CellsAreKeys
  <2>3. NumberOf(b) = BitOf(Key(c)) => k = Key(c)
    BY <1>1, <1>2, <2>2, KeysInOrder
  <2>4. k = Key(c) => b = <<WindowOf(c), SpotIn(c)>>
    BY <1>1, <1>4, <1>5 DEF WindowOf, SpotIn
  <2> QED
    BY <2>1, <2>3, <2>4
<1> QED
  BY <1>6, <1>7

IsReadBit(answer, bit) == \E p \in answer : 8 * p[1] + (7 - p[2]) = bit

LEMMA AnswerReads ==
    ASSUME NEW grid \in [MhGrid -> Int], NEW off, NEW answer, answer = {FromHigh(NumberOf(b)) : b \in AboveMean(grid, off)},
           NEW c \in Cells
    PROVE  IsReadBit(answer, BitOf(Key(c))) <=> grid[c] * Size > Sums(grid)[Fellows(c)] + off[WindowOf(c)]
<1> DEFINE b == <<WindowOf(c), SpotIn(c)>>
<1>1. AboveMean(grid, off) \subseteq Windows \X Spots
  BY DEF AboveMean
<1>2. IsSpot(c) /\ b \in Windows \X Spots
  BY CellsAreSpots DEF IsSpot
<1>3. \A e \in AboveMean(grid, off) : NumberOf(e) \in Nat /\ (NumberOf(e) = BitOf(Key(c)) <=> e = b)
  BY <1>1, NumbersAreBits
<1>4. \A e \in AboveMean(grid, off) : 8 * FromHigh(NumberOf(e))[1] + (7 - FromHigh(NumberOf(e))[2]) = NumberOf(e)
  BY <1>3, FromHighReads
<1>5. IsReadBit(answer, BitOf(Key(c))) <=> \E e \in AboveMean(grid, off) : NumberOf(e) = BitOf(Key(c))
  BY <1>4 DEF IsReadBit
<1>6. IsReadBit(answer, BitOf(Key(c))) <=> b \in AboveMean(grid, off)
  BY <1>3, <1>5
<1>7. b \in AboveMean(grid, off) <=> grid[SpotAt(WindowOf(c), SpotIn(c))] * Size
                                   > Sums(SpotsOf(grid, WindowOf(c)))[Spots] + off[WindowOf(c)]
  BY <1>2 DEF AboveMean
<1>8. Sums(SpotsOf(grid, WindowOf(c)))[Spots] = Sums(grid)[Fellows(c)]
  <2>1. WindowOf(c) \in Windows
    BY <1>2 DEF IsSpot
  <2>2. Sums(SpotsOf(grid, WindowOf(c)))[Spots] = Sums(grid)[{SpotAt(WindowOf(c), i) : i \in Spots}]
    BY <2>1, WindowsSum
  <2> QED
    BY <2>2, FellowsAreWindow
<1> QED
  BY <1>2, <1>6, <1>7, <1>8 DEF IsSpot

\* What MhashAsDefined says, in the names above.
GivenCells(given) ==
    {c \in (0..given.side - 1) \X (0..given.side - 1) :
        \E ox, oy \in {o \in 0..given.side - Window : o % WindowStride = 0} :
            c[1] - ox \in 0..Window - 1 /\ c[2] - oy \in 0..Window - 1}

FellowsIn(cells, c) == {d \in cells : Key(d)[1] = Key(c)[1] /\ Key(d)[2] = Key(c)[2]}
IsSetIn(cells, answer, c) == IsReadBit(answer, Cardinality({d \in cells : SoonerKey(Key(d), Key(c))}))

BitIsRight(grid, within, cells, answer, c) ==
    LET above == grid[c] * Size - SumOf(grid, FellowsIn(cells, c))
    IN  /\ above > within => IsSetIn(cells, answer, c)
        /\ IsSetIn(cells, answer, c) => above > -within
        /\ \A d \in FellowsIn(cells, c) :
               IsSetIn(cells, answer, c) /\ grid[d] >= grid[c] => IsSetIn(cells, answer, d)

LEMMA MhashSays ==
    ASSUME NEW given, NEW answer
    PROVE  MhashAsDefined(given, answer) <=>
              \A c \in GivenCells(given) : BitIsRight(given.grid, given.within, GivenCells(given), answer, c)
  BY DEF MhashAsDefined, GivenCells, BitIsRight, FellowsIn, IsSetIn, IsReadBit, SoonerKey, Key, Size

LEMMA MhashMeans ==
    ASSUME NEW grid, NEW within, NEW answer
    PROVE  MhashAsDefined([grid |-> grid, side |-> FitSide, within |-> within], answer) <=>
              \A c \in Cells : BitIsRight(grid, within, Cells, answer, c)
<1> DEFINE given == [grid |-> grid, side |-> FitSide, within |-> within]
<1>1. given.grid = grid /\ given.side = FitSide /\ given.within = within
  OBVIOUS
<1> HIDE DEF given
<1>2. Cells = GivenCells(given)
  BY <1>1 DEF GivenCells, Cells, MhGrid, Covered
<1> QED
  BY <1>1, <1>2, MhashSays DEF given

\* Whatever rounding adds to the means, a block that is above its window's by more has its
\* bit, one that is below by as much has not, and blocks of a window are cut at one value.
LEMMA MhashIsDefined ==
    ASSUME NEW grid \in [MhGrid -> Int], NEW within \in Nat, NEW off \in [Windows -> -within..within]
    PROVE  MhashAsDefined([grid |-> grid, side |-> FitSide, within |-> within], Mhash(InRows(grid), FitSide, off))
<1> DEFINE answer == Mhash(InRows(grid), FitSide, off)
<1>1. answer = {FromHigh(NumberOf(b)) : b \in AboveMean(grid, off)}
  BY MhashIs
<1>2. Summable(grid, MhGrid)
  BY CellsAreKeys DEF Summable
<1> HIDE DEF answer
<1>3. ASSUME NEW c \in Cells
      PROVE  IsSetIn(Cells, answer, c) <=> grid[c] * Size > Sums(grid)[Fellows(c)] + off[WindowOf(c)]
  BY <1>1, AnswerReads, BitIsPlace DEF IsSetIn
<1>4. Size \in Nat
  BY SizesAre DEF MhashSizes, Size
<1>5. ASSUME NEW c \in Cells PROVE BitIsRight(grid, within, Cells, answer, c)
  <2> DEFINE g == grid[c]  total == Sums(grid)[Fellows(c)]  o == off[WindowOf(c)]
  <2>1. Fellows(c) \in SUBSET MhGrid /\ c \in MhGrid
    BY DEF Fellows, Cells
  <2>2. SumOf(grid, Fellows(c)) = total /\ total \in Int
    BY <1>2, <2>1, SumOfIs, SumIsInt
  <2>3. FellowsIn(Cells, c) = Fellows(c)
    BY DEF FellowsIn, Fellows
  <2>4. g \in Int /\ o \in -within..within
    <3>1. WindowOf(c) \in Windows
      BY CellsAreSpots DEF IsSpot
    <3> QED
      BY <2>1, <3>1
  <2>5. IsSetIn(Cells, answer, c) <=> g * Size > total + o
    BY <1>3
  <2>6. ASSUME NEW e \in Fellows(c), grid[e] >= g, IsSetIn(Cells, answer, c) PROVE IsSetIn(Cells, answer, e)
    <3>1. e \in Cells /\ Key(e)[1] = Key(c)[1] /\ Key(e)[2] = Key(c)[2]
      BY DEF Fellows
    <3>2. Fellows(e) = Fellows(c) /\ WindowOf(e) = WindowOf(c) /\ grid[e] \in Int
      BY <3>1 DEF Fellows, WindowOf, Cells
    <3>3. IsSetIn(Cells, answer, e) <=> grid[e] * Size > total + o
      BY <1>3, <3>1, <3>2
    <3> DEFINE h == grid[e]
    <3>4. h \in Int /\ h >= g
      BY <2>6, <3>2
    <3>5. g * Size > total + o
      BY <2>5, <2>6
    <3> HIDE DEF g, total, o, h
    <3>6. h * Size >= g * Size /\ h * Size \in Int /\ g * Size \in Int
      BY <1>4, <2>4, <3>4
    <3>7. total + o \in Int
      BY <2>2, <2>4
    <3>8. h * Size > total + o
      BY ONLY <3>5, <3>6, <3>7
    <3> QED
      BY <3>3, <3>8 DEF h
  <2> DEFINE above == g * Size - total
  <2>7. (above > within => IsSetIn(Cells, answer, c)) /\ (IsSetIn(Cells, answer, c) => above > -within)
    <3> DEFINE x == g * Size
    <3>1. x \in Int
      BY <1>4, <2>4
    <3>2. IsSetIn(Cells, answer, c) <=> x > total + o
      BY <2>5
    <3> HIDE DEF x, total, o, g
    <3>3. (x - total > within => x > total + o) /\ (x > total + o => x - total > -within)
      BY <2>2, <2>4, <3>1
    <3> QED
      BY <3>2, <3>3 DEF x
  <2> QED
    BY <2>2, <2>3, <2>6, <2>7 DEF BitIsRight
<1> QED
  BY <1>5, MhashMeans DEF answer

-----------------------------------------------------------------------------
\* wHash.  The powers of two: what every set has that has 1 and twice each of its numbers.
Doubling(X) == X \subseteq Nat /\ 1 \in X /\ \A x \in X : 2 * x \in X
PowerOfTwo(n) == n \in Nat /\ \A X : Doubling(X) => n \in X

LEMMA PowersDouble ==
    /\ PowerOfTwo(1)
    /\ \A n : PowerOfTwo(n) => PowerOfTwo(2 * n) /\ n \in Nat \ {0}
<1>1. PowerOfTwo(1)
  BY DEF PowerOfTwo, Doubling
<1>2. ASSUME NEW n, PowerOfTwo(n) PROVE PowerOfTwo(2 * n)
  <2>1. n \in Nat /\ 2 * n \in Nat
    BY <1>2 DEF PowerOfTwo
  <2>2. ASSUME NEW X, Doubling(X) PROVE 2 * n \in X
    BY <1>2, <2>2 DEF PowerOfTwo, Doubling
  <2> QED
    BY <2>1, <2>2 DEF PowerOfTwo
<1>3. ASSUME NEW n, PowerOfTwo(n) PROVE n \in Nat \ {0}
  <2> DEFINE X == Nat \ {0}
  <2>1. Doubling(X)
    BY DEF Doubling
  <2> HIDE DEF X
  <2>2. n \in X
    BY <1>3, <2>1 DEF PowerOfTwo
  <2> QED
    BY <2>2 DEF X
<1> QED
  BY <1>1, <1>2, <1>3

LEMMA PowersHalve ==
    ASSUME NEW n, PowerOfTwo(n), n # 1
    PROVE  \E m \in Nat : n = 2 * m /\ PowerOfTwo(m)
<1> DEFINE X == {x \in Nat : PowerOfTwo(x) /\ (x = 1 \/ \E m \in Nat : x = 2 * m /\ PowerOfTwo(m))}
<1>1. Doubling(X)
  <2>1. 1 \in X
    BY PowersDouble
  <2>2. ASSUME NEW x \in X PROVE 2 * x \in X
    <3>1. PowerOfTwo(x) /\ x \in Nat
      OBVIOUS
    <3>2. PowerOfTwo(2 * x) /\ 2 * x \in Nat
      BY <3>1, PowersDouble
    <3> QED
      BY <3>1, <3>2
  <2> HIDE DEF X
  <2>3. X \subseteq Nat
    BY DEF X
  <2> QED
    BY <2>1, <2>2, <2>3 DEF Doubling
<1> HIDE DEF X
<1>2. n \in X
  BY <1>1 DEF PowerOfTwo
<1> QED
  BY <1>2 DEF X

LEMMA HashSizeIsPower ==
    /\ HashSize \in {1, 2, 4, 8} /\ PowerOfTwo(HashSize) /\ PowerOfTwo(2 * HashSize)
    /\ HashSize \in Nat \ {0} /\ HashSize * HashSize \in {1, 4, 16, 64}
<1>1. HashSize \in {1, 2, 4, 8}
  BY GridHashesAssumption
<1>2. PowerOfTwo(1) /\ PowerOfTwo(2) /\ PowerOfTwo(4) /\ PowerOfTwo(8)
  <2>1. 2 * 1 = 2 /\ 2 * 2 = 4 /\ 2 * 4 = 8
    OBVIOUS
  <2>2. PowerOfTwo(2)
    BY <2>1, PowersDouble
  <2>3. PowerOfTwo(4)
    BY <2>1, <2>2, PowersDouble
  <2>4. PowerOfTwo(8)
    BY <2>1, <2>3, PowersDouble
  <2> QED
    BY <2>2, <2>3, <2>4, PowersDouble
<1>3. PowerOfTwo(HashSize)
  BY <1>1, <1>2
<1> QED
  BY <1>1, <1>3, PowersDouble

\* A power of two that is not smaller than the hash's side is a multiple of it by another.
LEMMA HashSizeDivides ==
    ASSUME NEW n, PowerOfTwo(n), n >= HashSize
    PROVE  \E t \in Nat : PowerOfTwo(t) /\ HashSize * t = n
<1>1. HashSize \in {1, 2, 4, 8} /\ n \in Nat
  BY HashSizeIsPower DEF PowerOfTwo
<1>2. CASE HashSize = 1
  BY <1>1, <1>2
<1>3. CASE HashSize # 1
  <2>1. n # 1 /\ HashSize >= 2
    BY <1>1, <1>3
  <2>2. PICK m \in Nat : n = 2 * m /\ PowerOfTwo(m)
    BY <2>1, PowersHalve
  <2>3. CASE HashSize = 2
    BY <2>2, <2>3
  <2>4. CASE HashSize # 2
    <3>1. m # 1 /\ HashSize >= 4
      BY <1>1, <1>3, <2>2, <2>4
    <3>2. PICK l \in Nat : m = 2 * l /\ PowerOfTwo(l)
      BY <2>2, <3>1, PowersHalve
    <3>3. CASE HashSize = 4
      BY <2>2, <3>2, <3>3
    <3>4. CASE HashSize # 4
      <4>1. HashSize = 8 /\ l # 1
        BY <1>1, <1>3, <2>2, <2>4, <3>2, <3>4
      <4>2. PICK k \in Nat : l = 2 * k /\ PowerOfTwo(k)
        BY <3>2, <4>1, PowersHalve
      <4> QED
        BY <2>2, <3>2, <4>1, <4>2
    <3> QED
      BY <3>3, <3>4
  <2> QED
    BY <2>3, <2>4
<1> QED
  BY <1>2, <1>3

-----------------------------------------------------------------------------
\* The doubling that begins at 1 ends at the largest power of two that is not larger than
\* the limit.
ScaleFrom(min_dim, f) == f = [s \in 1..min_dim |-> IF 2 * s > min_dim THEN s ELSE f[2 * s]]

LEMMA NatScaleIs ==
    ASSUME NEW min_dim \in Nat \ {0}
    PROVE  /\ PowerOfTwo(NatScale(min_dim)) /\ NatScale(min_dim) <= min_dim
           /\ 2 * NatScale(min_dim) > min_dim
<1> DEFINE D == 1..min_dim  m == [s \in D |-> min_dim - s]
     step == [s \in D |-> [g \in [D -> D] |-> IF 2 * s > min_dim THEN s ELSE g[2 * s]]]
     doubled == CHOOSE f : ScaleFrom(min_dim, f)
<1>1. m \in [D -> 0..min_dim] /\ m \in [D -> Nat] /\ 1 \in D
  OBVIOUS
<1>2. \A s \in D : ~(2 * s > min_dim) => 2 * s \in D /\ m[2 * s] < m[s]
  OBVIOUS
<1>3. step \in [D -> [[D -> D] -> D]]
  <2> SUFFICES ASSUME NEW s \in D, NEW g \in [D -> D] PROVE (IF 2 * s > min_dim THEN s ELSE g[2 * s]) \in D
    OBVIOUS
  <2> HIDE DEF m
  <2>1. ~(2 * s > min_dim) => 2 * s \in D
    BY <1>2
  <2> HIDE DEF D
  <2> QED
    BY <2>1
<1>4. ASSUME NEW s \in D, NEW f \in [D -> D], NEW g \in [D -> D], \A y \in D : m[y] < m[s] => f[y] = g[y]
      PROVE  step[s][f] = step[s][g]
  <2>1. ~(2 * s > min_dim) => f[2 * s] = g[2 * s]
    BY <1>2, <1>4
  <2> HIDE DEF D, m
  <2> QED
    BY <2>1
<1>5. Recursive(D, D, m, step)
  <2> HIDE DEF D, m, step
  <2> QED
    BY <1>1, <1>3, <1>4 DEF Recursive
<1>6. PICK f \in [D -> D] : f = [s \in D |-> step[s][f]]
  <2> HIDE DEF D, m, step
  <2>1. min_dim \in Nat
    OBVIOUS
  <2> QED
    BY <1>1, <1>5, <2>1, RecursionExists
<1>7. \A s \in D : step[s][f] = IF 2 * s > min_dim THEN s ELSE f[2 * s]
  OBVIOUS
<1>8. ScaleFrom(min_dim, f)
  <2> HIDE DEF step
  <2> QED
    BY <1>6, <1>7 DEF ScaleFrom
<1>9. ScaleFrom(min_dim, doubled)
  BY <1>8
<1>10. NatScale(min_dim) = doubled[1]
  BY DEF NatScale, ScaleFrom
<1> HIDE DEF doubled
<1>11. \A s \in D : doubled[s] = IF 2 * s > min_dim THEN s ELSE doubled[2 * s]
  BY <1>9 DEF ScaleFrom
<1> DEFINE P == {s \in D : /\ doubled[s] \in D /\ 2 * doubled[s] > min_dim
                           /\ PowerOfTwo(s) => PowerOfTwo(doubled[s])}
<1>12. ASSUME NEW s \in D, \A y \in D : m[y] < m[s] => y \in P PROVE s \in P
  <2>1. CASE 2 * s > min_dim
    BY <1>11, <2>1
  <2>2. CASE ~(2 * s > min_dim)
    <3>1. 2 * s \in P /\ doubled[s] = doubled[2 * s]
      <4>1. 2 * s \in D /\ m[2 * s] < m[s]
        BY <1>2, <2>2
      <4> HIDE DEF P, m
      <4> QED
        BY <1>11, <1>12, <2>2, <4>1
    <3>2. PowerOfTwo(s) => PowerOfTwo(2 * s)
      BY PowersDouble
    <3> QED
      BY <3>1, <3>2
  <2> QED
    BY <2>1, <2>2
<1>13. \A s \in D : s \in P
  <2> HIDE DEF D, m, P
  <2> QED
    BY <1>1, <1>12, Inductively
<1>14. 1 \in P
  BY <1>1, <1>13
<1> QED
  BY <1>10, <1>14, PowersDouble

LEMMA WhashSizeIs ==
    ASSUME NEW mode \in {"fast", "full"}, NEW min_dim \in Nat \ {0}, NEW size, size = WhashSize(mode, min_dim)
    PROVE  /\ PowerOfTwo(size) /\ size >= HashSize
           /\ mode = "full" => (size > HashSize => size <= min_dim) /\ 2 * size > min_dim
           /\ mode = "fast" => size = 2 * HashSize
<1> DEFINE n == NatScale(min_dim)  H == HashSize
<1>1. PowerOfTwo(n) /\ n \in Nat \ {0} /\ n <= min_dim /\ 2 * n > min_dim
  BY NatScaleIs, PowersDouble
<1>2. PowerOfTwo(H) /\ PowerOfTwo(2 * H) /\ H \in Nat \ {0}
  BY HashSizeIsPower
<1>3. size = IF mode = "full" THEN (IF n > H THEN n ELSE H) ELSE 2 * H
  BY DEF WhashSize, ImageScale
<1> HIDE DEF n, H
<1>4. CASE mode = "full"
  BY <1>1, <1>2, <1>3, <1>4 DEF H
<1>5. CASE mode = "fast"
  BY <1>1, <1>2, <1>3, <1>5 DEF H
<1> QED
  BY <1>4, <1>5

\* One line of the wavelet, both ways.
Lines(n) == [0..n - 1 -> Int]
LineAt(f, i) == f[i] \in Int

LEMMA LineLength ==
    ASSUME NEW n \in Nat \ {0}, NEW line \in Lines(n)
    PROVE  DOMAIN line = 0..n - 1 /\ Cardinality(DOMAIN line) = n /\ \A i \in 0..n - 1 : line[i] \in Int
<1>1. 0 \in Int /\ n - 1 \in Int
  OBVIOUS
<1>2. Cardinality(0..n - 1) = IF 0 > n - 1 THEN 0 ELSE (n - 1) - 0 + 1
  BY ONLY <1>1, FS_Interval
<1>3. (IF 0 > n - 1 THEN 0 ELSE (n - 1) - 0 + 1) = n
  OBVIOUS
<1>4. DOMAIN line = 0..n - 1 /\ \A i \in 0..n - 1 : line[i] \in Int
  BY DEF Lines
<1> QED
  BY <1>2, <1>3, <1>4

HaarOf(line, h) ==
    /\ Haar(line) \in Lines(2 * h)
    /\ \A i \in 0..h - 1 : /\ Haar(line)[i] = line[2 * i] + line[2 * i + 1]
                           /\ Haar(line)[i + h] = line[2 * i] - line[2 * i + 1]

LEMMA HaarIs ==
    ASSUME NEW h \in Nat \ {0}, NEW line \in Lines(2 * h)
    PROVE  HaarOf(line, h)
<1> DEFINE n == 2 * h
<1>1. n \in Nat \ {0} /\ n \div 2 = h
  OBVIOUS
<1>2. DOMAIN line = 0..n - 1 /\ Cardinality(DOMAIN line) = n /\ \A i \in 0..n - 1 : line[i] \in Int
  BY <1>1, LineLength
<1>3. Haar(line) = [i \in 0..n - 1 |-> IF i < h THEN line[2 * i] + line[2 * i + 1]
                                      ELSE line[2 * (i - h)] - line[2 * (i - h) + 1]]
  BY <1>1, <1>2 DEF Haar
<1>4. \A i \in 0..h - 1 : line[2 * i] \in Int /\ line[2 * i + 1] \in Int
  BY <1>2
<1>5. ASSUME NEW i \in 0..n - 1 PROVE Haar(line)[i] \in Int
  <2>1. CASE i < h
    <3>1. i \in 0..h - 1
      BY <2>1
    <3> QED
      BY <1>3, <1>4, <2>1, <3>1
  <2>2. CASE ~(i < h)
    <3> DEFINE e == i - h
    <3>1. e \in 0..h - 1
      BY <2>2
    <3>2. Haar(line)[i] = line[2 * e] - line[2 * e + 1]
      BY <1>3, <2>2
    <3> HIDE DEF e
    <3>3. line[2 * e] \in Int /\ line[2 * e + 1] \in Int
      BY <1>4, <3>1
    <3> QED
      BY ONLY <3>2, <3>3
  <2> QED
    BY <2>1, <2>2
<1>6. Haar(line) \in Lines(n)
  <2> HIDE DEF n
  <2>1. Haar(line) = [i \in 0..n - 1 |-> Haar(line)[i]]
    BY <1>3
  <2> QED
    BY <1>5, <2>1 DEF Lines
<1>7. ASSUME NEW i \in 0..h - 1
      PROVE  /\ Haar(line)[i] = line[2 * i] + line[2 * i + 1]
             /\ Haar(line)[i + h] = line[2 * i] - line[2 * i + 1]
  <2>1. i \in 0..n - 1 /\ i < h /\ i + h \in 0..n - 1 /\ ~(i + h < h) /\ (i + h) - h = i
    OBVIOUS
  <2> HIDE DEF n
  <2> QED
    BY <1>3, <2>1
<1> QED
  BY <1>6, <1>7 DEF HaarOf

UnhaarOf(line, h) ==
    \A i \in 0..h - 1 : /\ Unhaar(line)[2 * i] = line[i] + line[i + h]
                        /\ Unhaar(line)[2 * i + 1] = line[i] - line[i + h]

LEMMA UnhaarIs ==
    ASSUME NEW n \in Nat \ {0}, NEW line \in Lines(n)
    PROVE  /\ Unhaar(line) \in Lines(n)
           /\ \A h \in Nat : n = 2 * h => UnhaarOf(line, h)
<1> DEFINE k == n \div 2
<1>1. k \in Nat /\ (n = 2 * k \/ n = 2 * k + 1)
  OBVIOUS
<1>2. DOMAIN line = 0..n - 1 /\ Cardinality(DOMAIN line) = n /\ \A i \in 0..n - 1 : line[i] \in Int
  BY LineLength
<1>3. Unhaar(line) = [i \in 0..n - 1 |-> IF i % 2 = 0 THEN line[i \div 2] + line[i \div 2 + k]
                                        ELSE line[i \div 2] - line[i \div 2 + k]]
  BY <1>2 DEF Unhaar
<1> HIDE DEF k
<1>4. ASSUME NEW i \in 0..n - 1 PROVE Unhaar(line)[i] \in Int
  <2>1. i \div 2 \in 0..n - 1 /\ i \div 2 + k \in 0..n - 1
    BY <1>1
  <2>2. line[i \div 2] \in Int /\ line[i \div 2 + k] \in Int
    BY <1>2, <2>1
  <2> QED
    BY <1>3, <2>2
<1>5. Unhaar(line) \in Lines(n)
  <2>1. Unhaar(line) = [i \in 0..n - 1 |-> Unhaar(line)[i]]
    BY <1>3
  <2> QED
    BY <1>4, <2>1 DEF Lines
<1>6. ASSUME NEW h \in Nat, n = 2 * h PROVE UnhaarOf(line, h)
  <2> SUFFICES ASSUME NEW i \in 0..h - 1
               PROVE  /\ Unhaar(line)[2 * i] = line[i] + line[i + h]
                      /\ Unhaar(line)[2 * i + 1] = line[i] - line[i + h]
    BY DEF UnhaarOf
  <2>1. k = h
    BY <1>1, <1>6
  <2>2. /\ 2 * i \in 0..n - 1 /\ (2 * i) % 2 = 0 /\ (2 * i) \div 2 = i
        /\ 2 * i + 1 \in 0..n - 1 /\ (2 * i + 1) % 2 # 0 /\ (2 * i + 1) \div 2 = i
    BY <1>6
  <2> QED
    BY <1>3, <2>1, <2>2
<1> QED
  BY <1>5, <1>6

-----------------------------------------------------------------------------
\* A pass over the rows, and over the columns, of a corner.
Places(n) == (0..n - 1) \X (0..n - 1)
Image(n) == [Places(n) -> Int]
InCorner(p, n) == p[1] < n /\ p[2] < n

LEMMA CornerPoints ==
    ASSUME NEW N \in Nat, NEW n \in Nat, n <= N
    PROVE  /\ \A i, j \in 0..n - 1 : <<i, j>> \in Places(N) /\ InCorner(<<i, j>>, n)
           /\ \A p \in Places(N) : InCorner(p, n) => p[1] \in 0..n - 1 /\ p[2] \in 0..n - 1
           /\ \A p \in Places(N) : p = <<p[1], p[2]>> /\ p[1] \in Nat /\ p[2] \in Nat
  BY DEF Places, InCorner

Passed(back, line, n) == Pass(back, line) \in Lines(n)

LEMMA PassTyped ==
    ASSUME NEW n \in Nat \ {0}, NEW line \in Lines(n), NEW back \in BOOLEAN,
           back \/ \E h \in Nat \ {0} : n = 2 * h
    PROVE  Passed(back, line, n)
<1>1. CASE back
  BY <1>1, UnhaarIs DEF Passed, Pass
<1>2. CASE ~back
  <2>1. PICK h \in Nat \ {0} : n = 2 * h
    BY <1>2
  <2> QED
    BY <1>2, <2>1, HaarIs DEF Passed, Pass, HaarOf
<1> QED
  BY <1>1, <1>2

RowOf(d, n, i)    == [j \in 0..n - 1 |-> d[<<i, j>>]]
ColumnOf(d, n, j) == [i \in 0..n - 1 |-> d[<<i, j>>]]

RowsPassed(d, n, back, N) ==
    /\ Rows(d, n, back) \in Image(N)
    /\ \A i, j \in 0..n - 1 : Rows(d, n, back)[<<i, j>>] = Pass(back, RowOf(d, n, i))[j]
    /\ \A i \in 0..n - 1 : RowOf(d, n, i) \in Lines(n)
    /\ \A p \in Places(N) : ~InCorner(p, n) => Rows(d, n, back)[p] = d[p]

ColumnsPassed(d, n, back, N) ==
    /\ Columns(d, n, back) \in Image(N)
    /\ \A i, j \in 0..n - 1 : Columns(d, n, back)[<<i, j>>] = Pass(back, ColumnOf(d, n, j))[i]
    /\ \A j \in 0..n - 1 : ColumnOf(d, n, j) \in Lines(n)
    /\ \A p \in Places(N) : ~InCorner(p, n) => Columns(d, n, back)[p] = d[p]

MayPass(n, N, back) ==
    n \in Nat \ {0} /\ N \in Nat /\ n <= N /\ back \in BOOLEAN /\ (back \/ \E h \in Nat \ {0} : n = 2 * h)

LEMMA RowsAre ==
    ASSUME NEW n, NEW N, NEW back, MayPass(n, N, back), NEW d \in Image(N)
    PROVE  RowsPassed(d, n, back, N)
<1>1. n \in Nat \ {0} /\ N \in Nat /\ n <= N /\ back \in BOOLEAN /\ (back \/ \E h \in Nat \ {0} : n = 2 * h)
  BY DEF MayPass
<1>2. /\ \A i, j \in 0..n - 1 : <<i, j>> \in Places(N) /\ InCorner(<<i, j>>, n)
      /\ \A p \in Places(N) : InCorner(p, n) => p[1] \in 0..n - 1 /\ p[2] \in 0..n - 1
      /\ \A p \in Places(N) : p = <<p[1], p[2]>>
  BY <1>1, CornerPoints
<1>3. DOMAIN d = Places(N) /\ \A p \in Places(N) : d[p] \in Int
  BY DEF Image
<1>4. \A i \in 0..n - 1 : RowOf(d, n, i) \in Lines(n)
  BY <1>2, <1>3 DEF RowOf, Lines
<1>5. \A i \in 0..n - 1 : Pass(back, RowOf(d, n, i)) \in Lines(n)
  BY <1>1, <1>4, PassTyped DEF Passed
<1> DEFINE row == [i \in 0..n - 1 |-> Pass(back, RowOf(d, n, i))]
<1>6. Rows(d, n, back) = [p \in Places(N) |-> IF InCorner(p, n) THEN row[p[1]][p[2]] ELSE d[p]]
  BY <1>3 DEF Rows, RowOf, InCorner
<1>7. \A i \in 0..n - 1 : row[i] = Pass(back, RowOf(d, n, i))
  OBVIOUS
<1>8. \A i, j \in 0..n - 1 : row[i][j] \in Int
  <2> SUFFICES ASSUME NEW i \in 0..n - 1, NEW j \in 0..n - 1 PROVE row[i][j] \in Int
    OBVIOUS
  <2>1. row[i] \in Lines(n)
    BY <1>5, <1>7
  <2> HIDE DEF row
  <2> QED
    BY <2>1 DEF Lines
<1> HIDE DEF row
<1>9. Rows(d, n, back) \in Image(N)
  BY <1>2, <1>3, <1>6, <1>8 DEF Image
<1>10. \A i, j \in 0..n - 1 : Rows(d, n, back)[<<i, j>>] = Pass(back, RowOf(d, n, i))[j]
  BY <1>2, <1>6, <1>7
<1>11. \A p \in Places(N) : ~InCorner(p, n) => Rows(d, n, back)[p] = d[p]
  BY <1>6
<1> QED
  BY <1>4, <1>9, <1>10, <1>11 DEF RowsPassed

LEMMA ColumnsAre ==
    ASSUME NEW n, NEW N, NEW back, MayPass(n, N, back), NEW d \in Image(N)
    PROVE  ColumnsPassed(d, n, back, N)
<1>1. n \in Nat \ {0} /\ N \in Nat /\ n <= N /\ back \in BOOLEAN /\ (back \/ \E h \in Nat \ {0} : n = 2 * h)
  BY DEF MayPass
<1>2. /\ \A i, j \in 0..n - 1 : <<i, j>> \in Places(N) /\ InCorner(<<i, j>>, n)
      /\ \A p \in Places(N) : InCorner(p, n) => p[1] \in 0..n - 1 /\ p[2] \in 0..n - 1
      /\ \A p \in Places(N) : p = <<p[1], p[2]>>
  BY <1>1, CornerPoints
<1>3. DOMAIN d = Places(N) /\ \A p \in Places(N) : d[p] \in Int
  BY DEF Image
<1>4. \A j \in 0..n - 1 : ColumnOf(d, n, j) \in Lines(n)
  BY <1>2, <1>3 DEF ColumnOf, Lines
<1>5. \A j \in 0..n - 1 : Pass(back, ColumnOf(d, n, j)) \in Lines(n)
  BY <1>1, <1>4, PassTyped DEF Passed
<1> DEFINE column == [j \in 0..n - 1 |-> Pass(back, ColumnOf(d, n, j))]
<1>6. Columns(d, n, back) = [p \in Places(N) |-> IF InCorner(p, n) THEN column[p[2]][p[1]] ELSE d[p]]
  BY <1>3 DEF Columns, ColumnOf, InCorner
<1>7. \A j \in 0..n - 1 : column[j] = Pass(back, ColumnOf(d, n, j))
  OBVIOUS
<1>8. \A i, j \in 0..n - 1 : column[j][i] \in Int
  <2> SUFFICES ASSUME NEW i \in 0..n - 1, NEW j \in 0..n - 1 PROVE column[j][i] \in Int
    OBVIOUS
  <2>1. column[j] \in Lines(n)
    BY <1>5, <1>7
  <2> HIDE DEF column
  <2> QED
    BY <2>1 DEF Lines
<1> HIDE DEF column
<1>9. Columns(d, n, back) \in Image(N)
  BY <1>2, <1>3, <1>6, <1>8 DEF Image
<1>10. \A i, j \in 0..n - 1 : Columns(d, n, back)[<<i, j>>] = Pass(back, ColumnOf(d, n, j))[i]
  BY <1>2, <1>6, <1>7
<1>11. \A p \in Places(N) : ~InCorner(p, n) => Columns(d, n, back)[p] = d[p]
  BY <1>6
<1> QED
  BY <1>4, <1>9, <1>10, <1>11 DEF ColumnsPassed

LEMMA HalvedIs ==
    ASSUME NEW N, NEW n, NEW d \in Image(N)
    PROVE  /\ Halved(d, n) \in Image(N)
           /\ \A p \in Places(N) : Halved(d, n)[p] = IF InCorner(p, n) THEN d[p] \div 2 ELSE d[p]
<1>1. DOMAIN d = Places(N) /\ \A p \in Places(N) : d[p] \in Int /\ d[p] \div 2 \in Int
  BY DEF Image
<1>2. Halved(d, n) = [p \in Places(N) |-> IF InCorner(p, n) THEN d[p] \div 2 ELSE d[p]]
  BY <1>1 DEF Halved, InCorner
<1> QED
  BY <1>1, <1>2 DEF Image

\* The passes, value by value.
Corner(h, N) == h \in Nat \ {0} /\ N \in Nat /\ 2 * h <= N

LEMMA CornerMayPass ==
    ASSUME NEW h, NEW N, Corner(h, N), NEW back \in BOOLEAN
    PROVE  /\ MayPass(2 * h, N, back) /\ h \in Nat \ {0} /\ 2 * h \in Nat \ {0} /\ N \in Nat
           /\ \A i \in 0..h - 1 : /\ i \in 0..2 * h - 1 /\ i + h \in 0..2 * h - 1
                                  /\ 2 * i \in 0..2 * h - 1 /\ 2 * i + 1 \in 0..2 * h - 1
<1>1. h \in Nat \ {0} /\ N \in Nat /\ 2 * h <= N
  BY DEF Corner
<1>2. 2 * h \in Nat \ {0}
  BY <1>1
<1>3. \E k \in Nat \ {0} : 2 * h = 2 * k
  BY <1>1
<1>4. MayPass(2 * h, N, back)
  BY <1>1, <1>2, <1>3 DEF MayPass
<1>5. \A i \in 0..h - 1 : /\ i \in 0..2 * h - 1 /\ i + h \in 0..2 * h - 1
                          /\ 2 * i \in 0..2 * h - 1 /\ 2 * i + 1 \in 0..2 * h - 1
  BY <1>1
<1> QED
  BY <1>1, <1>2, <1>4, <1>5

RowsForward(r, d, h, N) ==
    /\ r \in Image(N)
    /\ \A x \in 0..2 * h - 1, j \in 0..h - 1 :
          /\ r[<<x, j>>] = d[<<x, 2 * j>>] + d[<<x, 2 * j + 1>>]
          /\ r[<<x, j + h>>] = d[<<x, 2 * j>>] - d[<<x, 2 * j + 1>>]
    /\ \A p \in Places(N) : ~InCorner(p, 2 * h) => r[p] = d[p]

LEMMA RowsGoForward ==
    ASSUME NEW h, NEW N, Corner(h, N), NEW d \in Image(N)
    PROVE  RowsForward(Rows(d, 2 * h, FALSE), d, h, N)
<1> DEFINE n == 2 * h
           r == Rows(d, n, FALSE)
<1>1. /\ MayPass(n, N, FALSE) /\ h \in Nat \ {0}
      /\ \A i \in 0..h - 1 : /\ i \in 0..n - 1 /\ i + h \in 0..n - 1
                             /\ 2 * i \in 0..n - 1 /\ 2 * i + 1 \in 0..n - 1
  BY CornerMayPass
<1>2. RowsPassed(d, n, FALSE, N)
  BY <1>1, RowsAre
<1>3. /\ r \in Image(N)
      /\ \A i, j \in 0..n - 1 : r[<<i, j>>] = Haar(RowOf(d, n, i))[j]
      /\ \A i \in 0..n - 1 : RowOf(d, n, i) \in Lines(n)
      /\ \A p \in Places(N) : ~InCorner(p, n) => r[p] = d[p]
  BY <1>2 DEF RowsPassed, Pass
<1>4. ASSUME NEW x \in 0..n - 1, NEW j \in 0..h - 1
      PROVE  /\ r[<<x, j>>] = d[<<x, 2 * j>>] + d[<<x, 2 * j + 1>>]
             /\ r[<<x, j + h>>] = d[<<x, 2 * j>>] - d[<<x, 2 * j + 1>>]
  <2> DEFINE line == RowOf(d, n, x)
  <2>1. line \in Lines(2 * h)
    BY <1>3
  <2>2. /\ Haar(line)[j] = line[2 * j] + line[2 * j + 1]
        /\ Haar(line)[j + h] = line[2 * j] - line[2 * j + 1]
    BY <1>1, <2>1, HaarIs DEF HaarOf
  <2>3. r[<<x, j>>] = Haar(line)[j] /\ r[<<x, j + h>>] = Haar(line)[j + h]
    BY <1>1, <1>3
  <2>4. line[2 * j] = d[<<x, 2 * j>>] /\ line[2 * j + 1] = d[<<x, 2 * j + 1>>]
    BY <1>1 DEF RowOf
  <2> QED
    BY <2>2, <2>3, <2>4
<1> QED
  BY <1>3, <1>4 DEF RowsForward

ColumnsForward(r, d, h, N) ==
    /\ r \in Image(N)
    /\ \A y \in 0..2 * h - 1, i \in 0..h - 1 :
          /\ r[<<i, y>>] = d[<<2 * i, y>>] + d[<<2 * i + 1, y>>]
          /\ r[<<i + h, y>>] = d[<<2 * i, y>>] - d[<<2 * i + 1, y>>]
    /\ \A p \in Places(N) : ~InCorner(p, 2 * h) => r[p] = d[p]

LEMMA ColumnsGoForward ==
    ASSUME NEW h, NEW N, Corner(h, N), NEW d \in Image(N)
    PROVE  ColumnsForward(Columns(d, 2 * h, FALSE), d, h, N)
<1> DEFINE n == 2 * h
           r == Columns(d, n, FALSE)
<1>1. /\ MayPass(n, N, FALSE) /\ h \in Nat \ {0}
      /\ \A i \in 0..h - 1 : /\ i \in 0..n - 1 /\ i + h \in 0..n - 1
                             /\ 2 * i \in 0..n - 1 /\ 2 * i + 1 \in 0..n - 1
  BY CornerMayPass
<1>2. ColumnsPassed(d, n, FALSE, N)
  BY <1>1, ColumnsAre
<1>3. /\ r \in Image(N)
      /\ \A i, j \in 0..n - 1 : r[<<i, j>>] = Haar(ColumnOf(d, n, j))[i]
      /\ \A j \in 0..n - 1 : ColumnOf(d, n, j) \in Lines(n)
      /\ \A p \in Places(N) : ~InCorner(p, n) => r[p] = d[p]
  BY <1>2 DEF ColumnsPassed, Pass
<1>4. ASSUME NEW y \in 0..n - 1, NEW i \in 0..h - 1
      PROVE  /\ r[<<i, y>>] = d[<<2 * i, y>>] + d[<<2 * i + 1, y>>]
             /\ r[<<i + h, y>>] = d[<<2 * i, y>>] - d[<<2 * i + 1, y>>]
  <2> DEFINE line == ColumnOf(d, n, y)
  <2>1. line \in Lines(2 * h)
    BY <1>3
  <2>2. /\ Haar(line)[i] = line[2 * i] + line[2 * i + 1]
        /\ Haar(line)[i + h] = line[2 * i] - line[2 * i + 1]
    BY <1>1, <2>1, HaarIs DEF HaarOf
  <2>3. r[<<i, y>>] = Haar(line)[i] /\ r[<<i + h, y>>] = Haar(line)[i + h]
    BY <1>1, <1>3
  <2>4. line[2 * i] = d[<<2 * i, y>>] /\ line[2 * i + 1] = d[<<2 * i + 1, y>>]
    BY <1>1 DEF ColumnOf
  <2> QED
    BY <2>2, <2>3, <2>4
<1> QED
  BY <1>3, <1>4 DEF ColumnsForward

\* Back.  A pass back of a corner of any side yields an image, and undoes one of an even side.
RowsBack(r, d, h, N) ==
    /\ \A x \in 0..2 * h - 1, j \in 0..h - 1 :
          /\ r[<<x, 2 * j>>] = d[<<x, j>>] + d[<<x, j + h>>]
          /\ r[<<x, 2 * j + 1>>] = d[<<x, j>>] - d[<<x, j + h>>]
    /\ \A p \in Places(N) : ~InCorner(p, 2 * h) => r[p] = d[p]

LEMMA RowsGoBack ==
    ASSUME NEW h, NEW N, Corner(h, N), NEW d \in Image(N)
    PROVE  RowsBack(Rows(d, 2 * h, TRUE), d, h, N)
<1> DEFINE n == 2 * h
           r == Rows(d, n, TRUE)
<1>1. /\ MayPass(n, N, TRUE) /\ h \in Nat /\ n \in Nat \ {0}
      /\ \A i \in 0..h - 1 : /\ i \in 0..n - 1 /\ i + h \in 0..n - 1
                             /\ 2 * i \in 0..n - 1 /\ 2 * i + 1 \in 0..n - 1
  BY CornerMayPass
<1>2. RowsPassed(d, n, TRUE, N)
  BY <1>1, RowsAre
<1>3. /\ \A i, j \in 0..n - 1 : r[<<i, j>>] = Unhaar(RowOf(d, n, i))[j]
      /\ \A i \in 0..n - 1 : RowOf(d, n, i) \in Lines(n)
      /\ \A p \in Places(N) : ~InCorner(p, n) => r[p] = d[p]
  BY <1>2 DEF RowsPassed, Pass
<1>4. ASSUME NEW x \in 0..n - 1, NEW j \in 0..h - 1
      PROVE  /\ r[<<x, 2 * j>>] = d[<<x, j>>] + d[<<x, j + h>>]
             /\ r[<<x, 2 * j + 1>>] = d[<<x, j>>] - d[<<x, j + h>>]
  <2> DEFINE line == RowOf(d, n, x)
  <2>1. line \in Lines(n) /\ n = 2 * h
    BY <1>3
  <2>2. UnhaarOf(line, h)
    BY <1>1, <2>1, UnhaarIs
  <2>3. /\ Unhaar(line)[2 * j] = line[j] + line[j + h]
        /\ Unhaar(line)[2 * j + 1] = line[j] - line[j + h]
    BY <2>2 DEF UnhaarOf
  <2>4. r[<<x, 2 * j>>] = Unhaar(line)[2 * j] /\ r[<<x, 2 * j + 1>>] = Unhaar(line)[2 * j + 1]
    BY <1>1, <1>3
  <2>5. line[j] = d[<<x, j>>] /\ line[j + h] = d[<<x, j + h>>]
    BY <1>1 DEF RowOf
  <2> QED
    BY <2>3, <2>4, <2>5
<1> QED
  BY <1>3, <1>4 DEF RowsBack

ColumnsBack(r, d, h, N) ==
    /\ \A y \in 0..2 * h - 1, i \in 0..h - 1 :
          /\ r[<<2 * i, y>>] = d[<<i, y>>] + d[<<i + h, y>>]
          /\ r[<<2 * i + 1, y>>] = d[<<i, y>>] - d[<<i + h, y>>]
    /\ \A p \in Places(N) : ~InCorner(p, 2 * h) => r[p] = d[p]

LEMMA ColumnsGoBack ==
    ASSUME NEW h, NEW N, Corner(h, N), NEW d \in Image(N)
    PROVE  ColumnsBack(Columns(d, 2 * h, TRUE), d, h, N)
<1> DEFINE n == 2 * h
           r == Columns(d, n, TRUE)
<1>1. /\ MayPass(n, N, TRUE) /\ h \in Nat /\ n \in Nat \ {0}
      /\ \A i \in 0..h - 1 : /\ i \in 0..n - 1 /\ i + h \in 0..n - 1
                             /\ 2 * i \in 0..n - 1 /\ 2 * i + 1 \in 0..n - 1
  BY CornerMayPass
<1>2. ColumnsPassed(d, n, TRUE, N)
  BY <1>1, ColumnsAre
<1>3. /\ \A i, j \in 0..n - 1 : r[<<i, j>>] = Unhaar(ColumnOf(d, n, j))[i]
      /\ \A j \in 0..n - 1 : ColumnOf(d, n, j) \in Lines(n)
      /\ \A p \in Places(N) : ~InCorner(p, n) => r[p] = d[p]
  BY <1>2 DEF ColumnsPassed, Pass
<1>4. ASSUME NEW y \in 0..n - 1, NEW i \in 0..h - 1
      PROVE  /\ r[<<2 * i, y>>] = d[<<i, y>>] + d[<<i + h, y>>]
             /\ r[<<2 * i + 1, y>>] = d[<<i, y>>] - d[<<i + h, y>>]
  <2> DEFINE line == ColumnOf(d, n, y)
  <2>1. line \in Lines(n) /\ n = 2 * h
    BY <1>3
  <2>2. UnhaarOf(line, h)
    BY <1>1, <2>1, UnhaarIs
  <2>3. /\ Unhaar(line)[2 * i] = line[i] + line[i + h]
        /\ Unhaar(line)[2 * i + 1] = line[i] - line[i + h]
    BY <2>2 DEF UnhaarOf
  <2>4. r[<<2 * i, y>>] = Unhaar(line)[2 * i] /\ r[<<2 * i + 1, y>>] = Unhaar(line)[2 * i + 1]
    BY <1>1, <1>3
  <2>5. line[i] = d[<<i, y>>] /\ line[i + h] = d[<<i + h, y>>]
    BY <1>1 DEF ColumnOf
  <2> QED
    BY <2>3, <2>4, <2>5
<1> QED
  BY <1>3, <1>4 DEF ColumnsBack

-----------------------------------------------------------------------------
\* One level: each 2 x 2 block goes into four quadrants.
BlockLevel(r, d, h, i, j) ==
    LET a == d[<<2 * i, 2 * j>>]
        b == d[<<2 * i, 2 * j + 1>>]
        c == d[<<2 * i + 1, 2 * j>>]
        e == d[<<2 * i + 1, 2 * j + 1>>]
    IN  /\ r[<<i, j>>]         = (a + b + c + e) \div 2
        /\ r[<<i, j + h>>]     = (a - b + c - e) \div 2
        /\ r[<<i + h, j>>]     = (a + b - c - e) \div 2
        /\ r[<<i + h, j + h>>] = (a - b - c + e) \div 2

Levelled(r, d, h, N) ==
    /\ r \in Image(N)
    /\ \A i, j \in 0..h - 1 : BlockLevel(r, d, h, i, j)
    /\ \A p \in Places(N) : ~InCorner(p, 2 * h) => r[p] = d[p]

LEMMA BlockIsInt ==
    ASSUME NEW h, NEW N, Corner(h, N), NEW d \in Image(N)
    PROVE  \A x, y \in 0..2 * h - 1 : d[<<x, y>>] \in Int /\ <<x, y>> \in Places(N) /\ InCorner(<<x, y>>, 2 * h)
<1>1. h \in Nat /\ N \in Nat /\ 2 * h <= N /\ 2 * h \in Nat
  BY DEF Corner
<1>2. \A x, y \in 0..2 * h - 1 : <<x, y>> \in Places(N) /\ InCorner(<<x, y>>, 2 * h)
  BY <1>1, CornerPoints
<1> QED
  BY <1>2 DEF Image

LEMMA Level2DIs ==
    ASSUME NEW h, NEW N, Corner(h, N), NEW d \in Image(N)
    PROVE  Levelled(Level2D(d, 2 * h), d, h, N)
<1> DEFINE n == 2 * h
           r == Rows(d, n, FALSE)
           c == Columns(r, n, FALSE)
           l == Halved(c, n)
<1>1. h \in Nat \ {0} /\ N \in Nat
      /\ \A i \in 0..h - 1 : /\ i \in 0..n - 1 /\ i + h \in 0..n - 1
                             /\ 2 * i \in 0..n - 1 /\ 2 * i + 1 \in 0..n - 1
  BY CornerMayPass
<1>2. RowsForward(r, d, h, N)
  BY RowsGoForward
<1>3. r \in Image(N)
  BY <1>2 DEF RowsForward
<1>4. ColumnsForward(c, r, h, N)
  BY <1>3, ColumnsGoForward
<1>5. c \in Image(N)
  BY <1>4 DEF ColumnsForward
<1>6. /\ l \in Image(N)
      /\ \A p \in Places(N) : l[p] = IF InCorner(p, n) THEN c[p] \div 2 ELSE c[p]
  <2> HIDE DEF c, r, n
  <2> QED
    BY <1>1, <1>5, HalvedIs
<1>7. l = Level2D(d, n)
  BY DEF Level2D
<1>8. \A x, y \in 0..n - 1 : d[<<x, y>>] \in Int /\ <<x, y>> \in Places(N) /\ InCorner(<<x, y>>, n)
  BY BlockIsInt
<1>9. /\ \A x \in 0..n - 1, j \in 0..h - 1 :
          /\ r[<<x, j>>] = d[<<x, 2 * j>>] + d[<<x, 2 * j + 1>>]
          /\ r[<<x, j + h>>] = d[<<x, 2 * j>>] - d[<<x, 2 * j + 1>>]
      /\ \A p \in Places(N) : ~InCorner(p, n) => r[p] = d[p]
  BY <1>2 DEF RowsForward
<1>10. /\ \A y \in 0..n - 1, i \in 0..h - 1 :
          /\ c[<<i, y>>] = r[<<2 * i, y>>] + r[<<2 * i + 1, y>>]
          /\ c[<<i + h, y>>] = r[<<2 * i, y>>] - r[<<2 * i + 1, y>>]
       /\ \A p \in Places(N) : ~InCorner(p, n) => c[p] = r[p]
  BY <1>4 DEF ColumnsForward
<1> HIDE DEF l, c, r, n
<1>11. \A p \in Places(N) : ~InCorner(p, n) => l[p] = d[p]
  BY <1>6, <1>9, <1>10
<1>12. \A x, y \in 0..n - 1 : l[<<x, y>>] = c[<<x, y>>] \div 2
  BY <1>6, <1>8
<1>13. ASSUME NEW i \in 0..h - 1, NEW j \in 0..h - 1 PROVE BlockLevel(l, d, h, i, j)
  <2> DEFINE A == d[<<2 * i, 2 * j>>]
             B == d[<<2 * i, 2 * j + 1>>]
             C == d[<<2 * i + 1, 2 * j>>]
             E == d[<<2 * i + 1, 2 * j + 1>>]
  <2>1. A \in Int /\ B \in Int /\ C \in Int /\ E \in Int
    BY <1>1, <1>8
  <2>2. /\ r[<<2 * i, j>>] = A + B /\ r[<<2 * i, j + h>>] = A - B
        /\ r[<<2 * i + 1, j>>] = C + E /\ r[<<2 * i + 1, j + h>>] = C - E
    BY <1>1, <1>9
  <2>3. /\ l[<<i, j>>] = c[<<i, j>>] \div 2 /\ l[<<i, j + h>>] = c[<<i, j + h>>] \div 2
        /\ l[<<i + h, j>>] = c[<<i + h, j>>] \div 2 /\ l[<<i + h, j + h>>] = c[<<i + h, j + h>>] \div 2
    BY <1>1, <1>12
  <2>4. /\ c[<<i, j>>] = r[<<2 * i, j>>] + r[<<2 * i + 1, j>>]
        /\ c[<<i, j + h>>] = r[<<2 * i, j + h>>] + r[<<2 * i + 1, j + h>>]
        /\ c[<<i + h, j>>] = r[<<2 * i, j>>] - r[<<2 * i + 1, j>>]
        /\ c[<<i + h, j + h>>] = r[<<2 * i, j + h>>] - r[<<2 * i + 1, j + h>>]
    BY <1>1, <1>10
  <2> HIDE DEF A, B, C, E
  <2>5. /\ (A + B) + (C + E) = A + B + C + E /\ (A - B) + (C - E) = A - B + C - E
        /\ (A + B) - (C + E) = A + B - C - E /\ (A - B) - (C - E) = A - B - C + E
    BY ONLY <2>1
  <2>6. /\ l[<<i, j>>]         = (A + B + C + E) \div 2
        /\ l[<<i, j + h>>]     = (A - B + C - E) \div 2
        /\ l[<<i + h, j>>]     = (A + B - C - E) \div 2
        /\ l[<<i + h, j + h>>] = (A - B - C + E) \div 2
    BY ONLY <2>2, <2>3, <2>4, <2>5
  <2> QED
    BY <2>6 DEF BlockLevel, A, B, C, E
<1>14. Levelled(l, d, h, N)
  BY <1>6, <1>11, <1>13 DEF Levelled, n
<1> QED
  BY <1>7, <1>14 DEF n

LEMMA InverseTyped ==
    ASSUME NEW n \in Nat \ {0}, NEW N \in Nat, n <= N, NEW d \in Image(N)
    PROVE  Level2DInverse(d, n) \in Image(N)
<1> DEFINE c == Columns(d, n, TRUE)
           r == Rows(c, n, TRUE)
<1>1. MayPass(n, N, TRUE)
  BY DEF MayPass
<1>2. c \in Image(N)
  BY <1>1, ColumnsAre DEF ColumnsPassed
<1>3. Level2DInverse(d, n) = Halved(r, n)
  BY DEF Level2DInverse
<1> HIDE DEF c
<1>4. r \in Image(N)
  BY <1>1, <1>2, RowsAre DEF RowsPassed
<1> HIDE DEF r
<1> QED
  BY <1>3, <1>4, HalvedIs

\* An image that is lower by k in a corner.
Lowered(g, f, n, k, N) ==
    g \in Image(N) /\ \A p \in Places(N) : g[p] = IF InCorner(p, n) THEN f[p] - k ELSE f[p]

MultipleOn(f, n, c) == \A x, y \in 0..n - 1 : \E e \in Int : f[<<x, y>>] = c * e

Inverted(r, d, h, N) ==
    /\ \A i, j \in 0..h - 1 :
          /\ r[<<2 * i, 2 * j>>]     = ((d[<<i, j>>] + d[<<i + h, j>>]) + (d[<<i, j + h>>] + d[<<i + h, j + h>>])) \div 2
          /\ r[<<2 * i, 2 * j + 1>>] = ((d[<<i, j>>] + d[<<i + h, j>>]) - (d[<<i, j + h>>] + d[<<i + h, j + h>>])) \div 2
          /\ r[<<2 * i + 1, 2 * j>>] = ((d[<<i, j>>] - d[<<i + h, j>>]) + (d[<<i, j + h>>] - d[<<i + h, j + h>>])) \div 2
          /\ r[<<2 * i + 1, 2 * j + 1>>] = ((d[<<i, j>>] - d[<<i + h, j>>]) - (d[<<i, j + h>>] - d[<<i + h, j + h>>])) \div 2
    /\ \A p \in Places(N) : ~InCorner(p, 2 * h) => r[p] = d[p]

LEMMA InverseIs ==
    ASSUME NEW h, NEW N, Corner(h, N), NEW d \in Image(N)
    PROVE  Inverted(Level2DInverse(d, 2 * h), d, h, N)
<1> DEFINE n == 2 * h
           c == Columns(d, n, TRUE)
           r == Rows(c, n, TRUE)
           l == Halved(r, n)
<1>1. /\ MayPass(n, N, TRUE) /\ h \in Nat \ {0} /\ N \in Nat
      /\ \A i \in 0..h - 1 : /\ i \in 0..n - 1 /\ i + h \in 0..n - 1
                             /\ 2 * i \in 0..n - 1 /\ 2 * i + 1 \in 0..n - 1
  BY CornerMayPass
<1>2. c \in Image(N)
  BY <1>1, ColumnsAre DEF ColumnsPassed
<1>3. ColumnsBack(c, d, h, N)
  BY ColumnsGoBack
<1>4. RowsBack(r, c, h, N)
  <2> HIDE DEF c
  <2> QED
    BY <1>2, RowsGoBack
<1>5. r \in Image(N)
  <2> HIDE DEF c, n
  <2> QED
    BY <1>1, <1>2, RowsAre DEF RowsPassed
<1>6. \A p \in Places(N) : l[p] = IF InCorner(p, n) THEN r[p] \div 2 ELSE r[p]
  <2> HIDE DEF c, r, n
  <2> QED
    BY <1>1, <1>5, HalvedIs
<1>7. l = Level2DInverse(d, n)
  BY DEF Level2DInverse
<1>8. \A x, y \in 0..n - 1 : <<x, y>> \in Places(N) /\ InCorner(<<x, y>>, n)
  BY BlockIsInt
<1>9. /\ \A y \in 0..n - 1, i \in 0..h - 1 :
          /\ c[<<2 * i, y>>] = d[<<i, y>>] + d[<<i + h, y>>]
          /\ c[<<2 * i + 1, y>>] = d[<<i, y>>] - d[<<i + h, y>>]
      /\ \A p \in Places(N) : ~InCorner(p, n) => c[p] = d[p]
  BY <1>3 DEF ColumnsBack
<1>10. /\ \A x \in 0..n - 1, j \in 0..h - 1 :
          /\ r[<<x, 2 * j>>] = c[<<x, j>>] + c[<<x, j + h>>]
          /\ r[<<x, 2 * j + 1>>] = c[<<x, j>>] - c[<<x, j + h>>]
       /\ \A p \in Places(N) : ~InCorner(p, n) => r[p] = c[p]
  BY <1>4 DEF RowsBack
<1> HIDE DEF l, c, r, n
<1>11. \A p \in Places(N) : ~InCorner(p, n) => l[p] = d[p]
  BY <1>6, <1>9, <1>10
<1>12. \A x, y \in 0..n - 1 : l[<<x, y>>] = r[<<x, y>>] \div 2
  BY <1>6, <1>8
<1>13. ASSUME NEW i \in 0..h - 1, NEW j \in 0..h - 1
       PROVE  /\ l[<<2 * i, 2 * j>>]     = ((d[<<i, j>>] + d[<<i + h, j>>]) + (d[<<i, j + h>>] + d[<<i + h, j + h>>])) \div 2
              /\ l[<<2 * i, 2 * j + 1>>] = ((d[<<i, j>>] + d[<<i + h, j>>]) - (d[<<i, j + h>>] + d[<<i + h, j + h>>])) \div 2
              /\ l[<<2 * i + 1, 2 * j>>] = ((d[<<i, j>>] - d[<<i + h, j>>]) + (d[<<i, j + h>>] - d[<<i + h, j + h>>])) \div 2
              /\ l[<<2 * i + 1, 2 * j + 1>>] = ((d[<<i, j>>] - d[<<i + h, j>>]) - (d[<<i, j + h>>] - d[<<i + h, j + h>>])) \div 2
  <2>1. /\ i \in 0..n - 1 /\ i + h \in 0..n - 1 /\ 2 * i \in 0..n - 1 /\ 2 * i + 1 \in 0..n - 1
        /\ j \in 0..n - 1 /\ j + h \in 0..n - 1 /\ 2 * j \in 0..n - 1 /\ 2 * j + 1 \in 0..n - 1
    BY <1>1
  <2>2. /\ c[<<2 * i, j>>] = d[<<i, j>>] + d[<<i + h, j>>]
        /\ c[<<2 * i, j + h>>] = d[<<i, j + h>>] + d[<<i + h, j + h>>]
        /\ c[<<2 * i + 1, j>>] = d[<<i, j>>] - d[<<i + h, j>>]
        /\ c[<<2 * i + 1, j + h>>] = d[<<i, j + h>>] - d[<<i + h, j + h>>]
    BY <1>9, <2>1
  <2>3. /\ r[<<2 * i, 2 * j>>] = c[<<2 * i, j>>] + c[<<2 * i, j + h>>]
        /\ r[<<2 * i, 2 * j + 1>>] = c[<<2 * i, j>>] - c[<<2 * i, j + h>>]
        /\ r[<<2 * i + 1, 2 * j>>] = c[<<2 * i + 1, j>>] + c[<<2 * i + 1, j + h>>]
        /\ r[<<2 * i + 1, 2 * j + 1>>] = c[<<2 * i + 1, j>>] - c[<<2 * i + 1, j + h>>]
    BY <1>10, <2>1
  <2>4. /\ l[<<2 * i, 2 * j>>] = r[<<2 * i, 2 * j>>] \div 2
        /\ l[<<2 * i, 2 * j + 1>>] = r[<<2 * i, 2 * j + 1>>] \div 2
        /\ l[<<2 * i + 1, 2 * j>>] = r[<<2 * i + 1, 2 * j>>] \div 2
        /\ l[<<2 * i + 1, 2 * j + 1>>] = r[<<2 * i + 1, 2 * j + 1>>] \div 2
    BY <1>12, <2>1
  <2> QED
    BY ONLY <2>2, <2>3, <2>4
<1>14. Inverted(l, d, h, N)
  BY <1>11, <1>13 DEF Inverted, n
<1> QED
  BY <1>7, <1>14 DEF n

\* Lowering the first quadrant by twice a number lowers what the quadrants were made of by
\* that number.
LEMMA FourWays ==
    ASSUME NEW k \in Int, NEW a \in Int, NEW b \in Int, NEW c \in Int, NEW e \in Int
    PROVE  LET A == 2 * a
               B == 2 * b
               C == 2 * c
               E == 2 * e
               p == (A + B + C + E) \div 2 - 2 * k
               q == (A - B + C - E) \div 2
               r == (A + B - C - E) \div 2
               s == (A - B - C + E) \div 2
           IN  /\ ((p + r) + (q + s)) \div 2 = A - k /\ ((p + r) - (q + s)) \div 2 = B - k
               /\ ((p - r) + (q - s)) \div 2 = C - k /\ ((p - r) - (q - s)) \div 2 = E - k
<1> DEFINE A == 2 * a
           B == 2 * b
           C == 2 * c
           E == 2 * e
           p == (A + B + C + E) \div 2 - 2 * k
           q == (A - B + C - E) \div 2
           r == (A + B - C - E) \div 2
           s == (A - B - C + E) \div 2
<1>1. /\ p = a + b + c + e - 2 * k /\ q = a - b + c - e
      /\ r = a + b - c - e /\ s = a - b - c + e
  OBVIOUS
<1>2. A = 2 * a /\ B = 2 * b /\ C = 2 * c /\ E = 2 * e
  OBVIOUS
<1> HIDE DEF A, B, C, E, p, q, r, s
<1>3. /\ (p + r) + (q + s) = 2 * (2 * a - k) /\ (p + r) - (q + s) = 2 * (2 * b - k)
      /\ (p - r) + (q - s) = 2 * (2 * c - k) /\ (p - r) - (q - s) = 2 * (2 * e - k)
  BY <1>1
<1>4. \A x \in Int : (2 * x) \div 2 = x
  OBVIOUS
<1>5. /\ ((p + r) + (q + s)) \div 2 = 2 * a - k /\ ((p + r) - (q + s)) \div 2 = 2 * b - k
      /\ ((p - r) + (q - s)) \div 2 = 2 * c - k /\ ((p - r) - (q - s)) \div 2 = 2 * e - k
  BY <1>3, <1>4
<1>6. /\ ((p + r) + (q + s)) \div 2 = A - k /\ ((p + r) - (q + s)) \div 2 = B - k
      /\ ((p - r) + (q - s)) \div 2 = C - k /\ ((p - r) - (q - s)) \div 2 = E - k
  BY <1>2, <1>5
<1> QED
  BY <1>6 DEF A, B, C, E, p, q, r, s

LEMMA LevelUndone ==
    ASSUME NEW h, NEW N, Corner(h, N), NEW f \in Image(N), MultipleOn(f, 2 * h, 2), NEW k \in Int,
           NEW g, Lowered(g, Level2D(f, 2 * h), h, 2 * k, N)
    PROVE  Lowered(Level2DInverse(g, 2 * h), f, 2 * h, k, N)
<1> DEFINE n == 2 * h
           l == Level2D(f, n)
           r == Level2DInverse(g, n)
<1>1. /\ h \in Nat \ {0} /\ N \in Nat /\ n \in Nat \ {0} /\ n <= N
      /\ \A i \in 0..h - 1 : /\ i \in 0..n - 1 /\ i + h \in 0..n - 1
                             /\ 2 * i \in 0..n - 1 /\ 2 * i + 1 \in 0..n - 1
  BY CornerMayPass DEF Corner
<1>2. g \in Image(N) /\ \A p \in Places(N) : g[p] = IF InCorner(p, h) THEN l[p] - 2 * k ELSE l[p]
  BY DEF Lowered
<1>3. Inverted(r, g, h, N)
  BY <1>2, InverseIs
<1>4. r \in Image(N)
  BY <1>1, <1>2, InverseTyped
<1>5. Levelled(l, f, h, N)
  BY Level2DIs
<1>6. /\ \A x, y \in 0..n - 1 : /\ f[<<x, y>>] \in Int /\ <<x, y>> \in Places(N)
                                /\ InCorner(<<x, y>>, n) /\ \E e \in Int : f[<<x, y>>] = 2 * e
      /\ \A p \in Places(N) : InCorner(p, n) => p[1] \in 0..n - 1 /\ p[2] \in 0..n - 1 /\ p = <<p[1], p[2]>>
      /\ \A p \in Places(N) : p[1] \in Nat /\ p[2] \in Nat
  BY <1>1, BlockIsInt, CornerPoints DEF MultipleOn
<1> HIDE DEF l, r, n
<1>7. ASSUME NEW i \in 0..h - 1, NEW j \in 0..h - 1
      PROVE  /\ r[<<2 * i, 2 * j>>] = f[<<2 * i, 2 * j>>] - k
             /\ r[<<2 * i, 2 * j + 1>>] = f[<<2 * i, 2 * j + 1>>] - k
             /\ r[<<2 * i + 1, 2 * j>>] = f[<<2 * i + 1, 2 * j>>] - k
             /\ r[<<2 * i + 1, 2 * j + 1>>] = f[<<2 * i + 1, 2 * j + 1>>] - k
  <2>1. /\ i \in 0..n - 1 /\ i + h \in 0..n - 1 /\ 2 * i \in 0..n - 1 /\ 2 * i + 1 \in 0..n - 1
        /\ j \in 0..n - 1 /\ j + h \in 0..n - 1 /\ 2 * j \in 0..n - 1 /\ 2 * j + 1 \in 0..n - 1
    BY <1>1
  <2>2. PICK a \in Int : f[<<2 * i, 2 * j>>] = 2 * a
    BY <1>6, <2>1
  <2>3. PICK b \in Int : f[<<2 * i, 2 * j + 1>>] = 2 * b
    BY <1>6, <2>1
  <2>4. PICK c \in Int : f[<<2 * i + 1, 2 * j>>] = 2 * c
    BY <1>6, <2>1
  <2>5. PICK e \in Int : f[<<2 * i + 1, 2 * j + 1>>] = 2 * e
    BY <1>6, <2>1
  <2> DEFINE A == 2 * a
             B == 2 * b
             C == 2 * c
             E == 2 * e
             p == (A + B + C + E) \div 2 - 2 * k
             q == (A - B + C - E) \div 2
             t == (A + B - C - E) \div 2
             s == (A - B - C + E) \div 2
  <2>6. BlockLevel(l, f, h, i, j)
    BY <1>5 DEF Levelled
  <2>7. /\ l[<<i, j>>] = (A + B + C + E) \div 2 /\ l[<<i, j + h>>] = q
        /\ l[<<i + h, j>>] = t /\ l[<<i + h, j + h>>] = s
    BY <2>2, <2>3, <2>4, <2>5, <2>6 DEF BlockLevel
  <2>8. /\ InCorner(<<i, j>>, h) /\ ~InCorner(<<i, j + h>>, h) /\ ~InCorner(<<i + h, j>>, h)
        /\ ~InCorner(<<i + h, j + h>>, h)
    BY <1>1 DEF InCorner
  <2>9. /\ g[<<i, j>>] = p /\ g[<<i, j + h>>] = q /\ g[<<i + h, j>>] = t /\ g[<<i + h, j + h>>] = s
    <3>1. /\ <<i, j>> \in Places(N) /\ <<i, j + h>> \in Places(N)
          /\ <<i + h, j>> \in Places(N) /\ <<i + h, j + h>> \in Places(N)
      BY <1>6, <2>1
    <3>2. /\ g[<<i, j>>] = l[<<i, j>>] - 2 * k /\ g[<<i, j + h>>] = l[<<i, j + h>>]
          /\ g[<<i + h, j>>] = l[<<i + h, j>>] /\ g[<<i + h, j + h>>] = l[<<i + h, j + h>>]
      BY ONLY <1>2, <2>8, <3>1
    <3>3. (A + B + C + E) \div 2 - 2 * k = p
      OBVIOUS
    <3> HIDE DEF A, B, C, E, p, q, t, s
    <3> QED
      BY ONLY <2>7, <3>2, <3>3
  <2>10. /\ ((p + t) + (q + s)) \div 2 = A - k /\ ((p + t) - (q + s)) \div 2 = B - k
         /\ ((p - t) + (q - s)) \div 2 = C - k /\ ((p - t) - (q - s)) \div 2 = E - k
    BY FourWays
  <2>11. /\ r[<<2 * i, 2 * j>>]     = ((g[<<i, j>>] + g[<<i + h, j>>]) + (g[<<i, j + h>>] + g[<<i + h, j + h>>])) \div 2
         /\ r[<<2 * i, 2 * j + 1>>] = ((g[<<i, j>>] + g[<<i + h, j>>]) - (g[<<i, j + h>>] + g[<<i + h, j + h>>])) \div 2
         /\ r[<<2 * i + 1, 2 * j>>] = ((g[<<i, j>>] - g[<<i + h, j>>]) + (g[<<i, j + h>>] - g[<<i + h, j + h>>])) \div 2
         /\ r[<<2 * i + 1, 2 * j + 1>>] = ((g[<<i, j>>] - g[<<i + h, j>>]) - (g[<<i, j + h>>] - g[<<i + h, j + h>>])) \div 2
    BY <1>3 DEF Inverted
  <2> HIDE DEF A, B, C, E, p, q, t, s
  <2>12. /\ r[<<2 * i, 2 * j>>] = A - k /\ r[<<2 * i, 2 * j + 1>>] = B - k
         /\ r[<<2 * i + 1, 2 * j>>] = C - k /\ r[<<2 * i + 1, 2 * j + 1>>] = E - k
    BY ONLY <2>9, <2>10, <2>11
  <2> QED
    BY <2>2, <2>3, <2>4, <2>5, <2>12 DEF A, B, C, E
<1>8. ASSUME NEW x \in 0..n - 1, NEW y \in 0..n - 1 PROVE r[<<x, y>>] = f[<<x, y>>] - k
  <2> DEFINE i == x \div 2
             j == y \div 2
  <2>1. i \in 0..h - 1 /\ j \in 0..h - 1 /\ (x = 2 * i \/ x = 2 * i + 1) /\ (y = 2 * j \/ y = 2 * j + 1)
    BY <1>1 DEF n
  <2> HIDE DEF i, j
  <2> QED
    BY <1>7, <2>1
<1>9. ASSUME NEW p \in Places(N) PROVE r[p] = IF InCorner(p, n) THEN f[p] - k ELSE f[p]
  <2>1. CASE InCorner(p, n)
    BY <1>6, <1>8, <2>1
  <2>2. CASE ~InCorner(p, n)
    <3>1. r[p] = g[p] /\ l[p] = f[p]
      BY <1>3, <1>5, <2>2 DEF Inverted, Levelled, n
    <3>2. ~InCorner(p, h)
      BY <1>1, <1>6, <2>2 DEF InCorner, n
    <3> QED
      BY <1>2, <2>2, <3>1, <3>2
  <2> QED
    BY <2>1, <2>2
<1>10. Lowered(r, f, n, k, N)
  BY <1>4, <1>9 DEF Lowered
<1> QED
  BY <1>10 DEF r, n

\* What a recursion over the sizes makes, from the largest on and from 1 on.
Descends(f, N, V, d, level) ==
    f \in [1..N -> V] /\ \A s \in 1..N : f[s] = IF 2 * s > N THEN d ELSE level[s][f[2 * s]]

Ascends(f, N, V, d, level) ==
    f \in [1..N -> V] /\ \A s \in 1..N : f[s] = IF s = 1 THEN d ELSE level[s][f[s \div 2]]

LEMMA DescentExists ==
    ASSUME NEW N \in Nat \ {0}, NEW V, NEW d \in V, NEW level \in [1..N -> [V -> V]]
    PROVE  \E f : Descends(f, N, V, d, level)
<1> DEFINE D == 1..N  m == [s \in D |-> N - s]
     step == [s \in D |-> [g \in [D -> V] |-> IF 2 * s > N THEN d ELSE level[s][g[2 * s]]]]
<1>1. m \in [D -> 0..N] /\ m \in [D -> Nat]
  OBVIOUS
<1>2. \A s \in D : ~(2 * s > N) => 2 * s \in D /\ m[2 * s] < m[s]
  OBVIOUS
<1>3. step \in [D -> [[D -> V] -> V]]
  <2> SUFFICES ASSUME NEW s \in D, NEW g \in [D -> V] PROVE (IF 2 * s > N THEN d ELSE level[s][g[2 * s]]) \in V
    OBVIOUS
  <2> HIDE DEF m
  <2>1. ~(2 * s > N) => 2 * s \in D
    BY <1>2
  <2>2. level[s] \in [V -> V]
    OBVIOUS
  <2> HIDE DEF D
  <2> QED
    BY <2>1, <2>2
<1>4. ASSUME NEW s \in D, NEW f \in [D -> V], NEW g \in [D -> V], \A y \in D : m[y] < m[s] => f[y] = g[y]
      PROVE  step[s][f] = step[s][g]
  <2>1. ~(2 * s > N) => f[2 * s] = g[2 * s]
    BY <1>2, <1>4
  <2> HIDE DEF D, m
  <2> QED
    BY <2>1
<1>5. Recursive(D, V, m, step)
  <2> HIDE DEF D, m, step
  <2> QED
    BY <1>1, <1>3, <1>4 DEF Recursive
<1>6. PICK f \in [D -> V] : f = [s \in D |-> step[s][f]]
  <2>1. N \in Nat
    OBVIOUS
  <2> HIDE DEF D, m, step
  <2>2. m \in [D -> 0..N]
    BY <1>1
  <2> QED
    BY ONLY <2>1, <2>2, <1>5, RecursionExists
<1>7. \A s \in D : f[s] = step[s][f]
  <2> HIDE DEF D, m, step
  <2> QED
    BY <1>6
<1>8. \A s \in D : step[s][f] = IF 2 * s > N THEN d ELSE level[s][f[2 * s]]
  <2> HIDE DEF D, m
  <2> QED
    BY <1>6
<1>9. Descends(f, N, V, d, level)
  <2> HIDE DEF m, step
  <2> QED
    BY <1>6, <1>7, <1>8 DEF Descends
<1> QED
  BY <1>9

LEMMA AscentExists ==
    ASSUME NEW N \in Nat \ {0}, NEW V, NEW d \in V, NEW level \in [1..N -> [V -> V]]
    PROVE  \E f : Ascends(f, N, V, d, level)
<1> DEFINE D == 1..N  m == [s \in D |-> s]
     step == [s \in D |-> [g \in [D -> V] |-> IF s = 1 THEN d ELSE level[s][g[s \div 2]]]]
<1>1. m \in [D -> 0..N] /\ m \in [D -> Nat]
  OBVIOUS
<1>2. \A s \in D : s # 1 => s \div 2 \in D /\ m[s \div 2] < m[s]
  OBVIOUS
<1>3. step \in [D -> [[D -> V] -> V]]
  <2> SUFFICES ASSUME NEW s \in D, NEW g \in [D -> V] PROVE (IF s = 1 THEN d ELSE level[s][g[s \div 2]]) \in V
    OBVIOUS
  <2> HIDE DEF m
  <2>1. s # 1 => s \div 2 \in D
    BY <1>2
  <2>2. level[s] \in [V -> V]
    OBVIOUS
  <2> HIDE DEF D
  <2> QED
    BY <2>1, <2>2
<1>4. ASSUME NEW s \in D, NEW f \in [D -> V], NEW g \in [D -> V], \A y \in D : m[y] < m[s] => f[y] = g[y]
      PROVE  step[s][f] = step[s][g]
  <2>1. s # 1 => f[s \div 2] = g[s \div 2]
    BY <1>2, <1>4
  <2> HIDE DEF D, m
  <2> QED
    BY <2>1
<1>5. Recursive(D, V, m, step)
  <2> HIDE DEF D, m, step
  <2> QED
    BY <1>1, <1>3, <1>4 DEF Recursive
<1>6. PICK f \in [D -> V] : f = [s \in D |-> step[s][f]]
  <2>1. N \in Nat
    OBVIOUS
  <2> HIDE DEF D, m, step
  <2>2. m \in [D -> 0..N]
    BY <1>1
  <2> QED
    BY ONLY <2>1, <2>2, <1>5, RecursionExists
<1>7. \A s \in D : f[s] = step[s][f]
  <2> HIDE DEF D, m, step
  <2> QED
    BY <1>6
<1>8. \A s \in D : step[s][f] = IF s = 1 THEN d ELSE level[s][f[s \div 2]]
  <2> HIDE DEF D, m
  <2> QED
    BY <1>6
<1>9. Ascends(f, N, V, d, level)
  <2> HIDE DEF m, step
  <2> QED
    BY <1>6, <1>7, <1>8 DEF Ascends
<1> QED
  BY <1>9

-----------------------------------------------------------------------------
\* The two ways of ph_whash_remove_max_haar_ll().
WayDown(f, d, N) == f = [s \in 1..N |-> IF 2 * s > N THEN d ELSE Level2D(f[2 * s], 2 * s)]
WayUp(g, top, N) == g = [s \in 1..N |-> IF s = 1 THEN top ELSE Level2DInverse(g[s \div 2], s)]

LEMMA DownExists ==
    ASSUME NEW N \in Nat \ {0}, NEW d \in Image(N)
    PROVE  \E f : WayDown(f, d, N) /\ f \in [1..N -> Image(N)]
<1> DEFINE V == Image(N)
     level == [s \in 1..N |-> [x \in V |-> IF 2 * s <= N THEN Level2D(x, 2 * s) ELSE x]]
<1>1. ASSUME NEW s \in 1..N, NEW x \in V PROVE (IF 2 * s <= N THEN Level2D(x, 2 * s) ELSE x) \in V
  <2>1. CASE 2 * s <= N
    <3>1. Corner(s, N)
      BY <2>1 DEF Corner
    <3> QED
      BY <2>1, <3>1, Level2DIs DEF Levelled
  <2> QED
    BY <2>1
<1>2. level \in [1..N -> [V -> V]]
  <2> HIDE DEF V
  <2> QED
    BY <1>1
<1>3. PICK f : Descends(f, N, V, d, level)
  <2> HIDE DEF level, V
  <2>1. d \in V
    BY DEF V
  <2> QED
    BY <1>2, <2>1, DescentExists
<1>4. f \in [1..N -> V] /\ \A s \in 1..N : f[s] = IF 2 * s > N THEN d ELSE level[s][f[2 * s]]
  <2> HIDE DEF level, V
  <2> QED
    BY <1>3 DEF Descends
<1>5. ASSUME NEW s \in 1..N PROVE f[s] = IF 2 * s > N THEN d ELSE Level2D(f[2 * s], 2 * s)
  <2>1. CASE 2 * s > N
    BY <1>4, <2>1
  <2>2. CASE ~(2 * s > N)
    <3>1. 2 * s \in 1..N /\ 2 * s <= N
      BY <2>2
    <3>2. f[2 * s] \in V
      BY <1>4, <3>1
    <3>3. level[s][f[2 * s]] = Level2D(f[2 * s], 2 * s)
      <4> HIDE DEF V
      <4> QED
        BY <3>1, <3>2
    <3> QED
      BY <1>4, <2>2, <3>3
  <2> QED
    BY <2>1, <2>2
<1>6. f = [s \in 1..N |-> f[s]]
  <2> HIDE DEF V
  <2> QED
    BY <1>4
<1>7. WayDown(f, d, N)
  BY <1>5, <1>6 DEF WayDown
<1> QED
  BY <1>4, <1>7

LEMMA UpExists ==
    ASSUME NEW N \in Nat \ {0}, NEW d \in Image(N)
    PROVE  \E g : WayUp(g, d, N) /\ g \in [1..N -> Image(N)]
<1> DEFINE V == Image(N)
     level == [s \in 1..N |-> [x \in V |-> Level2DInverse(x, s)]]
<1>1. ASSUME NEW s \in 1..N, NEW x \in V PROVE Level2DInverse(x, s) \in V
  <2>1. s \in Nat \ {0} /\ s <= N /\ N \in Nat
    OBVIOUS
  <2> QED
    BY <2>1, InverseTyped
<1>2. level \in [1..N -> [V -> V]]
  <2> HIDE DEF V
  <2> QED
    BY <1>1
<1>3. PICK g : Ascends(g, N, V, d, level)
  <2> HIDE DEF level, V
  <2>1. d \in V
    BY DEF V
  <2> QED
    BY <1>2, <2>1, AscentExists
<1>4. g \in [1..N -> V] /\ \A s \in 1..N : g[s] = IF s = 1 THEN d ELSE level[s][g[s \div 2]]
  <2> HIDE DEF level, V
  <2> QED
    BY <1>3 DEF Ascends
<1>5. ASSUME NEW s \in 1..N PROVE g[s] = IF s = 1 THEN d ELSE Level2DInverse(g[s \div 2], s)
  <2>1. CASE s = 1
    BY <1>4, <2>1
  <2>2. CASE s # 1
    <3>1. s \div 2 \in 1..N
      BY <2>2
    <3>2. g[s \div 2] \in V
      BY <1>4, <3>1
    <3>3. level[s][g[s \div 2]] = Level2DInverse(g[s \div 2], s)
      <4> HIDE DEF V
      <4> QED
        BY <3>2
    <3> QED
      BY <1>4, <2>2, <3>3
  <2> QED
    BY <2>1, <2>2
<1>6. g = [s \in 1..N |-> g[s]]
  <2> HIDE DEF V
  <2> QED
    BY <1>4
<1>7. WayUp(g, d, N)
  BY <1>5, <1>6 DEF WayUp
<1> QED
  BY <1>4, <1>7

\* The recursion's functions, in the model's words.
Ways(down, up, d, N) ==
    /\ down \in [1..N -> Image(N)] /\ up \in [1..N -> Image(N)]
    /\ \A s \in 1..N : down[s] = IF 2 * s > N THEN d ELSE Level2D(down[2 * s], 2 * s)
    /\ \A s \in 1..N : up[s] = IF s = 1 THEN [down[1] EXCEPT ![<<0, 0>>] = 0] ELSE Level2DInverse(up[s \div 2], s)

LEMMA WayDownIs ==
    ASSUME NEW N \in Nat \ {0}, NEW d \in Image(N), NEW f, WayDown(f, d, N)
    PROVE  f \in [1..N -> Image(N)]
<1> DEFINE D == 1..N  m == [s \in D |-> N - s]  S == {s \in D : f[s] \in Image(N)}
<1>1. f = [s \in D |-> IF 2 * s > N THEN d ELSE Level2D(f[2 * s], 2 * s)]
  BY DEF WayDown
<1>2. m \in [D -> Nat]
  OBVIOUS
<1>3. ASSUME NEW s \in D, \A y \in D : m[y] < m[s] => y \in S PROVE s \in S
  <2>1. CASE 2 * s > N
    BY <1>1, <2>1
  <2>2. CASE ~(2 * s > N)
    <3>1. 2 * s \in D /\ m[2 * s] < m[s] /\ Corner(s, N)
      BY <2>2 DEF Corner
    <3>2. f[2 * s] \in Image(N)
      BY <1>3, <3>1
    <3>3. Level2D(f[2 * s], 2 * s) \in Image(N)
      BY <3>1, <3>2, Level2DIs DEF Levelled
    <3> QED
      BY <1>1, <2>2, <3>3
  <2> QED
    BY <2>1, <2>2
<1>4. \A s \in D : s \in S
  <2> HIDE DEF D, m, S
  <2> QED
    BY <1>2, <1>3, Inductively
<1>5. \A s \in D : f[s] \in Image(N)
  BY <1>4
<1> QED
  BY <1>1, <1>5

LEMMA WayUpIs ==
    ASSUME NEW N \in Nat \ {0}, NEW d \in Image(N), NEW g, WayUp(g, d, N)
    PROVE  g \in [1..N -> Image(N)]
<1> DEFINE D == 1..N  m == [s \in D |-> s]  S == {s \in D : g[s] \in Image(N)}
<1>1. g = [s \in D |-> IF s = 1 THEN d ELSE Level2DInverse(g[s \div 2], s)]
  BY DEF WayUp
<1>2. m \in [D -> Nat]
  OBVIOUS
<1>3. ASSUME NEW s \in D, \A y \in D : m[y] < m[s] => y \in S PROVE s \in S
  <2>1. CASE s = 1
    BY <1>1, <2>1
  <2>2. CASE s # 1
    <3>1. s \div 2 \in D /\ m[s \div 2] < m[s] /\ s \in Nat \ {0} /\ s <= N /\ N \in Nat
      BY <2>2
    <3>2. g[s \div 2] \in Image(N)
      BY <1>3, <3>1
    <3>3. Level2DInverse(g[s \div 2], s) \in Image(N)
      BY <3>1, <3>2, InverseTyped
    <3> QED
      BY <1>1, <2>2, <3>3
  <2> QED
    BY <2>1, <2>2
<1>4. \A s \in D : s \in S
  <2> HIDE DEF D, m, S
  <2> QED
    BY <1>2, <1>3, Inductively
<1>5. \A s \in D : g[s] \in Image(N)
  BY <1>4
<1> QED
  BY <1>1, <1>5

LEMMA RemoveGoes ==
    ASSUME NEW N \in Nat \ {0}, NEW d \in Image(N)
    PROVE  \E down, up : Ways(down, up, d, N) /\ RemoveMaxLL(d, N) = up[N]
<1> DEFINE down == CHOOSE f : WayDown(f, d, N)
           top == [down[1] EXCEPT ![<<0, 0>>] = 0]
           up == CHOOSE g : WayUp(g, top, N)
<1>1. RemoveMaxLL(d, N) = up[N]
  BY DEF RemoveMaxLL, WayDown, WayUp
<1>2. WayDown(down, d, N)
  BY DownExists
<1> HIDE DEF down
<1>3. down \in [1..N -> Image(N)]
  BY <1>2, WayDownIs
<1>4. down[1] \in Image(N)
  <2>1. 1 \in 1..N
    OBVIOUS
  <2> QED
    BY <1>3, <2>1
<1>5. top \in Image(N)
  <2> DEFINE first == <<0, 0>>  x == down[1]
  <2>1. x \in [Places(N) -> Int] /\ top = [x EXCEPT ![first] = 0]
    BY <1>4 DEF Image
  <2> HIDE DEF first, x
  <2>2. [x EXCEPT ![first] = 0] = [p \in Places(N) |-> IF p = first THEN 0 ELSE x[p]]
    BY ONLY <2>1
  <2>3. [p \in Places(N) |-> IF p = first THEN 0 ELSE x[p]] \in [Places(N) -> Int]
    BY ONLY <2>1
  <2> QED
    BY ONLY <2>1, <2>2, <2>3 DEF Image
<1> HIDE DEF top
<1>6. WayUp(up, top, N)
  BY <1>5, UpExists
<1> HIDE DEF up
<1>7. up \in [1..N -> Image(N)]
  BY <1>5, <1>6, WayUpIs
<1>8. \A s \in 1..N : down[s] = IF 2 * s > N THEN d ELSE Level2D(down[2 * s], 2 * s)
  <2>1. down = [s \in 1..N |-> IF 2 * s > N THEN d ELSE Level2D(down[2 * s], 2 * s)]
    BY <1>2 DEF WayDown
  <2> QED
    BY ONLY <2>1
<1>9. \A s \in 1..N : up[s] = IF s = 1 THEN top ELSE Level2DInverse(up[s \div 2], s)
  <2>1. up = [s \in 1..N |-> IF s = 1 THEN top ELSE Level2DInverse(up[s \div 2], s)]
    BY <1>6 DEF WayUp
  <2> QED
    BY ONLY <2>1
<1>10. Ways(down, up, d, N)
  BY <1>3, <1>7, <1>8, <1>9 DEF Ways, top
<1> QED
  BY <1>1, <1>10

LEMMA LevelHalves ==
    ASSUME NEW h, NEW N, Corner(h, N), NEW f \in Image(N), NEW c \in Int, MultipleOn(f, 2 * h, 2 * c)
    PROVE  MultipleOn(Level2D(f, 2 * h), h, c)
<1> DEFINE n == 2 * h
           l == Level2D(f, n)
<1>1. Levelled(l, f, h, N)
  BY Level2DIs
<1>2. \A i \in 0..h - 1 : 2 * i \in 0..n - 1 /\ 2 * i + 1 \in 0..n - 1
  BY CornerMayPass
<1> HIDE DEF l
<1> SUFFICES ASSUME NEW i \in 0..h - 1, NEW j \in 0..h - 1 PROVE \E e \in Int : l[<<i, j>>] = c * e
  BY DEF MultipleOn, l
<1>3. BlockLevel(l, f, h, i, j)
  BY <1>1 DEF Levelled
<1>4. PICK p \in Int : f[<<2 * i, 2 * j>>] = (2 * c) * p
  BY <1>2 DEF MultipleOn
<1>5. PICK q \in Int : f[<<2 * i, 2 * j + 1>>] = (2 * c) * q
  BY <1>2 DEF MultipleOn
<1>6. PICK r \in Int : f[<<2 * i + 1, 2 * j>>] = (2 * c) * r
  BY <1>2 DEF MultipleOn
<1>7. PICK s \in Int : f[<<2 * i + 1, 2 * j + 1>>] = (2 * c) * s
  BY <1>2 DEF MultipleOn
<1> DEFINE e == p + q + r + s
<1>8. l[<<i, j>>] = ((2 * c) * p + (2 * c) * q + (2 * c) * r + (2 * c) * s) \div 2
  BY <1>3, <1>4, <1>5, <1>6, <1>7 DEF BlockLevel
<1>9. (2 * c) * p + (2 * c) * q + (2 * c) * r + (2 * c) * s = 2 * (c * e)
  BY SMT
<1>10. e \in Int /\ c * e \in Int
  OBVIOUS
<1>11. \A x \in Int : (2 * x) \div 2 = x
  OBVIOUS
<1> HIDE DEF e
<1>12. l[<<i, j>>] = c * e
  BY ONLY <1>8, <1>9, <1>10, <1>11
<1> QED
  BY <1>10, <1>12

LEMMA PowerIsPositive == ASSUME NEW t, PowerOfTwo(t) PROVE t \in Nat \ {0}
  BY PowersDouble

\* On the way down, the values of the corner of side s are multiples of N * s.
LEMMA DownIsMultiple ==
    ASSUME NEW N \in Nat \ {0}, NEW d \in Image(N), MultipleOn(d, N, N * N), NEW down, NEW up, Ways(down, up, d, N),
           NEW t, PowerOfTwo(t), NEW s \in Nat, s * t = N
    PROVE  s \in 1..N /\ MultipleOn(down[s], s, N * s)
<1> DEFINE T == {x \in Nat : \A y \in Nat : y * x = N => y \in 1..N /\ MultipleOn(down[y], y, N * y)}
<1>1. /\ down \in [1..N -> Image(N)]
      /\ \A y \in 1..N : down[y] = IF 2 * y > N THEN d ELSE Level2D(down[2 * y], 2 * y)
  BY DEF Ways
<1>2. 1 \in T
  <2>1. N \in 1..N /\ 2 * N > N
    OBVIOUS
  <2>2. down[N] = d
    BY <1>1, <2>1
  <2>3. \A y \in Nat : y * 1 = N => y = N
    OBVIOUS
  <2> QED
    BY <2>1, <2>2, <2>3
<1>3. ASSUME NEW x \in T PROVE 2 * x \in T
  <2>1. x \in Nat /\ 2 * x \in Nat
    OBVIOUS
  <2> SUFFICES ASSUME NEW y \in Nat, y * (2 * x) = N PROVE y \in 1..N /\ MultipleOn(down[y], y, N * y)
    BY <2>1
  <2> DEFINE z == 2 * y
  <2>2. z \in Nat /\ z * x = N
    <3>1. (2 * y) * x = y * (2 * x)
      BY <2>1
    <3> QED
      BY <3>1
  <2>3. z \in 1..N /\ MultipleOn(down[z], z, N * z)
    BY <2>2
  <2>4. y \in 1..N /\ ~(2 * y > N) /\ Corner(y, N)
    BY <2>3 DEF Corner
  <2>5. down[y] = Level2D(down[2 * y], 2 * y) /\ down[2 * y] \in Image(N)
    BY <1>1, <2>3, <2>4
  <2>6. N * (2 * y) = 2 * (N * y) /\ N * y \in Int
    OBVIOUS
  <2>7. MultipleOn(down[2 * y], 2 * y, 2 * (N * y))
    BY <2>3, <2>6
  <2> QED
    BY <2>4, <2>5, <2>6, <2>7, LevelHalves
<1>4. Doubling(T)
  BY <1>2, <1>3 DEF Doubling
<1>5. t \in T
  BY <1>4 DEF PowerOfTwo
<1> QED
  BY <1>5

\* On the way up, the corner of side s is lower than on the way down, by as much as fits.
LEMMA RemoveMaxLowers ==
    ASSUME NEW N, PowerOfTwo(N), NEW d \in Image(N), MultipleOn(d, N, N * N)
    PROVE  \E u \in Int : Lowered(RemoveMaxLL(d, N), d, N, u, N)
<1>1. N \in Nat \ {0}
  BY PowerIsPositive
<1>2. PICK down, up : Ways(down, up, d, N) /\ RemoveMaxLL(d, N) = up[N]
  BY <1>1, RemoveGoes
<1>3. /\ down \in [1..N -> Image(N)] /\ up \in [1..N -> Image(N)]
      /\ \A s \in 1..N : down[s] = IF 2 * s > N THEN d ELSE Level2D(down[2 * s], 2 * s)
      /\ \A s \in 1..N : up[s] = IF s = 1 THEN [down[1] EXCEPT ![<<0, 0>>] = 0] ELSE Level2DInverse(up[s \div 2], s)
  BY <1>2 DEF Ways
<1>4. \A t, s : PowerOfTwo(t) /\ s \in Nat /\ s * t = N => s \in 1..N /\ MultipleOn(down[s], s, N * s)
  BY <1>1, <1>2, DownIsMultiple
<1>5. PICK w \in Int : down[1][<<0, 0>>] = N * w
  <2>1. 1 * N = N /\ N * 1 = N /\ 0 \in 0..1 - 1
    BY <1>1
  <2>2. MultipleOn(down[1], 1, N * 1)
    BY <1>4, <2>1
  <2>3. \E e \in Int : down[1][<<0, 0>>] = (N * 1) * e
    BY <2>1, <2>2 DEF MultipleOn
  <2> QED
    BY <2>1, <2>3
<1> DEFINE S == {s \in Nat : \A t : PowerOfTwo(t) /\ s * t = N => Lowered(up[s], down[s], s, w * t, N)}
<1>6. 1 \in S
  <2> SUFFICES ASSUME NEW t, PowerOfTwo(t), 1 * t = N PROVE Lowered(up[1], down[1], 1, w * t, N)
    OBVIOUS
  <2> DEFINE first == <<0, 0>>  x == down[1]
  <2>1. t = N /\ 1 \in 1..N
    BY <1>1, PowerIsPositive
  <2>2. x \in [Places(N) -> Int] /\ up[1] = [x EXCEPT ![first] = 0] /\ x[first] = N * w
    BY <1>3, <1>5, <2>1 DEF Image
  <2>3. \A p \in Places(N) : InCorner(p, 1) <=> p = first
    BY <1>1 DEF Places, InCorner
  <2>4. N * w = w * t /\ N * w \in Int /\ x[first] - w * t = 0
    <3>1. N * w = w * t /\ N * w \in Int
      BY <1>1, <2>1
    <3> HIDE DEF first, x
    <3> QED
      BY <2>2, <3>1
  <2>5. up[1] \in Image(N)
    BY <1>3, <2>1
  <2> HIDE DEF first, x
  <2>6. up[1] = [p \in Places(N) |-> IF p = first THEN 0 ELSE x[p]]
    BY ONLY <2>2
  <2>7. \A p \in Places(N) : up[1][p] = IF InCorner(p, 1) THEN x[p] - w * t ELSE x[p]
    BY ONLY <2>3, <2>4, <2>6
  <2> QED
    BY <2>5, <2>7 DEF Lowered, x
<1>7. ASSUME NEW s \in S PROVE 2 * s \in S
  <2>1. s \in Nat /\ 2 * s \in Nat
    OBVIOUS
  <2> SUFFICES ASSUME NEW t, PowerOfTwo(t), (2 * s) * t = N
               PROVE  Lowered(up[2 * s], down[2 * s], 2 * s, w * t, N)
    BY <2>1
  <2> DEFINE n == 2 * s
  <2>2. t \in Nat \ {0} /\ PowerOfTwo(2 * t)
    BY PowerIsPositive, PowersDouble
  <2>3. s * (2 * t) = N /\ w * (2 * t) = 2 * (w * t) /\ w * t \in Int
    <3>1. s * (2 * t) = (2 * s) * t
      BY <2>1, <2>2
    <3>2. w * (2 * t) = 2 * (w * t) /\ w * t \in Int
      BY <2>2
    <3> QED
      BY <3>1, <3>2
  <2>4. Lowered(up[s], down[s], s, 2 * (w * t), N)
    BY <2>2, <2>3
  <2>5. n \in 1..N /\ MultipleOn(down[n], n, N * n)
    BY <1>4, <2>1
  <2>6. s \in 1..N /\ ~(2 * s > N) /\ Corner(s, N) /\ n # 1 /\ n \div 2 = s
    BY <1>1, <2>1, <2>5 DEF Corner
  <2>7. /\ down[s] = Level2D(down[2 * s], 2 * s) /\ down[2 * s] \in Image(N)
        /\ up[2 * s] = Level2DInverse(up[s], 2 * s)
    BY <1>3, <2>5, <2>6
  <2>8. MultipleOn(down[2 * s], 2 * s, 2)
    <3> SUFFICES ASSUME NEW x \in 0..2 * s - 1, NEW y \in 0..2 * s - 1
                 PROVE  \E e \in Int : down[2 * s][<<x, y>>] = 2 * e
      BY DEF MultipleOn
    <3>1. PICK e \in Int : down[2 * s][<<x, y>>] = (N * (2 * s)) * e
      BY <2>5 DEF MultipleOn
    <3> DEFINE k == (N * s) * e
    <3>2. k \in Int /\ (N * (2 * s)) * e = 2 * k
      <4>1. N * s \in Int /\ N * (2 * s) = 2 * (N * s)
        BY <1>1, <2>1
      <4> DEFINE a == N * s
      <4> HIDE DEF a
      <4>2. a \in Int /\ N * (2 * s) = 2 * a /\ k = a * e
        BY <4>1 DEF a
      <4>3. (2 * a) * e = 2 * (a * e) /\ a * e \in Int
        BY <4>2
      <4> HIDE DEF k
      <4> QED
        BY <4>2, <4>3
    <3> QED
      BY <3>1, <3>2
  <2> QED
    BY <2>3, <2>4, <2>6, <2>7, <2>8, LevelUndone
<1>8. Doubling(S)
  BY <1>6, <1>7 DEF Doubling
<1>9. N \in S
  BY <1>8 DEF PowerOfTwo
<1>10. PowerOfTwo(1) /\ N * 1 = N /\ w * 1 \in Int
  BY <1>1, PowersDouble
<1>11. Lowered(up[N], down[N], N, w * 1, N)
  BY <1>9, <1>10
<1>12. down[N] = d
  <2>1. N \in 1..N /\ 2 * N > N
    BY <1>1
  <2> QED
    BY <1>3, <2>1
<1> QED
  BY <1>2, <1>10, <1>11, <1>12

\* ph_haar_2d_level_ll(), in place.
FourOf(d, i, j) ==
    ((d[<<2 * i, 2 * j>>] + d[<<2 * i, 2 * j + 1>>]) + d[<<2 * i + 1, 2 * j>>]) + d[<<2 * i + 1, 2 * j + 1>>]

LowQuadrant(r, d, h) == \A i, j \in 0..h - 1 : r[<<i, j>>] = FourOf(d, i, j) \div 2

LEMMA FourIsInt ==
    ASSUME NEW h, NEW N, Corner(h, N), NEW d \in Image(N)
    PROVE  \A i, j \in 0..h - 1 : FourOf(d, i, j) \in Int
<1>1. \A x, y \in 0..2 * h - 1 : d[<<x, y>>] \in Int
  BY BlockIsInt
<1>2. \A i \in 0..h - 1 : 2 * i \in 0..2 * h - 1 /\ 2 * i + 1 \in 0..2 * h - 1
  BY CornerMayPass
<1> SUFFICES ASSUME NEW i \in 0..h - 1, NEW j \in 0..h - 1 PROVE FourOf(d, i, j) \in Int
  OBVIOUS
<1>3. /\ d[<<2 * i, 2 * j>>] \in Int /\ d[<<2 * i, 2 * j + 1>>] \in Int
      /\ d[<<2 * i + 1, 2 * j>>] \in Int /\ d[<<2 * i + 1, 2 * j + 1>>] \in Int
  BY <1>1, <1>2
<1> QED
  BY <1>3 DEF FourOf

\* After k rows: these are done, and what is at and below row k is as it was.
RowsDone(r, d, h, N, k) ==
    /\ r \in Image(N)
    /\ \A i \in 0..k - 1, j \in 0..h - 1 : r[<<i, j>>] = FourOf(d, i, j) \div 2
    /\ \A p \in Places(N) : p[1] >= k => r[p] = d[p]

LEMMA LowRowTyped ==
    ASSUME NEW h, NEW N, Corner(h, N), NEW d \in Image(N), NEW k \in 0..h - 1
    PROVE  /\ LowRow(d, k, h) \in Image(N)
           /\ \A p \in Places(N) : LowRow(d, k, h)[p] = IF p[1] = k /\ p[2] < h THEN FourOf(d, k, p[2]) \div 2 ELSE d[p]
<1>1. h \in Nat \ {0} /\ N \in Nat /\ 2 * h <= N
  BY DEF Corner
<1>2. d \in [Places(N) -> Int] /\ DOMAIN d = Places(N)
  BY DEF Image
<1>3. LowRow(d, k, h) = [p \in Places(N) |-> IF p[1] = k /\ p[2] < h THEN FourOf(d, k, p[2]) \div 2 ELSE d[p]]
  BY <1>2 DEF LowRow, FourOf
<1>4. \A p \in Places(N) : p[2] \in Nat
  BY <1>1 DEF Places
<1>5. \A p \in Places(N) : p[2] < h => FourOf(d, k, p[2]) \div 2 \in Int
  <2> SUFFICES ASSUME NEW p \in Places(N), p[2] < h PROVE FourOf(d, k, p[2]) \div 2 \in Int
    OBVIOUS
  <2>1. p[2] \in 0..h - 1
    BY <1>1, <1>4
  <2>2. FourOf(d, k, p[2]) \in Int
    BY <2>1, FourIsInt
  <2> QED
    BY <2>2
<1>6. LowRow(d, k, h) \in [Places(N) -> Int]
  BY ONLY <1>2, <1>3, <1>5
<1> QED
  BY <1>3, <1>6 DEF Image

LEMMA OneRowMore ==
    ASSUME NEW h, NEW N, Corner(h, N), NEW d \in Image(N), NEW k \in 0..h - 1,
           NEW r, RowsDone(r, d, h, N, k)
    PROVE  RowsDone(LowRow(r, k, h), d, h, N, k + 1)
<1>1. h \in Nat \ {0} /\ N \in Nat /\ 2 * h <= N /\ k \in Nat
  BY DEF Corner
<1>2. /\ r \in Image(N)
      /\ \A i \in 0..k - 1, j \in 0..h - 1 : r[<<i, j>>] = FourOf(d, i, j) \div 2
      /\ \A p \in Places(N) : p[1] >= k => r[p] = d[p]
  BY DEF RowsDone
<1> DEFINE q == LowRow(r, k, h)
<1>3. /\ q \in Image(N)
      /\ \A p \in Places(N) : q[p] = IF p[1] = k /\ p[2] < h THEN FourOf(r, k, p[2]) \div 2 ELSE r[p]
  BY <1>2, LowRowTyped
<1>4. \A x, y \in 0..2 * h - 1 : <<x, y>> \in Places(N)
  BY BlockIsInt
<1> HIDE DEF q
<1>5. ASSUME NEW j \in 0..h - 1 PROVE FourOf(r, k, j) = FourOf(d, k, j)
  <2>1. /\ 2 * k \in 0..2 * h - 1 /\ 2 * k + 1 \in 0..2 * h - 1 /\ 2 * k >= k /\ 2 * k + 1 >= k
        /\ 2 * j \in 0..2 * h - 1 /\ 2 * j + 1 \in 0..2 * h - 1
    BY <1>1
  <2> DEFINE x == 2 * k  z == 2 * k + 1  y == 2 * j  w == 2 * j + 1
  <2> HIDE DEF x, y, z, w
  <2>2. x \in 0..2 * h - 1 /\ z \in 0..2 * h - 1 /\ x >= k /\ z >= k /\ y \in 0..2 * h - 1 /\ w \in 0..2 * h - 1
    BY <2>1 DEF x, y, z, w
  <2>3. r[<<x, y>>] = d[<<x, y>>] /\ r[<<x, w>>] = d[<<x, w>>] /\ r[<<z, y>>] = d[<<z, y>>] /\ r[<<z, w>>] = d[<<z, w>>]
    BY <1>2, <1>4, <2>2
  <2> QED
    BY <2>3 DEF FourOf, x, y, z, w
<1>6. ASSUME NEW i \in 0..(k + 1) - 1, NEW j \in 0..h - 1 PROVE q[<<i, j>>] = FourOf(d, i, j) \div 2
  <2>1. i \in 0..2 * h - 1 /\ j \in 0..2 * h - 1 /\ j < h
    BY <1>1
  <2>2. q[<<i, j>>] = IF i = k /\ j < h THEN FourOf(r, k, j) \div 2 ELSE r[<<i, j>>]
    BY <1>3, <1>4, <2>1
  <2>3. CASE i = k
    BY <1>5, <2>1, <2>2, <2>3
  <2>4. CASE i # k
    <3>1. i \in 0..k - 1
      BY <1>1, <2>4
    <3> QED
      BY <1>2, <2>2, <2>4, <3>1
  <2> QED
    BY <2>3, <2>4
<1>7. \A p \in Places(N) : p[1] >= k + 1 => q[p] = d[p]
  <2>1. \A p \in Places(N) : p[1] \in Nat
    BY <1>1 DEF Places
  <2>2. \A x \in Nat : x >= k + 1 => x >= k /\ x # k
    BY <1>1
  <2> QED
    BY <1>2, <1>3, <2>1, <2>2
<1> QED
  BY <1>3, <1>6, <1>7 DEF RowsDone, q

LEMMA LevelLLIs ==
    ASSUME NEW h, NEW N, Corner(h, N), NEW d \in Image(N)
    PROVE  LevelLL(d, 2 * h) \in Image(N) /\ LowQuadrant(LevelLL(d, 2 * h), d, h)
<1> DEFINE V == Image(N)
     step == [k \in 1..h |-> [r \in V |-> LowRow(r, k - 1, h)]]
     Makes(f) == f = [k \in 0..h |-> IF k = 0 THEN d ELSE LowRow(f[k - 1], RowOrder(h)[k], h)]
     rows == CHOOSE f : Makes(f)
<1>1. h \in Nat \ {0} /\ N \in Nat /\ (2 * h) \div 2 = h
  BY DEF Corner
<1>2. ASSUME NEW k \in 1..h, NEW r \in V PROVE LowRow(r, k - 1, h) \in V
  <2>1. k - 1 \in 0..h - 1
    BY <1>1
  <2> QED
    BY <2>1, LowRowTyped
<1>3. Loop(h, V, d, step)
  <2>1. d \in V
    OBVIOUS
  <2> HIDE DEF V
  <2> QED
    BY <1>1, <1>2, <2>1 DEF Loop
<1>4. PICK f \in [0..h -> V] : f = [k \in 0..h |-> IF k = 0 THEN d ELSE step[k][f[k - 1]]]
  <2> HIDE DEF step, V
  <2> QED
    BY <1>3, LoopExists
<1>5. \A k \in 0..h : k # 0 => step[k][f[k - 1]] = LowRow(f[k - 1], RowOrder(h)[k], h)
  <2> SUFFICES ASSUME NEW k \in 0..h, k # 0 PROVE step[k][f[k - 1]] = LowRow(f[k - 1], RowOrder(h)[k], h)
    OBVIOUS
  <2>1. k \in 1..h /\ k - 1 \in 0..h
    BY <1>1
  <2>2. f[k - 1] \in V
    BY <1>4, <2>1
  <2>3. RowOrder(h)[k] = k - 1
    BY <2>1 DEF RowOrder
  <2> HIDE DEF V
  <2> QED
    BY <2>1, <2>2, <2>3
<1>6. Makes(f)
  <2> HIDE DEF step
  <2> QED
    BY <1>4, <1>5
<1> HIDE DEF Makes
<1>7. Makes(rows)
  BY <1>6
<1>8. LevelLL(d, 2 * h) = rows[h]
  <2>1. LevelLL(d, 2 * h) = (CHOOSE g : g = [k \in 0..(2 * h) \div 2 |-> IF k = 0 THEN d ELSE LowRow(g[k - 1], RowOrder((2 * h) \div 2)[k], (2 * h) \div 2)])[(2 * h) \div 2]
    BY DEF LevelLL
  <2> QED
    BY <1>1, <2>1 DEF Makes
<1> HIDE DEF rows
<1>9. rows[0] = d /\ \A k \in 1..h : rows[k] = LowRow(rows[k - 1], k - 1, h)
  <2>1. rows = [k \in 0..h |-> IF k = 0 THEN d ELSE LowRow(rows[k - 1], RowOrder(h)[k], h)]
    BY <1>7 DEF Makes
  <2>2. \A k \in 0..h : rows[k] = IF k = 0 THEN d ELSE LowRow(rows[k - 1], RowOrder(h)[k], h)
    BY ONLY <2>1
  <2>3. 0 \in 0..h /\ \A k \in 1..h : k \in 0..h /\ k # 0 /\ RowOrder(h)[k] = k - 1
    BY <1>1 DEF RowOrder
  <2> QED
    BY <2>2, <2>3
<1> DEFINE P == {k \in 0..h : RowsDone(rows[k], d, h, N, k)}
<1>10. 0 \in P
  <2>1. \A i \in 0..0 - 1, j \in 0..h - 1 : FALSE
    OBVIOUS
  <2> QED
    BY <1>1, <1>9, <2>1 DEF RowsDone
<1>11. ASSUME NEW k \in Below(h), k \in P PROVE k + 1 \in P
  <2>1. k \in 0..h - 1 /\ k + 1 \in 1..h /\ k + 1 \in 0..h /\ (k + 1) - 1 = k
    BY <1>1 DEF Below
  <2>2. RowsDone(rows[k], d, h, N, k)
    BY <1>11
  <2>3. RowsDone(LowRow(rows[k], k, h), d, h, N, k + 1)
    BY <2>1, <2>2, OneRowMore
  <2>4. rows[k + 1] = LowRow(rows[k], k, h)
    BY <1>9, <2>1
  <2> QED
    BY <2>1, <2>3, <2>4
<1>12. \A k \in 0..h : k \in P
  <2> HIDE DEF P
  <2> QED
    BY <1>1, <1>10, <1>11, OneByOne
<1>13. RowsDone(rows[h], d, h, N, h)
  BY <1>1, <1>12
<1> QED
  BY <1>8, <1>13 DEF RowsDone, LowQuadrant

LEMMA Level2DIsLow ==
    ASSUME NEW h, NEW N, Corner(h, N), NEW d \in Image(N)
    PROVE  Level2D(d, 2 * h) \in Image(N) /\ LowQuadrant(Level2D(d, 2 * h), d, h)
<1>1. Levelled(Level2D(d, 2 * h), d, h, N)
  BY Level2DIs
<1> DEFINE l == Level2D(d, 2 * h)
<1> HIDE DEF l
<1>2. l \in Image(N) /\ \A i, j \in 0..h - 1 : BlockLevel(l, d, h, i, j)
  BY <1>1 DEF Levelled, l
<1>3. LowQuadrant(l, d, h)
  BY <1>2 DEF BlockLevel, LowQuadrant, FourOf
<1> QED
  BY <1>2, <1>3 DEF l

\* The squares of side t of an image, and their sums.
Square(N, t, i, j) == {p \in Places(N) : p[1] \div t = i /\ p[2] \div t = j}
SquareSum(samples, N, t, i, j) == Sums(samples)[Square(N, t, i, j)]

LEMMA SquaresFinite ==
    ASSUME NEW N \in Nat, NEW samples \in Image(N)
    PROVE  Summable(samples, Places(N))
<1>1. IsFiniteSet(0..N - 1)
  BY FS_Interval
<1> QED
  BY <1>1, FS_Product DEF Summable, Places, Image

LEMMA SquareSumIsInt ==
    ASSUME NEW N \in Nat, NEW samples \in Image(N), NEW t, NEW i, NEW j
    PROVE  SquareSum(samples, N, t, i, j) \in Int
<1>1. Summable(samples, Places(N)) /\ Square(N, t, i, j) \in SUBSET Places(N)
  BY SquaresFinite DEF Square
<1> QED
  BY <1>1, SumIsInt DEF SquareSum

Halves(a, t, i) == a \div (2 * t) = i <=> (a \div t = 2 * i \/ a \div t = 2 * i + 1)

LEMMA HalfAndHalf ==
    ASSUME NEW a \in Nat, NEW t \in Nat \ {0}, NEW i \in Nat
    PROVE  Halves(a, t, i)
<1>1. (a \div t) \div 2 = a \div (t * 2) /\ t * 2 = 2 * t
  BY DividedTwice
<1>2. a \div t \in Nat
  OBVIOUS
<1> DEFINE q == a \div t
<1>3. q \in Nat /\ q \div 2 = a \div (2 * t)
  BY <1>1, <1>2
<1> HIDE DEF q
<1>4. q \div 2 = i <=> (q = 2 * i \/ q = 2 * i + 1)
  BY <1>3
<1> QED
  BY <1>3, <1>4 DEF q, Halves

LEMMA FourSquares ==
    ASSUME NEW N \in Nat, NEW samples \in Image(N), NEW t \in Nat \ {0}, NEW i \in Nat, NEW j \in Nat
    PROVE  SquareSum(samples, N, 2 * t, i, j) =
              ((SquareSum(samples, N, t, 2 * i, 2 * j) + SquareSum(samples, N, t, 2 * i, 2 * j + 1))
                 + SquareSum(samples, N, t, 2 * i + 1, 2 * j)) + SquareSum(samples, N, t, 2 * i + 1, 2 * j + 1)
<1> DEFINE S == Places(N)
           A == Square(N, t, 2 * i, 2 * j)
           B == Square(N, t, 2 * i, 2 * j + 1)
           C == Square(N, t, 2 * i + 1, 2 * j)
           E == Square(N, t, 2 * i + 1, 2 * j + 1)
           W == Square(N, 2 * t, i, j)
<1>1. Summable(samples, S)
  BY SquaresFinite
<1>2. A \in SUBSET S /\ B \in SUBSET S /\ C \in SUBSET S /\ E \in SUBSET S /\ W \in SUBSET S
  BY DEF Square
<1>3. A \cap B = {} /\ (A \cup B) \cap C = {} /\ ((A \cup B) \cup C) \cap E = {}
  <2>1. 2 * i # 2 * i + 1 /\ 2 * j # 2 * j + 1
    OBVIOUS
  <2> QED
    BY <2>1 DEF Square
<1>4. W = ((A \cup B) \cup C) \cup E
  <2>1. \A p \in S : p[1] \in Nat /\ p[2] \in Nat
    BY DEF Places
  <2>2. \A p \in S : /\ p[1] \div (2 * t) = i <=> (p[1] \div t = 2 * i \/ p[1] \div t = 2 * i + 1)
                     /\ p[2] \div (2 * t) = j <=> (p[2] \div t = 2 * j \/ p[2] \div t = 2 * j + 1)
    <3> SUFFICES ASSUME NEW p \in S
                 PROVE  /\ p[1] \div (2 * t) = i <=> (p[1] \div t = 2 * i \/ p[1] \div t = 2 * i + 1)
                        /\ p[2] \div (2 * t) = j <=> (p[2] \div t = 2 * j \/ p[2] \div t = 2 * j + 1)
      OBVIOUS
    <3> DEFINE x == p[1]  y == p[2]
    <3>1. x \in Nat /\ y \in Nat
      BY <2>1
    <3> HIDE DEF x, y
    <3>2. Halves(x, t, i) /\ Halves(y, t, j)
      BY <3>1, HalfAndHalf
    <3> QED
      BY <3>2 DEF x, y, Halves
  <2> HIDE DEF S
  <2>3. W = {p \in S : p[1] \div (2 * t) = i /\ p[2] \div (2 * t) = j}
    BY DEF S, Square
  <2>4. /\ A = {p \in S : p[1] \div t = 2 * i /\ p[2] \div t = 2 * j}
        /\ B = {p \in S : p[1] \div t = 2 * i /\ p[2] \div t = 2 * j + 1}
        /\ C = {p \in S : p[1] \div t = 2 * i + 1 /\ p[2] \div t = 2 * j}
        /\ E = {p \in S : p[1] \div t = 2 * i + 1 /\ p[2] \div t = 2 * j + 1}
    BY DEF S, Square
  <2> HIDE DEF W, A, B, C, E
  <2>5. \A p : p \in W <=> p \in ((A \cup B) \cup C) \cup E
    BY ONLY <2>2, <2>3, <2>4
  <2> QED
    BY ONLY <2>5
<1> HIDE DEF S, A, B, C, E, W
<1>5. A \cup B \in SUBSET S /\ (A \cup B) \cup C \in SUBSET S
  BY <1>2
<1>6. Sums(samples)[A \cup B] = Sums(samples)[A] + Sums(samples)[B]
  BY ONLY <1>1, <1>2, <1>3, SumsJoin
<1>7. Sums(samples)[(A \cup B) \cup C] = Sums(samples)[A \cup B] + Sums(samples)[C]
  BY ONLY <1>1, <1>2, <1>3, <1>5, SumsJoin
<1>8. Sums(samples)[((A \cup B) \cup C) \cup E] = Sums(samples)[(A \cup B) \cup C] + Sums(samples)[E]
  BY ONLY <1>1, <1>2, <1>3, <1>5, SumsJoin
<1>9. Sums(samples)[W] = ((Sums(samples)[A] + Sums(samples)[B]) + Sums(samples)[C]) + Sums(samples)[E]
  BY ONLY <1>4, <1>6, <1>7, <1>8
<1> QED
  BY <1>9 DEF SquareSum, A, B, C, E, W

LEMMA OneSquare ==
    ASSUME NEW N \in Nat, NEW samples \in Image(N), NEW i \in 0..N - 1, NEW j \in 0..N - 1
    PROVE  SquareSum(samples, N, 1, i, j) = samples[<<i, j>>] /\ <<i, j>> \in Places(N)
<1>1. Summable(samples, Places(N)) /\ <<i, j>> \in Places(N)
  BY SquaresFinite DEF Places
<1>2. Square(N, 1, i, j) = {<<i, j>>}
  <2>1. \A p \in Places(N) : p = <<p[1], p[2]>> /\ p[1] \in Nat /\ p[2] \in Nat
    BY DEF Places
  <2>2. \A x \in Nat : x \div 1 = x
    OBVIOUS
  <2>3. i \in Nat /\ j \in Nat
    OBVIOUS
  <2>4. \A p \in Places(N) : (p[1] \div 1 = i /\ p[2] \div 1 = j) <=> p = <<i, j>>
    BY <2>1, <2>2, <2>3
  <2>5. \A p : p \in Square(N, 1, i, j) <=> p = <<i, j>>
    BY ONLY <1>1, <2>4 DEF Square
  <2> QED
    BY ONLY <2>5
<1> QED
  BY <1>1, <1>2, SumOfOne DEF SquareSum

-----------------------------------------------------------------------------
\* The corner of side s of an image of which every square of side t has become one value:
\* its sum, times a factor, less the same for all.
HoldsSums(f, samples, N, s, t, u) ==
    \A i, j \in 0..s - 1 : f[<<i, j>>] = (N * s) * SquareSum(samples, N, t, i, j) - u * t

\* What one value of the next level is.
MakesOne(k, e, a, b, c, g) ==
    (((((2 * k) * a - e) + ((2 * k) * b - e)) + ((2 * k) * c - e)) + ((2 * k) * g - e)) \div 2
        = k * (((a + b) + c) + g) - 2 * e

LEMMA FourMakeOne ==
    ASSUME NEW k \in Int, NEW e \in Int, NEW a \in Int, NEW b \in Int, NEW c \in Int, NEW g \in Int
    PROVE  MakesOne(k, e, a, b, c, g)
<1> DEFINE A == k * a
           B == k * b
           C == k * c
           G == k * g
<1>1. (2 * k) * a = 2 * A /\ (2 * k) * b = 2 * B /\ (2 * k) * c = 2 * C /\ (2 * k) * g = 2 * G
  OBVIOUS
<1>2. k * (((a + b) + c) + g) = ((A + B) + C) + G
  OBVIOUS
<1>3. A \in Int /\ B \in Int /\ C \in Int /\ G \in Int
  OBVIOUS
<1> HIDE DEF A, B, C, G
<1> DEFINE x == (((2 * A - e) + (2 * B - e)) + (2 * C - e)) + (2 * G - e)
           y == ((A + B) + C) + G - 2 * e
<1>4. y \in Int /\ x = 2 * y
  BY <1>3
<1> HIDE DEF x, y
<1>5. x \div 2 = y
  BY ONLY <1>4
<1> QED
  BY <1>1, <1>2, <1>5 DEF x, y, MakesOne

LEMMA LevelKeepsSums ==
    ASSUME NEW h, NEW N, Corner(h, N), NEW samples \in Image(N), NEW t \in Nat \ {0}, NEW u \in Int,
           NEW f, HoldsSums(f, samples, N, 2 * h, t, u), NEW r, LowQuadrant(r, f, h)
    PROVE  HoldsSums(r, samples, N, h, 2 * t, u)
<1>1. h \in Nat \ {0} /\ N \in Nat
  BY DEF Corner
<1>2. \A i \in 0..h - 1 : 2 * i \in 0..2 * h - 1 /\ 2 * i + 1 \in 0..2 * h - 1
  BY CornerMayPass
<1> SUFFICES ASSUME NEW i \in 0..h - 1, NEW j \in 0..h - 1
             PROVE  r[<<i, j>>] = (N * h) * SquareSum(samples, N, 2 * t, i, j) - u * (2 * t)
  BY DEF HoldsSums
<1> DEFINE a == SquareSum(samples, N, t, 2 * i, 2 * j)
           b == SquareSum(samples, N, t, 2 * i, 2 * j + 1)
           c == SquareSum(samples, N, t, 2 * i + 1, 2 * j)
           g == SquareSum(samples, N, t, 2 * i + 1, 2 * j + 1)
           w == SquareSum(samples, N, 2 * t, i, j)
           k == N * h
           e == u * t
<1>3. w = ((a + b) + c) + g
  BY <1>1, FourSquares
<1>4. a \in Int /\ b \in Int /\ c \in Int /\ g \in Int
  BY <1>1, SquareSumIsInt
<1>5. k \in Int /\ e \in Int /\ N * (2 * h) = 2 * k /\ u * (2 * t) = 2 * e
  BY <1>1
<1>6. /\ f[<<2 * i, 2 * j>>] = (N * (2 * h)) * a - u * t
      /\ f[<<2 * i, 2 * j + 1>>] = (N * (2 * h)) * b - u * t
      /\ f[<<2 * i + 1, 2 * j>>] = (N * (2 * h)) * c - u * t
      /\ f[<<2 * i + 1, 2 * j + 1>>] = (N * (2 * h)) * g - u * t
  BY <1>2 DEF HoldsSums
<1>7. r[<<i, j>>] = FourOf(f, i, j) \div 2
  BY DEF LowQuadrant
<1>8. u * t = e /\ N * h = k
  OBVIOUS
<1> HIDE DEF a, b, c, g, w, k, e
<1>9. r[<<i, j>>] = (((((2 * k) * a - e) + ((2 * k) * b - e)) + ((2 * k) * c - e)) + ((2 * k) * g - e)) \div 2
  BY <1>5, <1>6, <1>7, <1>8 DEF FourOf
<1>10. r[<<i, j>>] = k * (((a + b) + c) + g) - 2 * e
  <2>1. MakesOne(k, e, a, b, c, g)
    BY ONLY <1>4, <1>5, FourMakeOne
  <2> QED
    BY ONLY <1>9, <2>1 DEF MakesOne
<1>11. r[<<i, j>>] = k * w - u * (2 * t)
  BY ONLY <1>3, <1>5, <1>10
<1> QED
  BY <1>8, <1>11 DEF w

\* The way down of ph_compute_whash_full().
WayDownLL(f, d, N) == f = [s \in 1..N |-> IF 2 * s > N THEN d ELSE LevelLL(f[2 * s], 2 * s)]

LEMMA DownLLExists ==
    ASSUME NEW N \in Nat \ {0}, NEW d \in Image(N)
    PROVE  \E f : WayDownLL(f, d, N)
<1> DEFINE V == Image(N)
     level == [s \in 1..N |-> [x \in V |-> IF 2 * s <= N THEN LevelLL(x, 2 * s) ELSE x]]
<1>1. ASSUME NEW s \in 1..N, NEW x \in V PROVE (IF 2 * s <= N THEN LevelLL(x, 2 * s) ELSE x) \in V
  <2>1. CASE 2 * s <= N
    <3>1. Corner(s, N)
      BY <2>1 DEF Corner
    <3> QED
      BY <2>1, <3>1, LevelLLIs
  <2> QED
    BY <2>1
<1>2. level \in [1..N -> [V -> V]]
  <2> HIDE DEF V
  <2> QED
    BY <1>1
<1>3. PICK f : Descends(f, N, V, d, level)
  <2> HIDE DEF level, V
  <2>1. d \in V
    BY DEF V
  <2> QED
    BY <1>2, <2>1, DescentExists
<1>4. f \in [1..N -> V] /\ \A s \in 1..N : f[s] = IF 2 * s > N THEN d ELSE level[s][f[2 * s]]
  <2> HIDE DEF level, V
  <2> QED
    BY <1>3 DEF Descends
<1>5. ASSUME NEW s \in 1..N PROVE f[s] = IF 2 * s > N THEN d ELSE LevelLL(f[2 * s], 2 * s)
  <2>1. CASE 2 * s > N
    BY <1>4, <2>1
  <2>2. CASE ~(2 * s > N)
    <3>1. 2 * s \in 1..N /\ 2 * s <= N
      BY <2>2
    <3>2. f[2 * s] \in V
      BY <1>4, <3>1
    <3>3. level[s][f[2 * s]] = LevelLL(f[2 * s], 2 * s)
      <4> HIDE DEF V
      <4> QED
        BY <3>1, <3>2
    <3> QED
      BY <1>4, <2>2, <3>3
  <2> QED
    BY <2>1, <2>2
<1>6. f = [s \in 1..N |-> f[s]]
  <2> HIDE DEF V
  <2> QED
    BY <1>4
<1>7. WayDownLL(f, d, N)
  BY <1>5, <1>6 DEF WayDownLL
<1> QED
  BY <1>7

LEMMA WayDownLLIs ==
    ASSUME NEW N \in Nat \ {0}, NEW d \in Image(N), NEW f, WayDownLL(f, d, N)
    PROVE  f \in [1..N -> Image(N)]
<1> DEFINE D == 1..N  m == [s \in D |-> N - s]  S == {s \in D : f[s] \in Image(N)}
<1>1. f = [s \in D |-> IF 2 * s > N THEN d ELSE LevelLL(f[2 * s], 2 * s)]
  BY DEF WayDownLL
<1>2. m \in [D -> Nat]
  OBVIOUS
<1>3. ASSUME NEW s \in D, \A y \in D : m[y] < m[s] => y \in S PROVE s \in S
  <2>1. CASE 2 * s > N
    BY <1>1, <2>1
  <2>2. CASE ~(2 * s > N)
    <3>1. 2 * s \in D /\ m[2 * s] < m[s] /\ Corner(s, N)
      BY <2>2 DEF Corner
    <3>2. f[2 * s] \in Image(N)
      BY <1>3, <3>1
    <3>3. LevelLL(f[2 * s], 2 * s) \in Image(N)
      BY <3>1, <3>2, LevelLLIs
    <3> QED
      BY <1>1, <2>2, <3>3
  <2> QED
    BY <2>1, <2>2
<1>4. \A s \in D : s \in S
  <2> HIDE DEF D, m, S
  <2> QED
    BY <1>2, <1>3, Inductively
<1>5. \A s \in D : f[s] \in Image(N)
  BY <1>4
<1> QED
  BY <1>1, <1>5

LEMMA LowBandIs ==
    ASSUME NEW N \in Nat \ {0}, NEW d \in Image(N), NEW samples \in Image(N), NEW u \in Int,
           HoldsSums(d, samples, N, N, 1, u), NEW t, PowerOfTwo(t), HashSize * t = N
    PROVE  HoldsSums(LowBand(d, N), samples, N, HashSize, t, u)
<1> DEFINE down == CHOOSE f : WayDownLL(f, d, N)
<1>1. LowBand(d, N) = down[HashSize]
  BY DEF LowBand, WayDownLL
<1>2. WayDownLL(down, d, N)
  BY DownLLExists
<1> HIDE DEF down
<1>3. down \in [1..N -> Image(N)]
  BY <1>2, WayDownLLIs
<1>4. \A s \in 1..N : down[s] = IF 2 * s > N THEN d ELSE LevelLL(down[2 * s], 2 * s)
  <2>1. down = [s \in 1..N |-> IF 2 * s > N THEN d ELSE LevelLL(down[2 * s], 2 * s)]
    BY <1>2 DEF WayDownLL
  <2> QED
    BY ONLY <2>1
<1> DEFINE T == {x \in Nat : \A y \in Nat : y * x = N => y \in 1..N /\ HoldsSums(down[y], samples, N, y, x, u)}
<1>5. 1 \in T
  <2>1. N \in 1..N /\ 2 * N > N
    OBVIOUS
  <2>2. down[N] = d
    BY <1>4, <2>1
  <2>3. \A y \in Nat : y * 1 = N => y = N
    OBVIOUS
  <2> QED
    BY <2>1, <2>2, <2>3
<1>6. ASSUME NEW x \in T PROVE 2 * x \in T
  <2>1. x \in Nat /\ 2 * x \in Nat
    OBVIOUS
  <2> SUFFICES ASSUME NEW y \in Nat, y * (2 * x) = N
               PROVE  y \in 1..N /\ HoldsSums(down[y], samples, N, y, 2 * x, u)
    BY <2>1
  <2> DEFINE z == 2 * y
  <2>2. z \in Nat /\ z * x = N
    <3>1. (2 * y) * x = y * (2 * x)
      BY <2>1
    <3> QED
      BY <3>1
  <2>3. z \in 1..N /\ HoldsSums(down[z], samples, N, z, x, u)
    BY <2>2
  <2>4. y \in 1..N /\ ~(2 * y > N) /\ Corner(y, N)
    BY <2>3 DEF Corner
  <2>5. x \in Nat \ {0}
    BY <2>1, <2>2
  <2>6. down[y] = LevelLL(down[2 * y], 2 * y) /\ down[2 * y] \in Image(N)
    BY <1>3, <1>4, <2>3, <2>4
  <2>7. LowQuadrant(down[y], down[2 * y], y)
    BY <2>4, <2>6, LevelLLIs
  <2>8. HoldsSums(down[2 * y], samples, N, 2 * y, x, u)
    BY <2>3
  <2> QED
    BY <2>4, <2>5, <2>7, <2>8, LevelKeepsSums
<1>7. Doubling(T)
  BY <1>5, <1>6 DEF Doubling
<1>8. t \in T /\ HashSize \in Nat
  BY <1>7, HashSizeIsPower DEF PowerOfTwo
<1> QED
  BY <1>1, <1>8

-----------------------------------------------------------------------------
\* The image the wavelet begins with, with the coarsest coefficient removed or not.
Starts(d, samples, N, u) == d \in Image(N) /\ HoldsSums(d, samples, N, N, 1, u)

LEMMA ImageStarts ==
    ASSUME NEW N, PowerOfTwo(N), NEW samples \in Image(N), NEW remove \in BOOLEAN, NEW exact, NEW d,
           exact = [p \in DOMAIN samples |-> samples[p] * N * N],
           d = IF remove THEN RemoveMaxLL(exact, N) ELSE exact
    PROVE  \E u \in Int : Starts(d, samples, N, u)
<1>1. N \in Nat \ {0}
  BY PowerIsPositive
<1>2. DOMAIN samples = Places(N) /\ \A p \in Places(N) : samples[p] \in Int
  BY DEF Image
<1>3. \A x \in Int : x * N * N = (N * N) * x /\ (N * N) * x \in Int
  BY <1>1
<1>4. exact = [p \in Places(N) |-> (N * N) * samples[p]]
  <2>1. \A p \in Places(N) : samples[p] * N * N = (N * N) * samples[p]
    BY <1>2, <1>3
  <2>2. exact = [p \in Places(N) |-> samples[p] * N * N]
    BY <1>2
  <2> QED
    BY ONLY <2>1, <2>2
<1>5. \A p \in Places(N) : exact[p] = (N * N) * samples[p] /\ (N * N) * samples[p] \in Int
  BY <1>2, <1>3, <1>4
<1>6. exact \in Image(N)
  <2>1. exact = [p \in Places(N) |-> exact[p]] /\ \A p \in Places(N) : exact[p] \in Int
    BY <1>4, <1>5
  <2> QED
    BY ONLY <2>1 DEF Image
<1>7. \A i, j \in 0..N - 1 : /\ <<i, j>> \in Places(N) /\ samples[<<i, j>>] \in Int
                             /\ exact[<<i, j>>] = (N * N) * samples[<<i, j>>] /\ exact[<<i, j>>] \in Int
                             /\ SquareSum(samples, N, 1, i, j) = samples[<<i, j>>] /\ InCorner(<<i, j>>, N)
  <2> SUFFICES ASSUME NEW i \in 0..N - 1, NEW j \in 0..N - 1
               PROVE  /\ <<i, j>> \in Places(N) /\ samples[<<i, j>>] \in Int
                      /\ exact[<<i, j>>] = (N * N) * samples[<<i, j>>] /\ exact[<<i, j>>] \in Int
                      /\ SquareSum(samples, N, 1, i, j) = samples[<<i, j>>] /\ InCorner(<<i, j>>, N)
    OBVIOUS
  <2>1. SquareSum(samples, N, 1, i, j) = samples[<<i, j>>] /\ <<i, j>> \in Places(N)
    BY <1>1, OneSquare
  <2>2. InCorner(<<i, j>>, N)
    BY <1>1, CornerPoints
  <2> DEFINE p == <<i, j>>
  <2>3. p \in Places(N)
    BY <2>1
  <2> HIDE DEF p
  <2>4. samples[p] \in Int /\ exact[p] = (N * N) * samples[p] /\ exact[p] \in Int
    BY <1>2, <1>5, <2>3
  <2> QED
    BY <2>1, <2>2, <2>4 DEF p
<1>8. CASE remove
  <2>1. MultipleOn(exact, N, N * N)
    BY <1>7 DEF MultipleOn
  <2>2. PICK u \in Int : Lowered(RemoveMaxLL(exact, N), exact, N, u, N)
    BY <1>6, <2>1, RemoveMaxLowers
  <2>3. d = RemoveMaxLL(exact, N)
    BY <1>8
  <2>4. d \in Image(N) /\ \A p \in Places(N) : d[p] = IF InCorner(p, N) THEN exact[p] - u ELSE exact[p]
    BY <2>2, <2>3 DEF Lowered
  <2>5. u * 1 = u
    OBVIOUS
  <2>6. HoldsSums(d, samples, N, N, 1, u)
    <3> SUFFICES ASSUME NEW i \in 0..N - 1, NEW j \in 0..N - 1
                 PROVE  d[<<i, j>>] = (N * N) * SquareSum(samples, N, 1, i, j) - u * 1
      BY DEF HoldsSums
    <3> DEFINE p == <<i, j>>
    <3>1. /\ p \in Places(N) /\ exact[p] = (N * N) * samples[p]
          /\ SquareSum(samples, N, 1, i, j) = samples[p] /\ InCorner(p, N)
      BY <1>7
    <3> HIDE DEF p
    <3>2. d[p] = exact[p] - u
      BY <2>4, <3>1
    <3>3. d[p] = (N * N) * SquareSum(samples, N, 1, i, j) - u * 1
      BY ONLY <2>5, <3>1, <3>2
    <3> QED
      BY <3>3 DEF p
  <2> QED
    BY <2>4, <2>6 DEF Starts
<1>9. CASE ~remove
  <2>1. d = exact /\ 0 * 1 = 0 /\ 0 \in Int
    BY <1>9
  <2>2. \A x \in Int : x - 0 = x
    OBVIOUS
  <2>3. HoldsSums(d, samples, N, N, 1, 0)
    BY <1>7, <2>1, <2>2 DEF HoldsSums
  <2> QED
    BY <1>6, <2>1, <2>3 DEF Starts
<1> QED
  BY <1>8, <1>9

\* The values the bits are made from.
LEMMA BandIs ==
    ASSUME NEW mode \in {"fast", "full"}, NEW min_dim \in Nat \ {0}, NEW size, size = WhashSize(mode, min_dim),
           NEW samples \in Image(size), NEW u \in Int, NEW d, Starts(d, samples, size, u)
    PROVE  \E t \in Nat \ {0} : /\ HashSize * t = size
                                /\ \A c \in 0..HashSize * HashSize - 1 :
                                      Band(mode, d, size)[c] =
                                          (size * HashSize) * SquareSum(samples, size, t, c \div HashSize, c % HashSize) - u * t
<1> DEFINE H == HashSize
           level == IF mode = "full" THEN LowBand(d, size) ELSE Level2D(d, size)
<1>1. PowerOfTwo(size) /\ size >= H /\ (mode = "fast" => size = 2 * H)
  BY WhashSizeIs
<1>2. size \in Nat \ {0} /\ H \in Nat \ {0}
  BY <1>1, PowerIsPositive, HashSizeIsPower
<1>3. d \in Image(size) /\ HoldsSums(d, samples, size, size, 1, u)
  BY DEF Starts
<1>4. \E t \in Nat \ {0} : H * t = size /\ HoldsSums(level, samples, size, H, t, u)
  <2>1. CASE mode = "full"
    <3>1. PICK t \in Nat : PowerOfTwo(t) /\ HashSize * t = size
      BY <1>1, HashSizeDivides
    <3>2. t \in Nat \ {0}
      BY <3>1, PowerIsPositive
    <3>3. HoldsSums(LowBand(d, size), samples, size, HashSize, t, u)
      BY <1>2, <1>3, <3>1, LowBandIs
    <3>4. level = LowBand(d, size)
      BY <2>1
    <3> HIDE DEF level
    <3> QED
      BY <3>1, <3>2, <3>3, <3>4
  <2>2. CASE mode # "full"
    <3>1. size = 2 * H /\ Corner(H, size)
      BY <1>1, <1>2, <2>2 DEF Corner
    <3>2. level = Level2D(d, 2 * H)
      BY <2>2, <3>1
    <3> HIDE DEF level
    <3>3. LowQuadrant(level, d, H)
      BY <1>3, <3>1, <3>2, Level2DIsLow
    <3>4. HoldsSums(d, samples, size, 2 * H, 1, u)
      BY <1>3, <3>1
    <3> HIDE DEF H
    <3>5. HoldsSums(level, samples, size, H, 2 * 1, u)
      BY <3>1, <3>3, <3>4, LevelKeepsSums
    <3>6. 2 * 1 = 2 /\ H * 2 = size /\ 2 \in Nat \ {0}
      BY <1>2, <3>1
    <3> QED
      BY <3>5, <3>6
  <2> QED
    BY <2>1, <2>2
<1>5. PICK t \in Nat \ {0} : H * t = size /\ HoldsSums(level, samples, size, H, t, u)
  BY <1>4
<1>6. Band(mode, d, size) = [i \in 0..H * H - 1 |-> level[<<i \div H, i % H>>]]
  BY DEF Band
<1> HIDE DEF level
<1>7. ASSUME NEW c \in 0..H * H - 1 PROVE c \div H \in 0..H - 1 /\ c % H \in 0..H - 1
  <2>1. c \in Nat /\ c < H * H
    BY <1>2
  <2>2. c \div H \in Nat /\ c \div H < H
    BY <1>2, <2>1, BelowProduct
  <2>3. c % H \in 0..H - 1
    BY <1>2, <2>1
  <2> QED
    BY <1>2, <2>2, <2>3
<1>8. ASSUME NEW c \in 0..H * H - 1
      PROVE  Band(mode, d, size)[c] = (size * H) * SquareSum(samples, size, t, c \div H, c % H) - u * t
  <2> DEFINE i == c \div H  j == c % H
  <2>1. i \in 0..H - 1 /\ j \in 0..H - 1
    BY <1>7
  <2>2. Band(mode, d, size)[c] = level[<<i, j>>]
    BY <1>6
  <2> HIDE DEF i, j, H
  <2>3. level[<<i, j>>] = (size * H) * SquareSum(samples, size, t, i, j) - u * t
    BY ONLY <1>5, <2>1 DEF HoldsSums
  <2> QED
    BY ONLY <2>2, <2>3 DEF i, j
<1> QED
  BY <1>5, <1>8

MedianFacts(values, n, from, margin, s, m) ==
    /\ Ranks(s, values, n, from)
    /\ MedianBits(values, n, from, margin) =
          {i \in 0..n - 1 : MarginUnits * (2 * values[i] - (s[(m - 1) \div 2] + s[m \div 2]))
                               > 2 * margin * (s[m - 1] - s[0])}
    /\ s \in [0..m - 1 -> Int] /\ InOrder(s, m - 1)
    /\ Making(values, n, from) = {s[k] : k \in 0..m - 1}

LEMMA MedianFactsHold ==
    ASSUME NEW values, NEW n, NEW from, IsMedianCall(values, n, from), NEW margin,
           NEW m, m = n - from, NEW s, s = Sorted(Makers(values, n, from), m)
    PROVE  MedianFacts(values, n, from, margin, s, m)
<1>1. /\ Ranks(s, values, n, from)
      /\ MedianBits(values, n, from, margin) =
            {i \in 0..n - 1 : MarginUnits * (2 * values[i] - (s[(m - 1) \div 2] + s[m \div 2]))
                                 > 2 * margin * (s[m - 1] - s[0])}
  BY MedianBitsAre
<1>2. s \in [0..m - 1 -> Int] /\ InOrder(s, m - 1) /\ Making(values, n, from) = {s[k] : k \in 0..m - 1}
  BY <1>1, MakingIsRanked
<1> QED
  BY <1>1, <1>2 DEF MedianFacts

\* Above the median of all, without a margin: at least half are less.
Darker(samples, cells, c) == Cardinality({o \in cells : samples[o] < samples[c]})

LEMMA BitsByRank ==
    ASSUME NEW n \in 1..64, NEW values \in [0..n - 1 -> Int], NEW c \in 0..n - 1
    PROVE  c \in MedianBits(values, n, 0, 0) <=> 2 * Darker(values, 0..n - 1, c) >= n
<1> DEFINE s == Sorted(Makers(values, n, 0), n)
           lo == (n - 1) \div 2  hi == n \div 2
           v == values[c]
           half == UpTo(s, n, v - 1)
<1>1. IsMedianCall(values, n, 0) /\ n - 0 = n /\ n \in Nat \ {0}
  BY DEF IsMedianCall
<1>2. /\ Ranks(s, values, n, 0)
      /\ s \in [0..n - 1 -> Int] /\ InOrder(s, n - 1)
      /\ Making(values, n, 0) = {s[k] : k \in 0..n - 1}
      /\ MedianBits(values, n, 0, 0) =
            {i \in 0..n - 1 : MarginUnits * (2 * values[i] - (s[lo] + s[hi])) > 2 * 0 * (s[n - 1] - s[0])}
  <2>1. MedianFacts(values, n, 0, 0, s, n)
    <3>1. n = n - 0 /\ s = Sorted(Makers(values, n, 0), n)
      BY <1>1
    <3> HIDE DEF s
    <3> QED
      BY ONLY <1>1, <3>1, MedianFactsHold
  <2> HIDE DEF s
  <2> QED
    BY ONLY <2>1 DEF MedianFacts
<1>3. v \in Int /\ v - 1 \in Int
  OBVIOUS
<1> HIDE DEF s
<1>4. /\ s \in [0..n - 1 -> Int] /\ InOrder(s, n - 1)
      /\ Making(values, n, 0) = {s[k] : k \in 0..n - 1}
  BY <1>2
<1>5. /\ lo \in 0..n - 1 /\ hi \in 0..n - 1 /\ lo + hi = n - 1 /\ lo <= hi /\ hi <= lo + 1
  BY <1>1, CentralRanks
<1>6. /\ s[lo] \in Int /\ s[hi] \in Int /\ s[lo] <= s[hi] /\ s[n - 1] - s[0] \in Int
  <2>1. 0 \in 0..n - 1 /\ n - 1 \in 0..n - 1
    BY <1>1
  <2>2. s[0] \in Int /\ s[n - 1] \in Int
    BY <1>4, <2>1
  <2> HIDE DEF lo, hi
  <2> QED
    BY <1>4, <1>5, <2>2 DEF InOrder
<1>7. PICK k \in 0..n - 1 : v = s[k]
  <2>1. v \in Making(values, n, 0)
    BY <1>1 DEF Making
  <2> QED
    BY <1>4, <2>1
<1>8. /\ half \in Nat /\ (v - 1 >= s[lo] => half >= lo + 1) /\ (v - 1 < s[lo] => half <= lo)
  <2> HIDE DEF v, lo
  <2> QED
    BY <1>1, <1>3, <1>4, <1>5, RankCounts
<1>9. Share(values, n, 0, NotAbove(v - 1)) = 2 * half
  <2>1. Share(values, n, 0, NotAbove(v - 1)) = 2 * UpTo(s, n - 0, v - 1)
    BY <1>1, <1>2, <1>3, SharesAreRanks
  <2> QED
    BY <1>1, <2>1
<1>10. Share(values, n, 0, NotAbove(v - 1)) = 2 * Darker(values, 0..n - 1, c)
  <2>1. \A i \in 0..n - 1 : values[i] \in NotAbove(v - 1) <=> values[i] < v
    <3>1. \A i \in 0..n - 1 : values[i] \in Int
      OBVIOUS
    <3> HIDE DEF v
    <3>2. \A u \in Int : u <= v - 1 <=> u < v
      BY <1>3
    <3> QED
      BY <3>1, <3>2 DEF NotAbove
  <2>2. {i \in 0..n - 1 : values[i] \in NotAbove(v - 1)} = {i \in 0..n - 1 : values[i] < values[c]}
    BY <2>1
  <2> QED
    BY <2>2 DEF Share, Darker
<1>11. MarginUnits \in Nat \ {0}
  BY GridHashesAssumption
<1>12. c \in MedianBits(values, n, 0, 0) <=> MarginUnits * (2 * v - (s[lo] + s[hi])) > 2 * 0 * (s[n - 1] - s[0])
  BY <1>2
<1>13. k > lo => k >= hi
  BY <1>5
<1>14. (k <= lo => s[k] <= s[lo]) /\ (k >= hi => s[k] >= s[hi]) /\ k \in Int /\ lo \in Int
  <2> HIDE DEF lo, hi
  <2> QED
    BY <1>4, <1>5 DEF InOrder
<1> DEFINE low == s[lo]  high == s[hi]  range == s[n - 1] - s[0]
           gap == 2 * v - (low + high)
<1>15. v > low => v >= high
  BY <1>7, <1>13, <1>14, <1>6
<1>16. low \in Int /\ high \in Int /\ low <= high /\ range \in Int
  BY <1>6
<1>17. c \in MedianBits(values, n, 0, 0) <=> MarginUnits * gap > 2 * 0 * range
  BY <1>12
<1>18. (v - 1 >= low => half >= lo + 1) /\ (v - 1 < low => half <= lo) /\ half \in Nat
  BY <1>8
<1> HIDE DEF low, high, range, v, half
<1>19. gap \in Int /\ (gap > 0 <=> v > low)
  BY <1>3, <1>15, <1>16
<1> HIDE DEF gap
<1>20. MarginUnits * gap > 2 * 0 * range <=> gap > 0
  <2>1. 2 * 0 * range = 0
    BY <1>16
  <2>2. MarginUnits * gap > 0 <=> gap > 0
    BY <1>11, <1>19
  <2> QED
    BY <2>1, <2>2
<1>21. v > low <=> 2 * half >= n
  <2>1. 2 * (lo + 1) >= n /\ 2 * lo < n /\ lo \in Nat
    BY <1>1
  <2> HIDE DEF lo
  <2>2. v > low => half >= lo + 1
    BY <1>3, <1>16, <1>18
  <2>3. ~(v > low) => half <= lo
    BY <1>3, <1>16, <1>18
  <2> QED
    BY <1>1, <1>18, <2>1, <2>2, <2>3
<1> QED
  BY <1>9, <1>10, <1>17, <1>19, <1>20, <1>21

\* Values that are known up to a shift and an error.
Rounded(r, sums, n, shift, within) ==
    /\ n \in 1..64 /\ sums \in [0..n - 1 -> Int] /\ r \in [0..n - 1 -> Int] /\ shift \in Int /\ within \in Nat
    /\ \A c \in 0..n - 1 : r[c] - (sums[c] - shift) \in -within..within

DarkerBy(sums, n, c, by) == Cardinality({o \in (0..n - 1) \ {c} : sums[o] + by < sums[c]})

LEMMA RoundedRanks ==
    ASSUME NEW r, NEW sums, NEW n, NEW shift, NEW within, Rounded(r, sums, n, shift, within), NEW c \in 0..n - 1
    PROVE  /\ DarkerBy(sums, n, c, 2 * within) <= Darker(r, 0..n - 1, c)
           /\ Darker(r, 0..n - 1, c) <= DarkerBy(sums, n, c, -(2 * within))
           /\ DarkerBy(sums, n, c, 2 * within) \in Nat /\ DarkerBy(sums, n, c, -(2 * within)) \in Nat
           /\ Darker(r, 0..n - 1, c) \in Nat
<1> DEFINE surely == {o \in (0..n - 1) \ {c} : sums[o] + 2 * within < sums[c]}
           less   == {o \in 0..n - 1 : r[o] < r[c]}
           maybe  == {o \in (0..n - 1) \ {c} : sums[o] + (-(2 * within)) < sums[c]}
<1>1. /\ n \in 1..64 /\ sums \in [0..n - 1 -> Int] /\ r \in [0..n - 1 -> Int] /\ shift \in Int /\ within \in Nat
      /\ \A o \in 0..n - 1 : r[o] - (sums[o] - shift) \in -within..within
  BY DEF Rounded
<1>2. ASSUME NEW o \in 0..n - 1
      PROVE  (sums[o] + 2 * within < sums[c] => r[o] < r[c]) /\ (r[o] < r[c] => sums[o] + (-(2 * within)) < sums[c])
  <2> DEFINE x == sums[o]  y == sums[c]  u == r[o]  v == r[c]
  <2>1. /\ x \in Int /\ y \in Int /\ u \in Int /\ v \in Int
        /\ u - (x - shift) \in -within..within /\ v - (y - shift) \in -within..within
    BY <1>1
  <2> HIDE DEF x, y, u, v
  <2>2. (x + 2 * within < y => u < v) /\ (u < v => x + (-(2 * within)) < y)
    BY <1>1, <2>1
  <2> QED
    BY <2>2 DEF x, y, u, v
<1>3. c \notin less
  BY <1>1
<1>4. surely \subseteq less
  BY <1>2
<1>5. less \subseteq maybe
  BY <1>2, <1>3
<1>6. IsFiniteSet(0..n - 1)
  BY <1>1, FS_Interval
<1>7. less \subseteq 0..n - 1 /\ maybe \subseteq 0..n - 1
  OBVIOUS
<1>8. /\ DarkerBy(sums, n, c, 2 * within) = Cardinality(surely)
      /\ DarkerBy(sums, n, c, -(2 * within)) = Cardinality(maybe)
      /\ Darker(r, 0..n - 1, c) = Cardinality(less)
  BY DEF DarkerBy, Darker
<1> HIDE DEF surely, less, maybe
<1>9. IsFiniteSet(surely) /\ IsFiniteSet(less) /\ IsFiniteSet(maybe)
  BY <1>4, <1>6, <1>7, FS_Subset
<1>10. Cardinality(surely) <= Cardinality(less) /\ Cardinality(less) <= Cardinality(maybe)
  BY <1>4, <1>5, <1>9, FS_Subset
<1> QED
  BY <1>8, <1>9, <1>10, FS_CardinalityType

\* At most half are above the median.
LEMMA HalfAtMost ==
    ASSUME NEW n \in 1..64, NEW values \in [0..n - 1 -> Int]
    PROVE  2 * Cardinality(MedianBits(values, n, 0, 0)) <= n
<1> DEFINE given == [values |-> values, n |-> n, from |-> 0, margin |-> 0]
           answer == MedianBits(values, n, 0, 0)
<1>1. IsMedianCall(values, n, 0) /\ 0 \in Nat
  BY DEF IsMedianCall
<1>2. MedianAsDefined(given, answer)
  BY <1>1, MedianIsDefined
<1>3. given.from = 0 /\ given.n = n
  OBVIOUS
<1>4. answer \subseteq 0..n - 1
  BY DEF MedianBits
<1> HIDE DEF given, answer
<1>5. 2 * Cardinality(answer \cap 0..n - 1) <= n - 0
  <2>1. ~(0 >= n)
    OBVIOUS
  <2> QED
    BY <1>2, <1>3, <2>1 DEF MedianAsDefined
<1>6. answer \cap 0..n - 1 = answer
  BY <1>4
<1>7. n - 0 = n
  OBVIOUS
<1>8. 2 * Cardinality(answer) <= n
  BY ONLY <1>5, <1>6, <1>7
<1> QED
  BY <1>8 DEF answer

\* The sum of a square is that of its contents.
LEMMA SquareFromCorner ==
    ASSUME NEW size \in Nat \ {0}, NEW samples \in Image(size), NEW t \in Nat \ {0}, HashSize * t = size,
           NEW c \in 0..HashSize * HashSize - 1
    PROVE  SquareSum(samples, size, t, c \div HashSize, c % HashSize) = Sums(SquareAt(samples, t, c))[Places(t)]
<1> DEFINE H == HashSize
           i == c \div H
           j == c % H
           at(q) == <<i * t + q[1], j * t + q[2]>>
           turn == [q \in Places(t) |-> at(q)]
           h == SquareAt(samples, t, c)
<1>1. H \in Nat \ {0} /\ H * t = size
  BY HashSizeIsPower
<1>2. i \in 0..H - 1 /\ j \in 0..H - 1
  <2> HIDE DEF H
  <2>1. c \in Nat /\ c < H * H
    <3>1. H * H \in Nat
      BY <1>1
    <3> QED
      BY <3>1 DEF H
  <2>2. c \div H \in Nat /\ c \div H < H
    BY <1>1, <2>1, BelowProduct
  <2> QED
    BY <1>1, <2>1, <2>2
<1>3. h = [q \in Places(t) |-> samples[at(q)]]
  BY DEF SquareAt, Places
<1> HIDE DEF H, i, j, h
<1>4. ASSUME NEW e \in 0..H - 1, NEW x \in 0..t - 1
      PROVE  e * t + x \in 0..size - 1 /\ (e * t + x) \div t = e
  <2>1. e \in Nat
    BY <1>1
  <2>2. e * t + x \in 0..H * t - 1
    BY <1>1, <2>1, PlaceWithin
  <2>3. (e * t + x) \div t = e
    BY <2>1, PlaceOf
  <2> QED
    BY <1>1, <2>2, <2>3
<1>5. ASSUME NEW q \in Places(t)
      PROVE  at(q) \in Places(size) /\ at(q) \in Square(size, t, i, j)
  <2>1. q[1] \in 0..t - 1 /\ q[2] \in 0..t - 1
    BY DEF Places
  <2>2. /\ i * t + q[1] \in 0..size - 1 /\ (i * t + q[1]) \div t = i
        /\ j * t + q[2] \in 0..size - 1 /\ (j * t + q[2]) \div t = j
    BY <1>2, <1>4, <2>1
  <2>3. at(q) \in Places(size)
    BY <2>2 DEF Places
  <2> QED
    BY <2>2, <2>3 DEF Square
<1>6. ASSUME NEW p \in Square(size, t, i, j) PROVE \E q \in Places(t) : p = at(q)
  <2>1. p \in Places(size) /\ p[1] \div t = i /\ p[2] \div t = j
    BY DEF Square
  <2>2. p[1] \in Nat /\ p[2] \in Nat /\ p = <<p[1], p[2]>>
    BY <2>1 DEF Places
  <2>3. /\ p[1] = t * i + (p[1] % t) /\ p[1] % t \in 0..t - 1
        /\ p[2] = t * j + (p[2] % t) /\ p[2] % t \in 0..t - 1
    BY <2>1, <2>2, Division
  <2> DEFINE q == <<p[1] % t, p[2] % t>>
  <2>4. q \in Places(t) /\ q[1] = p[1] % t /\ q[2] = p[2] % t
    BY <2>3 DEF Places
  <2>5. t * i = i * t /\ t * j = j * t
    BY <1>1, <1>2
  <2> HIDE DEF q
  <2>6. p = at(q)
    BY <2>2, <2>3, <2>4, <2>5
  <2> QED
    BY <2>4, <2>6
<1>7. ASSUME NEW p \in Places(t), NEW q \in Places(t), at(p) = at(q) PROVE p = q
  <2>1. /\ p[1] \in Int /\ p[2] \in Int /\ q[1] \in Int /\ q[2] \in Int
        /\ p = <<p[1], p[2]>> /\ q = <<q[1], q[2]>>
    BY DEF Places
  <2>2. i * t \in Int /\ j * t \in Int
    BY <1>1, <1>2
  <2> DEFINE y == i * t  z == j * t
  <2>3. y + p[1] = y + q[1] /\ z + p[2] = z + q[2]
    BY <1>7
  <2> HIDE DEF y, z
  <2>4. p[1] = q[1] /\ p[2] = q[2]
    BY <2>1, <2>2, <2>3 DEF y, z
  <2> QED
    BY <2>1, <2>4
<1>8. Summable(samples, Places(size)) /\ IsFiniteSet(Places(t))
  <2>1. IsFiniteSet(0..t - 1)
    BY FS_Interval
  <2> QED
    BY <2>1, SquaresFinite, FS_Product DEF Places
<1>9. turn \in [Places(t) -> Places(size)] /\ \A q \in Places(t) : turn[q] = at(q)
  BY <1>5
<1>10. h \in [Places(t) -> Int] /\ \A q \in Places(t) : h[q] = samples[at(q)]
  BY <1>3, <1>5 DEF Image
<1>11. {turn[q] : q \in Places(t)} = Square(size, t, i, j)
  BY <1>5, <1>6, <1>9
<1>12. Carries(turn, Places(t), Places(size), samples, h)
  <2> HIDE DEF turn, at
  <2> QED
    BY <1>7, <1>8, <1>9, <1>10 DEF Carries, Summable, Image
<1> HIDE DEF turn, at
<1>13. Sums(h)[Places(t)] = Sums(samples)[{turn[q] : q \in Places(t)}]
  <2>1. Places(t) \in SUBSET Places(t)
    OBVIOUS
  <2> QED
    BY ONLY <1>12, <2>1, Carried
<1> QED
  BY <1>11, <1>13 DEF SquareSum, h, i, j, H

\* What WhashAsDefined says, in the names above.
GivenSums(given) ==
    LET k == given.size \div HashSize IN
    [c \in 0..HashSize * HashSize - 1 |->
        given.size * HashSize * SumOf(given.samples, {p \in DOMAIN given.samples : p[1] \div k = c \div HashSize
                                                                                 /\ p[2] \div k = c % HashSize})]

RanksRight(sums, n, within, answer) ==
    /\ \A c \in 0..n - 1 : /\ 2 * DarkerBy(sums, n, c, 2 * within) >= n => c \in answer
                           /\ c \in answer => 2 * DarkerBy(sums, n, c, -(2 * within)) >= n
    /\ 2 * Cardinality(answer) <= n

AlikeTogether(samples, k, n, answer) ==
    \A c, d \in 0..n - 1 : SquareAt(samples, k, c) = SquareAt(samples, k, d) => (c \in answer <=> d \in answer)

LEMMA WhashSays ==
    ASSUME NEW given, NEW answer
    PROVE  WhashAsDefined(given, answer) <=>
              /\ RanksRight(GivenSums(given), HashSize * HashSize, given.within, answer)
              /\ ~given.remove \/ Even(given.samples) =>
                    AlikeTogether(given.samples, given.size \div HashSize, HashSize * HashSize, answer)
              /\ given.mode = "full" => (given.size > HashSize => given.size <= given.min_dim)
                                          /\ 2 * given.size > given.min_dim
  BY DEF WhashAsDefined, GivenSums, RanksRight, DarkerBy, AlikeTogether

\* wHash, whichever the mode, with the coarsest coefficient removed or not, and whatever
\* rounding adds to the band.
LEMMA WhashIsDefined ==
    ASSUME NEW mode \in {"fast", "full"}, NEW remove \in BOOLEAN, NEW min_dim \in Nat \ {0},
           NEW samples \in Image(WhashSize(mode, min_dim)), NEW within \in Nat,
           NEW answer \in Whash(mode, remove, samples, WhashSize(mode, min_dim), within)
    PROVE  WhashAsDefined([size |-> WhashSize(mode, min_dim), min_dim |-> min_dim, mode |-> mode, remove |-> remove,
                           samples |-> samples, within |-> within], answer)
<1> DEFINE size == WhashSize(mode, min_dim)
           H == HashSize
           n == H * H
           exact == [p \in DOMAIN samples |-> samples[p] * size * size]
           d == IF remove THEN RemoveMaxLL(exact, size) ELSE exact
           band == Band(mode, d, size)
           given == [size |-> size, min_dim |-> min_dim, mode |-> mode, remove |-> remove,
                     samples |-> samples, within |-> within]
           k == size \div H
           errors == Roundings(remove, samples, k, within)
           square(c) == {p \in DOMAIN samples : p[1] \div k = c \div H /\ p[2] \div k = c % H}
           sums == [c \in 0..n - 1 |-> size * H * SumOf(samples, square(c))]
<1>1. PICK error \in errors : answer = MedianBits([c \in DOMAIN band |-> band[c] + error[c]], n, 0, 0)
  <2> DEFINE hash(made, e) == MedianBits([c \in DOMAIN made |-> made[c] + e[c]], n, 0, 0)
  <2>1. Whash(mode, remove, samples, size, within) = {hash(made, e) : made \in {band}, e \in errors}
    BY DEF Whash
  <2>2. answer \in Whash(mode, remove, samples, size, within)
    OBVIOUS
  <2> HIDE DEF hash, band, errors, size
  <2>3. \E e \in errors : answer = hash(band, e)
    BY ONLY <2>1, <2>2
  <2> QED
    BY <2>3 DEF hash
<1>2. /\ PowerOfTwo(size) /\ size >= H
      /\ mode = "full" => (size > H => size <= min_dim) /\ 2 * size > min_dim
  <2> DEFINE sz == size
  <2>1. sz = WhashSize(mode, min_dim)
    OBVIOUS
  <2> HIDE DEF sz
  <2>2. /\ PowerOfTwo(sz) /\ sz >= HashSize
        /\ mode = "full" => (sz > HashSize => sz <= min_dim) /\ 2 * sz > min_dim
    BY <2>1, WhashSizeIs
  <2> QED
    BY <2>2 DEF sz
<1>3. size \in Nat \ {0} /\ H \in Nat \ {0} /\ n \in 1..64
  <2>1. H * H \in {1, 4, 16, 64} /\ H \in Nat \ {0}
    BY HashSizeIsPower
  <2>2. n \in 1..64
    BY <2>1
  <2> QED
    BY <1>2, <2>1, <2>2, PowerIsPositive
<1>4. samples \in Image(size) /\ DOMAIN samples = Places(size)
  BY DEF Image
<1>5. size = WhashSize(mode, min_dim)
  OBVIOUS
<1> HIDE DEF size
<1>6. PICK u \in Int : Starts(d, samples, size, u)
  BY <1>2, <1>4, ImageStarts
<1> HIDE DEF d
<1>7. PICK t \in Nat \ {0} : /\ HashSize * t = size
                             /\ \A c \in 0..HashSize * HashSize - 1 :
                                   Band(mode, d, size)[c] =
                                      (size * HashSize) * SquareSum(samples, size, t, c \div HashSize, c % HashSize) - u * t
  BY <1>4, <1>5, <1>6, BandIs
<1>8. k = t
  <2>1. H * t = size
    BY <1>7
  <2> HIDE DEF H
  <2>2. size = t * H /\ t * H <= size /\ size < t * H + H
    BY <1>3, <2>1
  <2>3. size \div H = t <=> (t * H <= size /\ size < t * H + H)
    BY ONLY <1>3, QuotientIs, t \in Nat \ {0}
  <2> QED
    BY <2>2, <2>3
<1> DEFINE total(c) == SquareSum(samples, size, t, c \div H, c % H)
           b == u * t
<1>9. ASSUME NEW c \in 0..n - 1
      PROVE  sums[c] = (size * H) * total(c) /\ sums[c] \in Int /\ band[c] = sums[c] - b
  <2>1. square(c) = Square(size, t, c \div H, c % H)
    BY <1>4, <1>8 DEF Square
  <2>2. Summable(samples, Places(size)) /\ square(c) \in SUBSET Places(size)
    BY <1>3, <1>4, SquaresFinite
  <2>3. SumOf(samples, square(c)) = Sums(samples)[square(c)]
    BY <2>2, SumOfIs
  <2>4. SumOf(samples, square(c)) = total(c)
    BY <2>1, <2>3 DEF SquareSum
  <2>5. total(c) \in Int
    BY <1>3, <1>4, SquareSumIsInt
  <2>6. band[c] = (size * H) * total(c) - b
    BY <1>7
  <2>7. sums[c] = (size * H) * SumOf(samples, square(c))
    OBVIOUS
  <2> HIDE DEF H, total, sums, band
  <2>8. (size * H) * total(c) \in Int
    BY <1>3, <2>5
  <2> QED
    BY <2>4, <2>6, <2>7, <2>8
<1>10. b \in Int
  OBVIOUS
<1>11. DOMAIN band = 0..n - 1
  BY DEF Band
<1>12. /\ error \in [0..n - 1 -> -within..within]
       /\ ~remove \/ Even(samples) =>
             \A c, e \in 0..n - 1 : SquareAt(samples, k, c) = SquareAt(samples, k, e) => error[c] = error[e]
  BY <1>1 DEF Roundings
<1> DEFINE r == [c \in DOMAIN band |-> band[c] + error[c]]
<1>13. answer = MedianBits(r, n, 0, 0)
  BY <1>1
<1>14. \A c \in 0..n - 1 : r[c] = band[c] + error[c]
  BY <1>11
<1>15. r = [c \in 0..n - 1 |-> r[c]]
  BY <1>11
<1>16. sums = [c \in 0..n - 1 |-> sums[c]]
  OBVIOUS
<1>17. ASSUME NEW c \in 0..n - 1, NEW e \in 0..n - 1, SquareAt(samples, k, c) = SquareAt(samples, k, e)
       PROVE  sums[c] = sums[e]
  <2>1. total(c) = Sums(SquareAt(samples, t, c))[Places(t)]
    BY <1>3, <1>4, <1>7, SquareFromCorner
  <2>2. total(e) = Sums(SquareAt(samples, t, e))[Places(t)]
    BY <1>3, <1>4, <1>7, SquareFromCorner
  <2>3. total(c) = total(e)
    BY <1>8, <1>17, <2>1, <2>2
  <2> HIDE DEF total, sums, H
  <2> QED
    BY <1>9, <2>3
<1>18. \A c \in 0..n - 1 : /\ error[c] \in Int /\ -within <= error[c] /\ error[c] <= within
                          /\ sums[c] \in Int /\ band[c] = sums[c] - b
  BY <1>9, <1>12
<1> HIDE DEF b, sums, band, r, k
<1>19. ASSUME NEW c \in 0..n - 1 PROVE r[c] \in Int /\ r[c] - (sums[c] - b) \in -within..within
  <2> DEFINE x == sums[c]  y == error[c]  z == r[c]
  <2>1. x \in Int /\ y \in Int /\ -within <= y /\ y <= within /\ z = (x - b) + y
    BY <1>14, <1>18
  <2> HIDE DEF x, y, z
  <2>2. z \in Int /\ z - (x - b) \in -within..within
    BY <1>10, <2>1
  <2> QED
    BY <2>2 DEF x, z
<1>20. r \in [0..n - 1 -> Int] /\ sums \in [0..n - 1 -> Int]
  BY <1>15, <1>16, <1>18, <1>19
<1>21. Rounded(r, sums, n, b, within)
  BY <1>3, <1>10, <1>19, <1>20 DEF Rounded
<1> HIDE DEF n
<1>22. \A c \in 0..n - 1 : c \in answer <=> 2 * Darker(r, 0..n - 1, c) >= n
  BY <1>3, <1>13, <1>20, BitsByRank
<1>23. RanksRight(sums, n, within, answer)
  <2>1. ASSUME NEW c \in 0..n - 1
        PROVE  /\ 2 * DarkerBy(sums, n, c, 2 * within) >= n => c \in answer
               /\ c \in answer => 2 * DarkerBy(sums, n, c, -(2 * within)) >= n
    <3> DEFINE x == DarkerBy(sums, n, c, 2 * within)  y == Darker(r, 0..n - 1, c)
               z == DarkerBy(sums, n, c, -(2 * within))
    <3>1. x <= y /\ y <= z /\ x \in Nat /\ y \in Nat /\ z \in Nat
      BY <1>21, RoundedRanks
    <3>2. c \in answer <=> 2 * y >= n
      BY <1>22
    <3> HIDE DEF x, y, z
    <3>3. (2 * x >= n => c \in answer) /\ (c \in answer => 2 * z >= n)
      BY <1>3, <3>1, <3>2
    <3> QED
      BY <3>3 DEF x, z
  <2>2. 2 * Cardinality(answer) <= n
    BY <1>3, <1>13, <1>20, HalfAtMost
  <2> QED
    BY <2>1, <2>2 DEF RanksRight
<1>24. ~remove \/ Even(samples) => AlikeTogether(samples, k, n, answer)
  <2> SUFFICES ASSUME ~remove \/ Even(samples), NEW c \in 0..n - 1, NEW e \in 0..n - 1,
                      SquareAt(samples, k, c) = SquareAt(samples, k, e)
               PROVE  c \in answer <=> e \in answer
    BY DEF AlikeTogether
  <2>1. error[c] = error[e] /\ sums[c] = sums[e]
    BY <1>12, <1>17
  <2>2. r[c] = r[e]
    BY <1>14, <1>18, <2>1
  <2>3. Darker(r, 0..n - 1, c) = Darker(r, 0..n - 1, e)
    BY <2>2 DEF Darker
  <2> QED
    BY <1>22, <2>3
<1>25. /\ given.size = size /\ given.min_dim = min_dim /\ given.mode = mode /\ given.remove = remove
       /\ given.samples = samples /\ given.within = within
  OBVIOUS
<1>26. sums = [c \in 0..HashSize * HashSize - 1 |->
                 size * HashSize * SumOf(samples, {p \in DOMAIN samples : p[1] \div (size \div HashSize) = c \div HashSize
                                                              /\ p[2] \div (size \div HashSize) = c % HashSize})]
  BY DEF sums, n, k
<1> HIDE DEF given
<1>27. GivenSums(given) = sums
  BY <1>25, <1>26 DEF GivenSums
<1>28. WhashAsDefined(given, answer)
  BY <1>2, <1>23, <1>24, <1>25, <1>27, WhashSays DEF n, k
<1> QED
  BY <1>28 DEF given, size

\* One call after another: a sample is a byte, a mean or a sum of some, so any integer; the
\* histogram of BMH is of bytes, and the threshold is over at most 64 values.  Floats round,
\* by whatever bound.
HashNext ==
    \/ \E n \in Nat \ {0} : \E samples \in [0..n - 1 -> Int] : ComputeAHash(samples)
    \/ \E grid \in [(0..HashSize) \X (0..HashSize - 1) -> Int] : ComputeDHash(grid)
    \/ \E grid \in [MhGrid -> Int], within \in Nat \ {0} : ComputeMhash(grid, FitSide, within)
    \/ \E n \in Nat \ {0} : \E samples \in [0..n - 1 -> 0..255] : ComputeBmh(samples)
    \/ \E n \in 0..64, from, margin \in Nat : \E values \in [0..n - 1 -> Int] : PackMedian(values, n, from, margin)
    \/ \E mode \in {"fast", "full"}, remove \in BOOLEAN, min_dim, within \in Nat \ {0} :
          \E samples \in Image(WhashSize(mode, min_dim)) : ComputeWhash(mode, remove, min_dim, samples, within)
    \/ Forget

HashSpec == call = NoCall /\ [][HashNext]_call

LEMMA NothingIsDefined ==
    ASSUME NEW values, NEW n \in 0..64, NEW from \in Nat, from >= n, NEW margin \in Nat
    PROVE  MedianAsDefined([values |-> values, n |-> n, from |-> from, margin |-> margin],
                           MedianBits(values, n, from, margin))
<1> DEFINE given == [values |-> values, n |-> n, from |-> from, margin |-> margin]
           answer == MedianBits(values, n, from, margin)
<1>1. answer = {}
  BY DEF MedianBits
<1>2. given.from = from /\ given.n = n
  OBVIOUS
<1> HIDE DEF given, answer
<1>3. MedianAsDefined(given, answer)
  BY <1>1, <1>2 DEF MedianAsDefined
<1> QED
  BY <1>3 DEF given, answer

\* The six algorithms, each as its call is made.
LEMMA AHashCall ==
    ASSUME NEW n \in Nat \ {0}, NEW samples \in [0..n - 1 -> Int]
    PROVE  AHashAsDefined(samples, AHash(samples))
<1>1. IsFiniteSet(0..n - 1)
  BY FS_Interval
<1> QED
  BY <1>1, AHashIsDefined DEF Summable

LEMMA BmhCall ==
    ASSUME NEW n \in Nat \ {0}, NEW samples \in [0..n - 1 -> 0..255]
    PROVE  BmhAsDefined(samples, Bmh(samples))
<1>1. IsFiniteSet(0..n - 1) /\ 0 \in 0..n - 1 /\ DOMAIN samples = 0..n - 1
  BY FS_Interval
<1>2. AreBytes(samples)
  BY <1>1 DEF AreBytes
<1> QED
  BY <1>2, BmhIsDefined

LEMMA MedianCall ==
    ASSUME NEW n \in 0..64, NEW from \in Nat, NEW margin \in Nat, NEW values \in [0..n - 1 -> Int]
    PROVE  MedianAsDefined([values |-> values, n |-> n, from |-> from, margin |-> margin],
                           MedianBits(values, n, from, margin))
<1>1. CASE from >= n
  BY <1>1, NothingIsDefined
<1>2. CASE ~(from >= n)
  <2>1. IsMedianCall(values, n, from)
    BY <1>2 DEF IsMedianCall
  <2> QED
    BY <2>1, MedianIsDefined
<1> QED
  BY <1>1, <1>2

\* What one call leaves behind.
LEMMA OneKind ==
    ASSUME NEW what, NEW given, NEW answer, call' = [what |-> what, given |-> given, answer |-> answer],
           what = "ahash"  => AHashAsDefined(given, answer),
           what = "dhash"  => DHashAsDefined(given, answer),
           what = "mhash"  => MhashAsDefined(given, answer),
           what = "bmh"    => BmhAsDefined(given, answer),
           what = "median" => MedianAsDefined(given, answer),
           what = "whash"  => WhashAsDefined(given, answer)
    PROVE  HashesAsDefined'
<1>1. call'.what = what /\ call'.given = given /\ call'.answer = answer
  OBVIOUS
<1> QED
  BY <1>1 DEF HashesAsDefined

\* Whatever the grids, the images and their sides, whatever wHash's mode, and whatever
\* rounding adds to the coefficients of wHash and the means of mHash, up to any bound: every
\* hash has the bits its definition gives it (src/src/hashes/), and those of wHash and mHash
\* that are closer to their threshold than the bound are left to rounding.  The mean of
\* aHash is not rounded, the insertion sort finds the median, mHash's bits are in the order
\* of the digest and those of a window are cut at one value, and wHash's levels, made in
\* place or with the coarsest coefficient removed and put back, rank the squares of the
\* image by their sums; squares that are alike have the same bit, unless an image that is
\* not even goes through all levels.
THEOREM HashesAlwaysAsDefined == HashSpec => []HashesAsDefined
<1>1. call = NoCall => HashesAsDefined
  BY DEF NoCall, HashesAsDefined
<1>2. HashesAsDefined /\ [HashNext]_call => HashesAsDefined'
  <2> SUFFICES ASSUME HashesAsDefined, [HashNext]_call PROVE HashesAsDefined'
    OBVIOUS
  <2>1. ASSUME NEW n \in Nat \ {0}, NEW samples \in [0..n - 1 -> Int], ComputeAHash(samples)
        PROVE  HashesAsDefined'
    <3>1. call' = [what |-> "ahash", given |-> samples, answer |-> AHash(samples)]
      BY <2>1 DEF ComputeAHash, Answer
    <3>2. AHashAsDefined(samples, AHash(samples))
      BY AHashCall
    <3> QED
      BY <3>1, <3>2, OneKind
  <2>2. ASSUME NEW grid \in [(0..HashSize) \X (0..HashSize - 1) -> Int], ComputeDHash(grid)
        PROVE  HashesAsDefined'
    <3> DEFINE samples == [k \in 0..(HashSize + 1) * HashSize - 1 |-> grid[<<k % (HashSize + 1), k \div (HashSize + 1)>>]]
    <3>1. call' = [what |-> "dhash", given |-> grid, answer |-> DHash(samples)]
      BY <2>2 DEF ComputeDHash, Answer
    <3>2. DHashAsDefined(grid, DHash(samples))
      BY DHashIsDefined
    <3> HIDE DEF samples
    <3> QED
      BY <3>1, <3>2, OneKind
  <2>3. ASSUME NEW grid \in [MhGrid -> Int], NEW within \in Nat \ {0}, ComputeMhash(grid, FitSide, within)
        PROVE  HashesAsDefined'
    <3> DEFINE given == [grid |-> grid, side |-> FitSide, within |-> within]
    <3>1. PICK off \in [Windows -> -within..within] :
             call' = [what |-> "mhash", given |-> given, answer |-> Mhash(InRows(grid), FitSide, off)]
      BY <2>3 DEF ComputeMhash, Answer, InRows
    <3>2. MhashAsDefined(given, Mhash(InRows(grid), FitSide, off))
      BY MhashIsDefined
    <3> HIDE DEF given
    <3> QED
      BY <3>1, <3>2, OneKind
  <2>4. ASSUME NEW n \in Nat \ {0}, NEW samples \in [0..n - 1 -> 0..255], ComputeBmh(samples)
        PROVE  HashesAsDefined'
    <3>1. call' = [what |-> "bmh", given |-> samples, answer |-> Bmh(samples)]
      BY <2>4 DEF ComputeBmh, Answer
    <3>2. BmhAsDefined(samples, Bmh(samples))
      BY BmhCall
    <3> QED
      BY <3>1, <3>2, OneKind
  <2>5. ASSUME NEW n \in 0..64, NEW from \in Nat, NEW margin \in Nat, NEW values \in [0..n - 1 -> Int],
               PackMedian(values, n, from, margin)
        PROVE  HashesAsDefined'
    <3> DEFINE given == [values |-> values, n |-> n, from |-> from, margin |-> margin]
               answer == MedianBits(values, n, from, margin)
    <3>1. call' = [what |-> "median", given |-> given, answer |-> answer]
      BY <2>5 DEF PackMedian, Answer
    <3>2. MedianAsDefined(given, answer)
      BY MedianCall
    <3> HIDE DEF given, answer
    <3> QED
      BY <3>1, <3>2, OneKind
  <2>6. ASSUME NEW mode \in {"fast", "full"}, NEW remove \in BOOLEAN, NEW min_dim \in Nat \ {0},
               NEW within \in Nat \ {0}, NEW samples \in Image(WhashSize(mode, min_dim)),
               ComputeWhash(mode, remove, min_dim, samples, within)
        PROVE  HashesAsDefined'
    <3> DEFINE given == [size |-> WhashSize(mode, min_dim), min_dim |-> min_dim, mode |-> mode, remove |-> remove,
                         samples |-> samples, within |-> within]
    <3>1. PICK answer \in Whash(mode, remove, samples, WhashSize(mode, min_dim), within) :
             call' = [what |-> "whash", given |-> given, answer |-> answer]
      BY <2>6 DEF ComputeWhash, Answer
    <3>2. WhashAsDefined(given, answer)
      BY WhashIsDefined
    <3> HIDE DEF given
    <3> QED
      BY <3>1, <3>2, OneKind
  <2>7. CASE Forget
    BY <2>7 DEF Forget, NoCall, HashesAsDefined
  <2>8. CASE UNCHANGED call
    BY <2>8 DEF HashesAsDefined
  <2> QED
    BY <2>1, <2>2, <2>3, <2>4, <2>5, <2>6, <2>7, <2>8 DEF HashNext
<1> QED
  BY <1>1, <1>2, PTL DEF HashSpec
=============================================================================
