------------------------------ MODULE Recursion ------------------------------
(***************************************************************************)
(* Induction and recursion in a form that names sets and functions only:    *)
(* that what a recursive definition f[x \in D] == e says of its values is   *)
(* true, because such a function exists.  A definition is one of these      *)
(* functions, one step of it a function of the functions so far.  Then what *)
(* the models' arithmetic needs: quotients and remainders; the sums of the  *)
(* community modules over finite sets, step by step, by parts and compared; *)
(* and sums over pairs, by rows and by columns.                             *)
(***************************************************************************)
EXTENDS Integers, WellFoundedInduction, TLAPS, FiniteSetTheorems

\* Every set of natural numbers has a least one.
LEMMA LessIsWellFounded ==
    \E R : IsWellFoundedOn(R, Nat) /\ \A x, y \in Nat : x < y => <<x, y>> \in R
<1>1. \A x, y \in Nat : x < y => <<x, y>> \in OpToRel(<, Nat)
  BY DEF OpToRel
<1> QED
  BY <1>1, NatLessThanWellFounded, Zenon

LEMMA LeastOne ==
    ASSUME NEW T, T \subseteq Nat, T # {}
    PROVE  \E x \in T : \A y \in T : x <= y
<1>1. PICK R : IsWellFoundedOn(R, Nat) /\ \A x, y \in Nat : x < y => <<x, y>> \in R
  BY LessIsWellFounded
<1>2. IsWellFoundedOn(R, Nat)
  BY <1>1
<1>3. \E x \in T : \A y \in T : ~(<<y, x>> \in R)
  BY ONLY <1>2, WFMin, T \subseteq Nat, T # {}
<1>4. PICK x \in T : \A y \in T : ~(<<y, x>> \in R)
  BY <1>3
<1>5. \A y \in T : ~(y < x) /\ x \in Nat /\ y \in Nat
  BY <1>1, <1>4
<1>6. \A y \in T : x <= y
  BY <1>5
<1> QED
  BY <1>6

\* Induction over the elements of a set by a measure: what holds of x if it holds of all
\* that measure less, holds of all.
LEMMA Inductively ==
    ASSUME NEW D, NEW m \in [D -> Nat], NEW S,
           \A x \in D : (\A y \in D : m[y] < m[x] => y \in S) => x \in S
    PROVE  \A x \in D : x \in S
<1> SUFFICES ASSUME NEW z \in D, z \notin S PROVE FALSE
  OBVIOUS
<1> DEFINE T == {m[x] : x \in {y \in D : y \notin S}}
<1>1. T \subseteq Nat /\ T # {}
  OBVIOUS
<1>2. PICK k \in T : \A l \in T : k <= l
  BY <1>1, LeastOne
<1>3. PICK x \in D : x \notin S /\ k = m[x]
  BY <1>2
<1>4. ASSUME NEW y \in D, m[y] < m[x] PROVE y \in S
  <2>1. y \notin S => m[y] \in T
    OBVIOUS
  <2>2. m[y] \in T => m[x] <= m[y]
    BY <1>2, <1>3
  <2>3. m[x] \in Nat /\ m[y] \in Nat
    OBVIOUS
  <2> QED
    BY <1>4, <2>1, <2>2, <2>3
<1> QED
  BY <1>3, <1>4

\* A recursive definition of functions from D to V: the value at x, which step[x] computes
\* from a function, takes only its values at what measures less.
Recursive(D, V, m, step) ==
    /\ V # {} /\ step \in [D -> [[D -> V] -> V]]
    /\ \A x \in D : \A g, h \in [D -> V] :
          (\A y \in D : m[y] < m[x] => g[y] = h[y]) => step[x][g] = step[x][h]

LEMMA RecursionExists ==
    ASSUME NEW D, NEW V, NEW top \in Nat, NEW m \in [D -> 0..top], NEW step, Recursive(D, V, m, step)
    PROVE  \E f \in [D -> V] : f = [x \in D |-> step[x][f]]
<1> USE DEF Recursive
<1> DEFINE S == {k \in 0..top + 1 : \E f \in [D -> V] : \A x \in D : m[x] < k => f[x] = step[x][f]}
<1>1. 0 \in S
  <2>1. PICK v \in V : TRUE
    OBVIOUS
  <2> DEFINE g == [x \in D |-> v]
  <2>2. g \in [D -> V] /\ \A x \in D : ~(m[x] < 0)
    OBVIOUS
  <2> HIDE DEF g
  <2> QED
    BY <2>2
<1>2. ASSUME NEW k \in 0..top, k \in S PROVE k + 1 \in S
  <2>1. PICK f \in [D -> V] : \A x \in D : m[x] < k => f[x] = step[x][f]
    BY <1>2
  <2> DEFINE g == [x \in D |-> step[x][f]]
  <2>2. g \in [D -> V]
    OBVIOUS
  <2>3. ASSUME NEW x \in D, m[x] < k + 1 PROVE g[x] = step[x][g]
    <3>1. \A y \in D : m[y] < m[x] => f[y] = g[y]
      <4>1. \A y \in D : m[y] < m[x] => m[y] < k
        <5>1. \A y \in D : m[y] \in Nat
          OBVIOUS
        <5> QED
          BY <5>1, <2>3
      <4> QED
        BY <2>1, <4>1
    <3> HIDE DEF g
    <3>2. step[x][f] = step[x][g]
      BY <2>2, <3>1
    <3> QED
      BY <3>2 DEF g
  <2> HIDE DEF g
  <2> QED
    BY <2>2, <2>3
<1> HIDE DEF S
<1>3. \A k \in 0..top + 1 : k \in S
  <2> DEFINE D2 == 0..top + 1  m2 == [k \in D2 |-> k]
  <2>1. m2 \in [D2 -> Nat]
    OBVIOUS
  <2>2. ASSUME NEW k \in D2, \A j \in D2 : m2[j] < m2[k] => j \in S PROVE k \in S
    <3>1. CASE k = 0
      BY <1>1, <3>1
    <3>2. CASE k # 0
      <4>1. k - 1 \in D2 /\ m2[k - 1] < m2[k] /\ k - 1 \in 0..top /\ (k - 1) + 1 = k
        BY <3>2
      <4> QED
        BY <1>2, <2>2, <4>1
    <3> QED
      BY <3>1, <3>2
  <2> HIDE DEF D2, m2
  <2>3. \A k \in D2 : k \in S
    BY <2>1, <2>2, Inductively
  <2> QED
    BY <2>3 DEF D2
<1>4. top + 1 \in S
  BY <1>3
<1>5. PICK f \in [D -> V] : \A x \in D : m[x] < top + 1 => f[x] = step[x][f]
  BY <1>4 DEF S
<1>6. \A x \in D : m[x] < top + 1
  OBVIOUS
<1>7. f = [x \in D |-> step[x][f]]
  BY <1>5, <1>6
<1> QED
  BY <1>7

\* A loop that makes a value of the one before it, some number of times.
Loop(count, V, start, step) == count \in Nat /\ start \in V /\ step \in [1..count -> [V -> V]]

LEMMA LoopExists ==
    ASSUME NEW count, NEW V, NEW start, NEW step, Loop(count, V, start, step)
    PROVE  \E f \in [0..count -> V] :
              f = [k \in 0..count |-> IF k = 0 THEN start ELSE step[k][f[k - 1]]]
<1> DEFINE D == 0..count
     m == [k \in D |-> k]
     body == [k \in D |-> [f \in [D -> V] |-> IF k = 0 THEN start ELSE step[k][f[k - 1]]]]
<1>0. count \in Nat /\ start \in V /\ step \in [1..count -> [V -> V]]
  BY DEF Loop
<1>1. m \in [D -> 0..count]
  OBVIOUS
<1>2. \A k \in D : k # 0 => k \in 1..count /\ k - 1 \in D /\ m[k - 1] < m[k]
  BY <1>0
<1>3. body \in [D -> [[D -> V] -> V]]
  <2> SUFFICES ASSUME NEW k \in D, NEW f \in [D -> V]
               PROVE  (IF k = 0 THEN start ELSE step[k][f[k - 1]]) \in V
    OBVIOUS
  <2> QED
    BY <1>0, <1>2
<1>4. \A k \in D : \A f, g \in [D -> V] :
         (\A j \in D : m[j] < m[k] => f[j] = g[j]) => body[k][f] = body[k][g]
  <2> SUFFICES ASSUME NEW k \in D, NEW f \in [D -> V], NEW g \in [D -> V],
                      \A j \in D : m[j] < m[k] => f[j] = g[j]
               PROVE  body[k][f] = body[k][g]
    OBVIOUS
  <2>1. k # 0 => f[k - 1] = g[k - 1]
    BY <1>2
  <2> HIDE DEF D, m
  <2> QED
    BY <2>1
<1>5. Recursive(D, V, m, body)
  <2> HIDE DEF D, m, body
  <2> QED
    BY <1>0, <1>3, <1>4 DEF Recursive
<1>6. PICK f \in [D -> V] : f = [k \in D |-> body[k][f]]
  <2> HIDE DEF D, m, body
  <2> QED
    BY <1>0, <1>1, <1>5, RecursionExists
<1>7. \A k \in D : body[k][f] = IF k = 0 THEN start ELSE step[k][f[k - 1]]
  OBVIOUS
<1>8. f = [k \in D |-> IF k = 0 THEN start ELSE step[k][f[k - 1]]]
  <2> HIDE DEF body, D
  <2> QED
    BY <1>6, <1>7
<1> QED
  BY <1>6, <1>8

-----------------------------------------------------------------------------
\* Products, quotients and remainders of natural numbers.
LEMMA Product == ASSUME NEW a \in Nat, NEW b \in Nat, NEW c \in Nat, a <= b
                 PROVE  a * c \in Nat /\ a * c <= b * c
<1>1. PICK k \in Nat : b = a + k
  <2>1. b - a \in Nat /\ b = a + (b - a)
    OBVIOUS
  <2> QED
    BY <2>1
<1>2. b * c = a * c + k * c /\ k * c >= 0 /\ a * c \in Nat
  BY <1>1
<1> QED
  BY <1>2

LEMMA QuotientBound ==
    ASSUME NEW a \in Nat, NEW b \in Nat \ {0}, NEW o \in Nat
    PROVE  a <= o \div b <=> a * b <= o
<1> DEFINE q == o \div b
<1>1. q \in Nat /\ q * b <= o /\ o < (q + 1) * b
  <2> DEFINE r == o % b  product == b * q
  <2>1. q \in Nat /\ r \in 0..b - 1 /\ o = product + r
    BY SMT
  <2> HIDE DEF q, r
  <2>2. (q + 1) * b = product + b /\ q * b = product /\ product \in Nat
    BY <2>1
  <2> HIDE DEF product
  <2> QED
    BY <2>1, <2>2
<1> HIDE DEF q
<1>2. a <= q => a * b <= q * b
  BY <1>1, Product
<1>3. q + 1 <= a => (q + 1) * b <= a * b
  BY <1>1, Product
<1>4. a * b \in Nat /\ q * b \in Nat /\ (q + 1) * b \in Nat
  BY <1>1
<1> QED
  BY <1>1, <1>2, <1>3, <1>4 DEF q

\* Where a number stands among the multiples of another.
LEMMA QuotientIs ==
    ASSUME NEW u \in Nat, NEW d \in Nat \ {0}, NEW i \in Nat
    PROVE  u \div d = i <=> (i * d <= u /\ u < i * d + d)
<1> DEFINE q == u \div d  p == i * d
<1>1. q \in Nat
  OBVIOUS
<1>2. i <= q <=> p <= u
  BY QuotientBound
<1>3. i + 1 <= q <=> p + d <= u
  <2>1. i + 1 \in Nat /\ (i + 1) * d = p + d
    OBVIOUS
  <2>2. i + 1 <= u \div d <=> (i + 1) * d <= u
    BY ONLY <2>1, QuotientBound, u \in Nat, d \in Nat \ {0}
  <2> HIDE DEF p
  <2> QED
    BY <2>1, <2>2
<1>4. p \in Nat
  OBVIOUS
<1> HIDE DEF q, p
<1>5. q = i <=> (p <= u /\ u < p + d)
  BY ONLY <1>1, <1>2, <1>3, <1>4, u \in Nat, d \in Nat \ {0}, i \in Nat
<1> QED
  BY ONLY <1>5 DEF q, p

\* A number has one quotient and one remainder.
LEMMA OneRemainder ==
    ASSUME NEW o \in Int, NEW m \in Nat \ {0}, NEW q \in Int, NEW r \in 0..m - 1, o = m * q + r
    PROVE  o % m = r
<1> DEFINE s == o % m  k == o \div m
<1>1. s \in 0..m - 1 /\ k \in Int /\ o = m * k + s
  OBVIOUS
<1> HIDE DEF s, k
<1>2. m * (q - k) = s - r /\ m * q \in Int /\ m * k \in Int
  BY <1>1
<1>3. ~(q - k >= 1) /\ ~(q - k <= -1)
  <2>1. q - k >= 1 => m * (q - k) >= m
    BY <1>1
  <2>2. q - k <= -1 => m * (q - k) <= -m
    BY <1>1
  <2> QED
    BY <1>1, <1>2, <2>1, <2>2
<1>4. q = k
  BY <1>1, <1>3
<1> QED
  BY <1>1, <1>2, <1>4 DEF s

LEMMA SmallRemainder == ASSUME NEW n \in Nat \ {0}, NEW s \in Nat, s < n PROVE s % n = s
<1>1. s \in Int /\ 0 \in Int /\ s \in 0..n - 1 /\ s = n * 0 + s
  OBVIOUS
<1> QED
  BY ONLY <1>1, OneRemainder, n \in Nat \ {0}

LEMMA BelowProduct == ASSUME NEW n \in Nat \ {0}, NEW k \in Nat, NEW s \in Nat, s < k * n
                      PROVE  s \div n \in Nat /\ s \div n < k
<1> DEFINE q == s \div n
<1>1. q \in Nat /\ (k <= q <=> k * n <= s)
  BY QuotientBound
<1> HIDE DEF q
<1>2. k * n \in Nat
  OBVIOUS
<1>3. q < k
  BY ONLY <1>1, <1>2, k \in Nat, s \in Nat, s < k * n
<1> QED
  BY ONLY <1>1, <1>3 DEF q

\* Division by one number after another.
LEMMA DividedTwice ==
    ASSUME NEW a \in Nat, NEW b \in Nat \ {0}, NEW c \in Nat \ {0}
    PROVE  (a \div b) \div c = a \div (b * c)
<1> DEFINE q == a \div b  d == b * c
<1>1. d \in Nat \ {0}
  OBVIOUS
<1>2. q \in Nat
  OBVIOUS
<1>3. q \div c \in Nat /\ a \div d \in Nat
  <2> HIDE DEF q, d
  <2> QED
    BY <1>1, <1>2
<1>4. \A x \in Nat : (x * c) * b = x * d /\ x * c \in Nat
  OBVIOUS
<1>5. \A x \in Nat : x <= q \div c <=> x <= a \div d
  <2> SUFFICES ASSUME NEW x \in Nat PROVE x <= q \div c <=> x <= a \div d
    OBVIOUS
  <2>1. x <= q \div c <=> x * c <= q
    BY ONLY <1>2, QuotientBound, x \in Nat, c \in Nat \ {0}
  <2>2. x * c \in Nat /\ (x * c) * b = x * d
    BY <1>4
  <2>3. x * c <= q <=> (x * c) * b <= a
    BY ONLY <2>2, QuotientBound, a \in Nat, b \in Nat \ {0} DEF q
  <2>4. x <= a \div d <=> x * d <= a
    BY ONLY <1>1, QuotientBound, x \in Nat, a \in Nat
  <2> QED
    BY ONLY <2>1, <2>2, <2>3, <2>4
<1> HIDE DEF d
<1>6. q \div c <= a \div d /\ a \div d <= q \div c
  BY <1>3, <1>5
<1> HIDE DEF q
<1>7. q \div c = a \div d
  <2> DEFINE x == q \div c  y == a \div d
  <2>1. x \in Nat /\ y \in Nat /\ x <= y /\ y <= x
    BY <1>3, <1>6
  <2> HIDE DEF x, y
  <2>2. x = y
    BY <2>1
  <2> QED
    BY <2>2 DEF x, y
<1> QED
  BY <1>7 DEF q, d

-----------------------------------------------------------------------------
\* Sums over finite sets, of the values of a function: the sum over each subset of its
\* domain, as the fold of the community modules computes it.
Chosen(s) == CHOOSE x \in s : TRUE

AddsUp(f, g) ==
    g = [s \in SUBSET DOMAIN f |-> IF s = {} THEN 0 ELSE f[Chosen(s)] + g[s \ {Chosen(s)}]]

Summable(f, S) == IsFiniteSet(S) /\ f \in [S -> Int]

Sums(f) == CHOOSE g : AddsUp(f, g)

LEMMA ChosenIsIn ==
    ASSUME NEW s, s # {}
    PROVE  Chosen(s) \in s
  BY DEF Chosen

LEMMA SumsExist ==
    ASSUME NEW S, IsFiniteSet(S), NEW f \in [S -> Int]
    PROVE  \E g \in [SUBSET S -> Int] : AddsUp(f, g)
<1> DEFINE D == SUBSET S
     top == Cardinality(S)
     m == [s \in D |-> Cardinality(s)]
     step == [s \in D |-> [g \in [D -> Int] |-> IF s = {} THEN 0 ELSE f[Chosen(s)] + g[s \ {Chosen(s)}]]]
<1>1. top \in Nat
  BY FS_CardinalityType
<1>2. m \in [D -> 0..top]
  <2>1. \A s \in D : Cardinality(s) \in Nat /\ Cardinality(s) <= top
    BY FS_Subset, FS_CardinalityType
  <2> HIDE DEF top
  <2> QED
    BY <1>1, <2>1
<1>3. \A s \in D : s # {} => /\ Chosen(s) \in s /\ s \ {Chosen(s)} \in D
                             /\ m[s \ {Chosen(s)}] < m[s]
  <2> SUFFICES ASSUME NEW s \in D, s # {}
               PROVE  Chosen(s) \in s /\ s \ {Chosen(s)} \in D /\ m[s \ {Chosen(s)}] < m[s]
    OBVIOUS
  <2>1. Chosen(s) \in s
    BY ChosenIsIn
  <2>2. IsFiniteSet(s)
    BY FS_Subset
  <2>3. Cardinality(s) \in Nat /\ Cardinality(s \ {Chosen(s)}) = Cardinality(s) - 1
    BY <2>1, <2>2, FS_CardinalityType, FS_RemoveElement
  <2> QED
    BY <2>1, <2>3
<1>4. step \in [D -> [[D -> Int] -> Int]]
  <2> SUFFICES ASSUME NEW s \in D, NEW g \in [D -> Int]
               PROVE  (IF s = {} THEN 0 ELSE f[Chosen(s)] + g[s \ {Chosen(s)}]) \in Int
    OBVIOUS
  <2>1. CASE s = {}
    BY <2>1
  <2>2. CASE s # {}
    <3>1. f[Chosen(s)] \in Int /\ g[s \ {Chosen(s)}] \in Int
      BY <1>3, <2>2
    <3> QED
      BY <2>2, <3>1
  <2> QED
    BY <2>1, <2>2
<1>5. \A s \in D : \A g, h \in [D -> Int] :
         (\A t \in D : m[t] < m[s] => g[t] = h[t]) => step[s][g] = step[s][h]
  <2> SUFFICES ASSUME NEW s \in D, NEW g \in [D -> Int], NEW h \in [D -> Int],
                      \A t \in D : m[t] < m[s] => g[t] = h[t]
               PROVE  step[s][g] = step[s][h]
    OBVIOUS
  <2>1. s # {} => g[s \ {Chosen(s)}] = h[s \ {Chosen(s)}]
    BY <1>3
  <2> HIDE DEF D, m
  <2> QED
    BY <2>1
<1>6. Recursive(D, Int, m, step)
  <2>1. Int # {}
    OBVIOUS
  <2> HIDE DEF D, m, step
  <2> QED
    BY <1>4, <1>5, <2>1 DEF Recursive
<1>7. PICK g \in [D -> Int] : g = [s \in D |-> step[s][g]]
  <2> HIDE DEF D, m, step, top
  <2> QED
    BY <1>1, <1>2, <1>6, RecursionExists
<1>8. \A s \in D : step[s][g] = IF s = {} THEN 0 ELSE f[Chosen(s)] + g[s \ {Chosen(s)}]
  OBVIOUS
<1>9. g = [s \in D |-> IF s = {} THEN 0 ELSE f[Chosen(s)] + g[s \ {Chosen(s)}]]
  <2> HIDE DEF step, D
  <2> QED
    BY <1>7, <1>8
<1>10. DOMAIN f = S
  OBVIOUS
<1> QED
  BY <1>7, <1>9, <1>10 DEF AddsUp

\* What the sums are, one element at a time.
LEMMA SumsAddUp ==
    ASSUME NEW S, NEW f, Summable(f, S)
    PROVE  /\ DOMAIN f = S /\ IsFiniteSet(S) /\ f \in [S -> Int]
           /\ AddsUp(f, Sums(f))
<1>1. PICK g \in [SUBSET S -> Int] : AddsUp(f, g)
  BY SumsExist DEF Summable
<1>2. AddsUp(f, Sums(f))
  BY <1>1 DEF Sums
<1>3. DOMAIN f = S
  BY DEF Summable
<1> QED
  BY <1>2, <1>3 DEF Summable

LEMMA SumsUnfold ==
    ASSUME NEW S, NEW f, Summable(f, S), NEW s \in SUBSET S
    PROVE  Sums(f)[s] = IF s = {} THEN 0 ELSE f[Chosen(s)] + Sums(f)[s \ {Chosen(s)}]
<1> DEFINE g == Sums(f)
<1>1. g = [t \in SUBSET S |-> IF t = {} THEN 0 ELSE f[Chosen(t)] + g[t \ {Chosen(t)}]]
  BY SumsAddUp DEF AddsUp
<1> HIDE DEF g
<1>2. g[s] = IF s = {} THEN 0 ELSE f[Chosen(s)] + g[s \ {Chosen(s)}]
  BY <1>1
<1> QED
  BY <1>2 DEF g

\* Induction over the subsets of a finite set, by their size.
LEMMA BySize ==
    ASSUME NEW S, IsFiniteSet(S), NEW P,
           \A s \in SUBSET S : (\A x \in s : s \ {x} \in P) => s \in P
    PROVE  \A s \in SUBSET S : s \in P
<1> DEFINE D == SUBSET S  m == [s \in D |-> Cardinality(s)]
<1>1. m \in [D -> Nat]
  BY FS_Subset, FS_CardinalityType
<1>2. ASSUME NEW s \in D, \A t \in D : m[t] < m[s] => t \in P PROVE s \in P
  <2>1. ASSUME NEW x \in s PROVE s \ {x} \in P
    <3>1. IsFiniteSet(s)
      BY FS_Subset
    <3>2. Cardinality(s) \in Nat /\ Cardinality(s \ {x}) = Cardinality(s) - 1
      BY <3>1, FS_CardinalityType, FS_RemoveElement
    <3>3. s \ {x} \in D /\ m[s \ {x}] < m[s]
      BY <3>2
    <3> QED
      BY <1>2, <3>3
  <2> QED
    BY <2>1
<1> HIDE DEF D, m
<1>3. \A s \in D : s \in P
  BY <1>1, <1>2, Inductively
<1> QED
  BY <1>3 DEF D

LEMMA SumsTyped ==
    ASSUME NEW S, NEW f, Summable(f, S)
    PROVE  Sums(f) \in [SUBSET S -> Int]
<1> DEFINE P == {s \in SUBSET S : Sums(f)[s] \in Int}
<1>1. \A s \in SUBSET S : Sums(f)[s] = IF s = {} THEN 0 ELSE f[Chosen(s)] + Sums(f)[s \ {Chosen(s)}]
  BY SumsUnfold
<1>0. IsFiniteSet(S) /\ f \in [S -> Int]
  BY DEF Summable
<1>2. ASSUME NEW s \in SUBSET S, \A x \in s : s \ {x} \in P PROVE s \in P
  <2>1. CASE s = {}
    <3>1. Sums(f)[s] = 0
      BY <1>1, <2>1
    <3> QED
      BY <3>1
  <2>2. CASE s # {}
    <3>1. Chosen(s) \in s
      BY <2>2, ChosenIsIn
    <3>2. f[Chosen(s)] \in Int /\ Sums(f)[s \ {Chosen(s)}] \in Int
      BY <1>0, <1>2, <3>1
    <3>3. Sums(f)[s] = f[Chosen(s)] + Sums(f)[s \ {Chosen(s)}]
      BY <1>1, <2>2
    <3> QED
      BY <3>2, <3>3
  <2> QED
    BY <2>1, <2>2
<1>3. \A s \in SUBSET S : Sums(f)[s] \in Int
  <2>1. \A s \in SUBSET S : s \in P
    <3> HIDE DEF P
    <3> QED
      BY <1>0, <1>2, BySize
  <2> QED
    BY <2>1
<1>4. Sums(f) = [s \in SUBSET S |-> Sums(f)[s]]
  <2> DEFINE g == Sums(f)
  <2>1. g = [t \in SUBSET S |-> IF t = {} THEN 0 ELSE f[Chosen(t)] + g[t \ {Chosen(t)}]]
    BY SumsAddUp DEF AddsUp
  <2> HIDE DEF g
  <2>2. g = [s \in SUBSET S |-> g[s]]
    BY <2>1
  <2> QED
    BY <2>2 DEF g
<1> QED
  BY <1>3, <1>4

\* Any element may be taken first.
LEMMA TakeOut ==
    ASSUME NEW S, NEW f, Summable(f, S), NEW t \in SUBSET S, NEW y \in t
    PROVE  Sums(f)[t] = f[y] + Sums(f)[t \ {y}]
<1> DEFINE P == {s \in SUBSET S : \A x \in s : Sums(f)[s] = f[x] + Sums(f)[s \ {x}]}
<1>0. Sums(f) \in [SUBSET S -> Int]
  BY SumsTyped
<1>1. \A s \in SUBSET S : Sums(f)[s] = IF s = {} THEN 0 ELSE f[Chosen(s)] + Sums(f)[s \ {Chosen(s)}]
  BY SumsUnfold
<1>a. IsFiniteSet(S) /\ f \in [S -> Int]
  BY DEF Summable
<1>2. ASSUME NEW s \in SUBSET S, \A x \in s : s \ {x} \in P PROVE s \in P
  <2> SUFFICES ASSUME NEW x \in s PROVE Sums(f)[s] = f[x] + Sums(f)[s \ {x}]
    OBVIOUS
  <2> DEFINE c == Chosen(s)
  <2>1. c \in s /\ Sums(f)[s] = f[c] + Sums(f)[s \ {c}]
    <3>1. s # {} /\ c \in s
      BY ChosenIsIn
    <3> QED
      BY <1>1, <3>1
  <2> HIDE DEF c
  <2>2. CASE x = c
    BY <2>1, <2>2
  <2>3. CASE x # c
    <3>1. x \in s \ {c} /\ c \in s \ {x} /\ (s \ {c}) \ {x} = (s \ {x}) \ {c}
      BY <2>1, <2>3
    <3>2. Sums(f)[s \ {c}] = f[x] + Sums(f)[(s \ {c}) \ {x}]
      BY <1>2, <2>1, <3>1
    <3>3. Sums(f)[s \ {x}] = f[c] + Sums(f)[(s \ {x}) \ {c}]
      BY <1>2, <3>1
    <3>4. f[x] \in Int /\ f[c] \in Int /\ Sums(f)[(s \ {x}) \ {c}] \in Int
      BY <1>0, <1>a, <2>1
    <3>5. Sums(f)[s] = f[c] + (f[x] + Sums(f)[(s \ {x}) \ {c}])
      BY <2>1, <3>1, <3>2
    <3> QED
      BY ONLY <3>3, <3>4, <3>5
  <2> QED
    BY <2>2, <2>3
<1>3. t \in P
  <2> HIDE DEF P
  <2> QED
    BY <1>a, <1>2, BySize
<1> QED
  BY <1>3

\* There is only one function that adds up.
LEMMA SumsAreOne ==
    ASSUME NEW S, NEW f, Summable(f, S), NEW g, AddsUp(f, g)
    PROVE  g = Sums(f)
<1> DEFINE P == {s \in SUBSET S : g[s] = Sums(f)[s]}
<1>1. g = [s \in SUBSET S |-> IF s = {} THEN 0 ELSE f[Chosen(s)] + g[s \ {Chosen(s)}]]
  <2>1. DOMAIN f = S
    BY DEF Summable
  <2> QED
    BY <2>1 DEF AddsUp
<1>2. \A s \in SUBSET S : Sums(f)[s] = IF s = {} THEN 0 ELSE f[Chosen(s)] + Sums(f)[s \ {Chosen(s)}]
  BY SumsUnfold
<1>3. ASSUME NEW s \in SUBSET S, \A x \in s : s \ {x} \in P PROVE s \in P
  <2>1. CASE s = {}
    BY <1>1, <1>2, <2>1
  <2>2. CASE s # {}
    <3>1. g[s] = f[Chosen(s)] + g[s \ {Chosen(s)}] /\ Sums(f)[s] = f[Chosen(s)] + Sums(f)[s \ {Chosen(s)}]
      BY <1>1, <1>2, <2>2
    <3>2. g[s \ {Chosen(s)}] = Sums(f)[s \ {Chosen(s)}]
      BY <1>3, <2>2, ChosenIsIn
    <3> QED
      BY <3>1, <3>2
  <2> QED
    BY <2>1, <2>2
<1>4. \A s \in SUBSET S : g[s] = Sums(f)[s]
  <2>1. \A s \in SUBSET S : s \in P
    <3> HIDE DEF P
    <3> QED
      BY <1>3, BySize DEF Summable
  <2> QED
    BY <2>1
<1>5. g = [s \in SUBSET S |-> g[s]]
  BY <1>1
<1>6. Sums(f) = [s \in SUBSET S |-> Sums(f)[s]]
  BY SumsTyped
<1> QED
  BY <1>4, <1>5, <1>6

\* A sum of the values that an injective function leads to.
Carries(turn, R, S, f, h) ==
    /\ IsFiniteSet(R) /\ IsFiniteSet(S) /\ turn \in [R -> S] /\ \A x, y \in R : turn[x] = turn[y] => x = y
    /\ f \in [S -> Int] /\ h \in [R -> Int] /\ \A x \in R : h[x] = f[turn[x]]

LEMMA Carried ==
    ASSUME NEW R, NEW S, NEW f, NEW h, NEW turn, Carries(turn, R, S, f, h), NEW t \in SUBSET R
    PROVE  Sums(h)[t] = Sums(f)[{turn[x] : x \in t}]
<1>1. /\ IsFiniteSet(R) /\ IsFiniteSet(S) /\ turn \in [R -> S] /\ \A x, y \in R : turn[x] = turn[y] => x = y
      /\ f \in [S -> Int] /\ h \in [R -> Int] /\ \A x \in R : h[x] = f[turn[x]]
  BY DEF Carries
<1>0. Summable(f, S) /\ Summable(h, R)
  BY <1>1 DEF Summable
<1>2. \A s \in SUBSET R : Sums(h)[s] = IF s = {} THEN 0 ELSE h[Chosen(s)] + Sums(h)[s \ {Chosen(s)}]
  BY <1>0, SumsUnfold
<1>3. \A s \in SUBSET S : Sums(f)[s] = IF s = {} THEN 0 ELSE f[Chosen(s)] + Sums(f)[s \ {Chosen(s)}]
  BY <1>0, SumsUnfold
<1>4. ASSUME NEW s \in SUBSET S, NEW y \in s PROVE Sums(f)[s] = f[y] + Sums(f)[s \ {y}]
  BY <1>0, TakeOut
<1> DEFINE Image(s) == {turn[x] : x \in s}
     P == {s \in SUBSET R : Sums(h)[s] = Sums(f)[Image(s)]}
<1>5. ASSUME NEW s \in SUBSET R, \A x \in s : s \ {x} \in P PROVE s \in P
  <2>1. CASE s = {}
    <3>1. Image(s) = {} /\ {} \in SUBSET S
      BY <2>1
    <3>2. Sums(h)[{}] = 0 /\ Sums(f)[{}] = 0
      BY <1>2, <1>3
    <3> QED
      BY <2>1, <3>1, <3>2
  <2>2. CASE s # {}
    <3> DEFINE c == Chosen(s)
    <3>1. c \in s
      BY <2>2, ChosenIsIn
    <3>2. Sums(h)[s] = h[c] + Sums(h)[s \ {c}]
      BY <1>2, <2>2
    <3> HIDE DEF c
    <3>3. Sums(h)[s \ {c}] = Sums(f)[Image(s \ {c})]
      BY <1>5, <3>1
    <3>4. Image(s \ {c}) = Image(s) \ {turn[c]} /\ turn[c] \in Image(s) /\ Image(s) \in SUBSET S
      BY <1>1, <3>1
    <3> HIDE DEF Image
    <3>5. Sums(f)[Image(s)] = f[turn[c]] + Sums(f)[Image(s) \ {turn[c]}]
      BY <1>4, <3>4
    <3>6. Sums(h)[s] = Sums(f)[Image(s)]
      BY <1>1, <3>1, <3>2, <3>3, <3>4, <3>5
    <3> QED
      BY <3>6
  <2> QED
    BY <2>1, <2>2
<1>6. t \in P
  <2> HIDE DEF P
  <2> QED
    BY <1>1, <1>5, BySize
<1> QED
  BY <1>6

\* A sum in another order.
Rearranges(turn, S, f, h) ==
    /\ IsFiniteSet(S) /\ turn \in [S -> S] /\ \A x, y \in S : turn[x] = turn[y] => x = y
    /\ f \in [S -> Int] /\ h \in [S -> Int] /\ \A x \in S : h[x] = f[turn[x]]

LEMMA Rearranged ==
    ASSUME NEW S, NEW f, NEW h, NEW turn, Rearranges(turn, S, f, h), NEW t \in SUBSET S
    PROVE  Sums(h)[t] = Sums(f)[{turn[x] : x \in t}]
<1>1. Carries(turn, S, S, f, h)
  BY DEF Rearranges, Carries
<1> QED
  BY <1>1, Carried

-----------------------------------------------------------------------------
\* Sums over the first numbers, as loops make them.
Below(k) == 0..k - 1

LEMMA StepByStep ==
    ASSUME NEW n \in Nat, NEW f \in [Below(n) -> Int]
    PROVE  /\ \A k \in 0..n : Sums(f)[Below(k)] \in Int
           /\ Sums(f)[Below(0)] = 0
           /\ \A k \in Below(n) : Sums(f)[Below(k + 1)] = Sums(f)[Below(k)] + f[k]
<1> DEFINE S == Below(n)
<1>1. IsFiniteSet(S)
  BY FS_Interval DEF Below
<1>2. \A k \in 0..n : Below(k) \in SUBSET S
  BY DEF Below
<1>3. Below(0) = {} /\ \A k \in S : k \in Below(k + 1) /\ Below(k + 1) \ {k} = Below(k) /\ k + 1 \in 0..n /\ k \in 0..n
  BY DEF Below
<1> HIDE DEF S
<1>4. f \in [S -> Int]
  BY DEF S
<1>b. Summable(f, S)
  BY <1>1, <1>4 DEF Summable
<1>5. Sums(f) \in [SUBSET S -> Int]
  BY <1>b, SumsTyped
<1>6. \A s \in SUBSET S : Sums(f)[s] = IF s = {} THEN 0 ELSE f[Chosen(s)] + Sums(f)[s \ {Chosen(s)}]
  BY <1>b, SumsUnfold
<1>7. ASSUME NEW s \in SUBSET S, NEW y \in s PROVE Sums(f)[s] = f[y] + Sums(f)[s \ {y}]
  BY <1>b, TakeOut
<1>8. Sums(f)[Below(0)] = 0
  BY <1>3, <1>6
<1>9. ASSUME NEW k \in S PROVE Sums(f)[Below(k + 1)] = Sums(f)[Below(k)] + f[k]
  <2>1. Sums(f)[Below(k + 1)] = f[k] + Sums(f)[Below(k)]
    BY <1>2, <1>3, <1>7
  <2>2. f[k] \in Int /\ Sums(f)[Below(k)] \in Int
    BY <1>2, <1>3, <1>4, <1>5
  <2> QED
    BY <2>1, <2>2
<1> QED
  BY <1>2, <1>5, <1>8, <1>9 DEF S

\* What holds of no step, and after one more of each, holds after each.
LEMMA OneByOne ==
    ASSUME NEW n \in Nat, NEW P, 0 \in P, \A k \in Below(n) : k \in P => k + 1 \in P
    PROVE  \A k \in 0..n : k \in P
<1> DEFINE D == 0..n  m == [k \in D |-> k]
<1>1. m \in [D -> Nat]
  OBVIOUS
<1>2. ASSUME NEW k \in D, \A j \in D : m[j] < m[k] => j \in P PROVE k \in P
  <2>1. CASE k = 0
    BY <2>1
  <2>2. CASE k # 0
    <3>1. k - 1 \in Below(n) /\ k - 1 \in D /\ m[k - 1] < m[k] /\ (k - 1) + 1 = k
      BY <2>2 DEF Below
    <3> QED
      BY <1>2, <3>1
  <2> QED
    BY <2>1, <2>2
<1> HIDE DEF D, m
<1>3. \A k \in D : k \in P
  BY <1>1, <1>2, Inductively
<1> QED
  BY <1>3 DEF D

\* A sum of multiples is the multiples of the sums.
Combines(n, e, p, f, q, g, r, h, c) ==
    /\ n \in Nat /\ p \in Int /\ q \in Int /\ r \in Int /\ c \in Int
    /\ e \in [Below(n) -> Int] /\ f \in [Below(n) -> Int] /\ g \in [Below(n) -> Int] /\ h \in [Below(n) -> Int]
    /\ \A k \in Below(n) : e[k] = p * f[k] + q * g[k] + r * h[k] + c

LEMMA Combined ==
    ASSUME NEW n, NEW e, NEW p, NEW f, NEW q, NEW g, NEW r, NEW h, NEW c,
           Combines(n, e, p, f, q, g, r, h, c)
    PROVE  Sums(e)[Below(n)] =
              p * Sums(f)[Below(n)] + q * Sums(g)[Below(n)] + r * Sums(h)[Below(n)] + n * c
<1>0. /\ n \in Nat /\ p \in Int /\ q \in Int /\ r \in Int /\ c \in Int
      /\ e \in [Below(n) -> Int] /\ f \in [Below(n) -> Int] /\ g \in [Below(n) -> Int] /\ h \in [Below(n) -> Int]
      /\ \A k \in Below(n) : e[k] = p * f[k] + q * g[k] + r * h[k] + c
  BY DEF Combines
<1> DEFINE E == Sums(e)  F == Sums(f)  G == Sums(g)  H == Sums(h)
     P == {k \in 0..n : E[Below(k)] = p * F[Below(k)] + q * G[Below(k)] + r * H[Below(k)] + k * c}
<1>1. /\ E[Below(0)] = 0 /\ F[Below(0)] = 0 /\ G[Below(0)] = 0 /\ H[Below(0)] = 0
      /\ \A k \in 0..n : E[Below(k)] \in Int /\ F[Below(k)] \in Int /\ G[Below(k)] \in Int /\ H[Below(k)] \in Int
      /\ \A k \in Below(n) : /\ E[Below(k + 1)] = E[Below(k)] + e[k] /\ F[Below(k + 1)] = F[Below(k)] + f[k]
                             /\ G[Below(k + 1)] = G[Below(k)] + g[k] /\ H[Below(k + 1)] = H[Below(k)] + h[k]
  BY <1>0, StepByStep
<1> HIDE DEF E, F, G, H
<1>2. 0 \in P
  <2>1. E[Below(0)] = p * F[Below(0)] + q * G[Below(0)] + r * H[Below(0)] + 0 * c
    <3>1. p * 0 + q * 0 + r * 0 + 0 * c = 0
      BY <1>0
    <3> QED
      BY <1>1, <3>1
  <2> QED
    BY <1>0, <2>1
<1>3. ASSUME NEW k \in Below(n), k \in P PROVE k + 1 \in P
  <2>1. k \in Nat /\ k \in 0..n /\ k + 1 \in 0..n
    BY <1>0 DEF Below
  <2>2. E[Below(k)] = p * F[Below(k)] + q * G[Below(k)] + r * H[Below(k)] + k * c
    BY <1>3
  <2>4. /\ F[Below(k)] \in Int /\ G[Below(k)] \in Int /\ H[Below(k)] \in Int
        /\ f[k] \in Int /\ g[k] \in Int /\ h[k] \in Int
    BY <1>0, <1>1, <2>1
  <2>6. /\ E[Below(k + 1)] = E[Below(k)] + e[k] /\ F[Below(k + 1)] = F[Below(k)] + f[k]
        /\ G[Below(k + 1)] = G[Below(k)] + g[k] /\ H[Below(k + 1)] = H[Below(k)] + h[k]
        /\ e[k] = p * f[k] + q * g[k] + r * h[k] + c
    BY <1>0, <1>1
  <2>5. E[Below(k + 1)] = p * F[Below(k + 1)] + q * G[Below(k + 1)] + r * H[Below(k + 1)] + (k + 1) * c
    <3>1. (p * F[Below(k)] + q * G[Below(k)] + r * H[Below(k)] + k * c) + (p * f[k] + q * g[k] + r * h[k] + c)
             = p * (F[Below(k)] + f[k]) + q * (G[Below(k)] + g[k]) + r * (H[Below(k)] + h[k]) + (k + 1) * c
      <4> DEFINE F0 == F[Below(k)]  G0 == G[Below(k)]  H0 == H[Below(k)]  f0 == f[k]  g0 == g[k]  h0 == h[k]
      <4>1. /\ F0 \in Int /\ G0 \in Int /\ H0 \in Int /\ f0 \in Int /\ g0 \in Int /\ h0 \in Int
            /\ p \in Int /\ q \in Int /\ r \in Int /\ c \in Int /\ k \in Int
        BY <1>0, <2>1, <2>4
      <4> HIDE DEF F0, G0, H0, f0, g0, h0
      <4>2. (p * F0 + q * G0 + r * H0 + k * c) + (p * f0 + q * g0 + r * h0 + c)
              = p * (F0 + f0) + q * (G0 + g0) + r * (H0 + h0) + (k + 1) * c
        BY ONLY <4>1
      <4> QED
        BY <4>2 DEF F0, G0, H0, f0, g0, h0
    <3>2. E[Below(k + 1)] = (p * F[Below(k)] + q * G[Below(k)] + r * H[Below(k)] + k * c)
                              + (p * f[k] + q * g[k] + r * h[k] + c)
      BY ONLY <2>2, <2>6
    <3> QED
      BY ONLY <2>6, <3>1, <3>2
  <2> QED
    BY <2>1, <2>5
<1>4. n \in P
  <2> HIDE DEF P
  <2> QED
    BY <1>0, <1>2, <1>3, OneByOne
<1> QED
  BY <1>4 DEF E, F, G, H

\* Sums of bounded numbers are bounded.
LEMMA SumsStayBelow ==
    ASSUME NEW n \in Nat, NEW most \in Nat, NEW f \in [Below(n) -> 0..most]
    PROVE  \A k \in 0..n : Sums(f)[Below(k)] \in 0..k * most
<1> DEFINE F == Sums(f)  P == {k \in 0..n : F[Below(k)] \in 0..k * most}
<1>0. f \in [Below(n) -> Int]
  OBVIOUS
<1>1. F[Below(0)] = 0 /\ \A k \in Below(n) : F[Below(k + 1)] = F[Below(k)] + f[k]
  BY <1>0, StepByStep
<1> HIDE DEF F
<1>2. 0 \in P
  BY <1>1
<1>3. ASSUME NEW k \in Below(n), k \in P PROVE k + 1 \in P
  <2>1. k \in Nat /\ k + 1 \in 0..n /\ f[k] \in 0..most /\ F[Below(k)] \in 0..k * most
    BY <1>3 DEF Below
  <2>2. (k + 1) * most = k * most + most /\ k * most \in Nat
    BY <2>1
  <2>3. F[Below(k + 1)] \in 0..(k + 1) * most
    BY <1>1, <2>1, <2>2
  <2> QED
    BY <2>1, <2>3
<1>4. \A k \in 0..n : k \in P
  <2> HIDE DEF P
  <2> QED
    BY <1>2, <1>3, OneByOne
<1> QED
  BY <1>4 DEF F

LEMMA SumsOfNaturals ==
    ASSUME NEW n \in Nat, NEW f \in [Below(n) -> Nat]
    PROVE  Sums(f)[Below(n)] \in Nat
<1> DEFINE F == Sums(f)  P == {k \in 0..n : F[Below(k)] \in Nat}
<1>0. f \in [Below(n) -> Int]
  OBVIOUS
<1>1. F[Below(0)] = 0 /\ \A k \in Below(n) : F[Below(k + 1)] = F[Below(k)] + f[k]
  BY <1>0, StepByStep
<1> HIDE DEF F
<1>2. 0 \in P
  BY <1>1
<1>3. ASSUME NEW k \in Below(n), k \in P PROVE k + 1 \in P
  BY <1>1, <1>3 DEF Below
<1>4. n \in P
  <2> HIDE DEF P
  <2> QED
    BY <1>2, <1>3, OneByOne
<1> QED
  BY <1>4 DEF F

\* Sums over any finite sets.  Two functions that agree on a set have the same sum over it.
LEMMA SumsAgree ==
    ASSUME NEW S, NEW f, Summable(f, S), NEW R, NEW g, Summable(g, R),
           NEW t \in SUBSET S, t \subseteq R, \A x \in t : f[x] = g[x]
    PROVE  Sums(f)[t] = Sums(g)[t]
<1> DEFINE P == {s \in SUBSET t : Sums(f)[s] = Sums(g)[s]}
<1>1. \A s \in SUBSET S : Sums(f)[s] = IF s = {} THEN 0 ELSE f[Chosen(s)] + Sums(f)[s \ {Chosen(s)}]
  BY SumsUnfold
<1>2. \A s \in SUBSET R : Sums(g)[s] = IF s = {} THEN 0 ELSE g[Chosen(s)] + Sums(g)[s \ {Chosen(s)}]
  BY SumsUnfold
<1>3. ASSUME NEW s \in SUBSET t, \A x \in s : s \ {x} \in P PROVE s \in P
  <2>1. s \in SUBSET S /\ s \in SUBSET R
    OBVIOUS
  <2>2. CASE s = {}
    BY <1>1, <1>2, <2>1, <2>2
  <2>3. CASE s # {}
    <3>1. Chosen(s) \in s
      BY <2>3, ChosenIsIn
    <3>2. f[Chosen(s)] = g[Chosen(s)] /\ Sums(f)[s \ {Chosen(s)}] = Sums(g)[s \ {Chosen(s)}]
      BY <1>3, <3>1
    <3>3. Sums(f)[s] = Sums(g)[s]
      BY <1>1, <1>2, <2>1, <2>3, <3>2
    <3> QED
      BY <3>3
  <2> QED
    BY <2>2, <2>3
<1>4. IsFiniteSet(t)
  BY FS_Subset DEF Summable
<1>5. t \in P
  <2> HIDE DEF P
  <2>1. \A s \in SUBSET t : (\A x \in s : s \ {x} \in P) => s \in P
    BY <1>3
  <2>2. \A s \in SUBSET t : s \in P
    BY ONLY <1>4, <2>1, BySize
  <2> QED
    BY <2>2
<1> QED
  BY <1>5

LEMMA SumIsInt ==
    ASSUME NEW S, NEW f, Summable(f, S), NEW t \in SUBSET S
    PROVE  Sums(f)[t] \in Int /\ Sums(f)[{}] = 0 /\ IsFiniteSet(t)
<1>1. Sums(f) \in [SUBSET S -> Int] /\ {} \in SUBSET S /\ IsFiniteSet(t)
  BY SumsTyped, FS_Subset DEF Summable
<1>2. Sums(f)[{}] = 0
  BY <1>1, SumsUnfold
<1> QED
  BY <1>1, <1>2

\* One more element.
LEMMA PutIn ==
    ASSUME NEW S, NEW f, Summable(f, S), NEW t \in SUBSET S, NEW x \in S, x \notin t
    PROVE  Sums(f)[t \cup {x}] = Sums(f)[t] + f[x]
<1>1. t \cup {x} \in SUBSET S /\ x \in t \cup {x} /\ (t \cup {x}) \ {x} = t
  OBVIOUS
<1>2. Sums(f)[t \cup {x}] = f[x] + Sums(f)[t]
  <2> DEFINE u == t \cup {x}
  <2>1. u \in SUBSET S /\ x \in u /\ u \ {x} = t
    BY <1>1
  <2> HIDE DEF u
  <2>2. Sums(f)[u] = f[x] + Sums(f)[u \ {x}]
    BY <2>1, TakeOut
  <2> QED
    BY <2>1, <2>2 DEF u
<1>3. f[x] \in Int /\ Sums(f)[t] \in Int
  BY SumIsInt DEF Summable
<1> QED
  BY <1>2, <1>3

\* What holds of the empty set, and of a set with one more element when it holds of the
\* set, holds of every subset of a finite set.
LEMMA OneMoreAtATime ==
    ASSUME NEW S, IsFiniteSet(S), NEW P, {} \in P,
           \A s \in SUBSET S : \A x \in S : s \in P /\ x \notin s => s \cup {x} \in P
    PROVE  \A s \in SUBSET S : s \in P
<1>1. ASSUME NEW s \in SUBSET S, \A x \in s : s \ {x} \in P PROVE s \in P
  <2>1. CASE s = {}
    BY <2>1
  <2>2. CASE s # {}
    <3>1. PICK x \in s : TRUE
      BY <2>2
    <3>2. s \ {x} \in SUBSET S /\ x \in S /\ x \notin s \ {x} /\ (s \ {x}) \cup {x} = s
      OBVIOUS
    <3> QED
      BY <1>1, <3>2
  <2> QED
    BY <2>1, <2>2
<1> QED
  BY <1>1, BySize

\* Two sets that have nothing in common.
LEMMA SumsJoin ==
    ASSUME NEW S, NEW f, Summable(f, S), NEW s \in SUBSET S, NEW t \in SUBSET S, s \cap t = {}
    PROVE  Sums(f)[s \cup t] = Sums(f)[s] + Sums(f)[t]
<1> DEFINE P == {u \in SUBSET t : Sums(f)[s \cup u] = Sums(f)[s] + Sums(f)[u]}
<1>1. IsFiniteSet(t)
  BY SumIsInt
<1>2. {} \in P
  <2>1. s \cup {} = s /\ Sums(f)[{}] = 0 /\ Sums(f)[s] \in Int
    BY SumIsInt
  <2> QED
    BY <2>1
<1>3. ASSUME NEW u \in SUBSET t, NEW x \in t, u \in P, x \notin u PROVE u \cup {x} \in P
  <2>1. s \cup u \in SUBSET S /\ x \in S /\ x \notin s \cup u /\ u \in SUBSET S /\ (s \cup u) \cup {x} = s \cup (u \cup {x})
    BY <1>3
  <2>2. Sums(f)[(s \cup u) \cup {x}] = Sums(f)[s \cup u] + f[x]
    BY <2>1, PutIn
  <2>3. Sums(f)[u \cup {x}] = Sums(f)[u] + f[x]
    BY <1>3, <2>1, PutIn
  <2>4. Sums(f)[s \cup u] = Sums(f)[s] + Sums(f)[u]
    BY <1>3
  <2>5. Sums(f)[s] \in Int /\ Sums(f)[u] \in Int /\ f[x] \in Int
    BY <2>1, SumIsInt DEF Summable
  <2>6. Sums(f)[(s \cup u) \cup {x}] = Sums(f)[s] + Sums(f)[u \cup {x}]
    BY ONLY <2>2, <2>3, <2>4, <2>5
  <2>7. (s \cup u) \cup {x} = s \cup (u \cup {x})
    OBVIOUS
  <2>8. Sums(f)[s \cup (u \cup {x})] = Sums(f)[s] + Sums(f)[u \cup {x}]
    BY ONLY <2>6, <2>7
  <2> QED
    BY <2>8
<1>4. t \in P
  <2> HIDE DEF P
  <2>1. \A u \in SUBSET t : \A x \in t : u \in P /\ x \notin u => u \cup {x} \in P
    BY <1>3
  <2>2. \A u \in SUBSET t : u \in P
    BY ONLY <1>1, <1>2, <2>1, OneMoreAtATime
  <2> QED
    BY <2>2
<1> QED
  BY <1>4

\* The sum over a set by what it falls into.
Part(T, p, k) == {t \in T : p[t] = k}

LEMMA SumByParts ==
    ASSUME NEW T, NEW f, Summable(f, T), NEW S, IsFiniteSet(S), NEW p \in [T -> S],
           NEW g, g = [k \in S |-> Sums(f)[Part(T, p, k)]]
    PROVE  Summable(g, S) /\ Sums(g)[S] = Sums(f)[T]
<1> DEFINE Into(s) == {t \in T : p[t] \in s}
     P == {s \in SUBSET S : Sums(g)[s] = Sums(f)[Into(s)]}
<1>1. \A s \in SUBSET S : Into(s) \in SUBSET T
  OBVIOUS
<1>2. \A k \in S : Part(T, p, k) \in SUBSET T
  BY DEF Part
<1>3. Summable(g, S)
  <2>1. \A k \in S : Sums(f)[Part(T, p, k)] \in Int
    BY <1>2, SumIsInt
  <2> QED
    BY <2>1 DEF Summable
<1>4. {} \in P
  <2>1. Into({}) = {} /\ {} \in SUBSET S /\ {} \in SUBSET T
    OBVIOUS
  <2>2. Sums(g)[{}] = 0 /\ Sums(f)[{}] = 0
    BY <1>3, <2>1, SumIsInt
  <2> HIDE DEF Into
  <2> QED
    BY <2>1, <2>2
<1>5. ASSUME NEW s \in SUBSET S, NEW x \in S, s \in P, x \notin s PROVE s \cup {x} \in P
  <2>1. /\ Into(s \cup {x}) = Into(s) \cup Part(T, p, x) /\ Into(s) \cap Part(T, p, x) = {}
    BY <1>5 DEF Part
  <2> HIDE DEF Into
  <2>a. Into(s) \in SUBSET T /\ Part(T, p, x) \in SUBSET T
    BY <1>1, <1>2
  <2>b. Sums(f)[Into(s) \cup Part(T, p, x)] = Sums(f)[Into(s)] + Sums(f)[Part(T, p, x)]
    <3> DEFINE u == Into(s)  v == Part(T, p, x)
    <3>1. u \in SUBSET T /\ v \in SUBSET T /\ u \cap v = {} /\ Summable(f, T)
      BY <2>1, <2>a
    <3> HIDE DEF u, v
    <3>2. Sums(f)[u \cup v] = Sums(f)[u] + Sums(f)[v]
      BY ONLY <3>1, SumsJoin
    <3> QED
      BY <3>2 DEF u, v
  <2>2. Sums(f)[Into(s \cup {x})] = Sums(f)[Into(s)] + Sums(f)[Part(T, p, x)]
    BY ONLY <2>1, <2>b
  <2>3. Sums(g)[s \cup {x}] = Sums(g)[s] + g[x]
    BY ONLY <1>3, <1>5, PutIn, s \in SUBSET S, x \in S
  <2>4. g[x] = Sums(f)[Part(T, p, x)] /\ Sums(g)[s] = Sums(f)[Into(s)]
    BY <1>5
  <2>5. Sums(g)[s \cup {x}] = Sums(f)[Into(s \cup {x})]
    BY <2>2, <2>3, <2>4
  <2> QED
    BY <2>5
<1>6. S \in P
  <2> HIDE DEF P
  <2> QED
    BY <1>4, <1>5, OneMoreAtATime
<1>7. Into(S) = T
  OBVIOUS
<1> QED
  BY <1>3, <1>6, <1>7

\* A set has as many elements as the sum of ones over it.
LEMMA CountIsSum ==
    ASSUME NEW S, IsFiniteSet(S), NEW f, f = [x \in S |-> 1], NEW t \in SUBSET S
    PROVE  Summable(f, S) /\ Sums(f)[t] = Cardinality(t)
<1> DEFINE P == {s \in SUBSET S : Sums(f)[s] = Cardinality(s)}
<1>1. Summable(f, S)
  BY DEF Summable
<1>2. {} \in P
  <2>1. {} \in SUBSET S /\ Sums(f)[{}] = 0
    BY <1>1, SumIsInt
  <2> QED
    BY <2>1, FS_EmptySet
<1>3. ASSUME NEW s \in SUBSET S, NEW x \in S, s \in P, x \notin s PROVE s \cup {x} \in P
  <2>1. IsFiniteSet(s)
    BY FS_Subset
  <2>2. Cardinality(s \cup {x}) = Cardinality(s) + 1
    BY <1>3, <2>1, FS_AddElement
  <2>3. Sums(f)[s \cup {x}] = Sums(f)[s] + f[x]
    BY <1>1, <1>3, PutIn
  <2>4. Sums(f)[s \cup {x}] = Cardinality(s \cup {x})
    BY <1>3, <2>2, <2>3
  <2> QED
    BY <2>4
<1>4. t \in P
  <2> HIDE DEF P
  <2> QED
    BY <1>2, <1>3, OneMoreAtATime
<1> QED
  BY <1>1, <1>4

\* A set is counted by what its elements fall into.
LEMMA CountByParts ==
    ASSUME NEW T, IsFiniteSet(T), NEW S, IsFiniteSet(S), NEW p \in [T -> S],
           NEW g, g = [k \in S |-> Cardinality(Part(T, p, k))]
    PROVE  Summable(g, S) /\ Sums(g)[S] = Cardinality(T)
<1> DEFINE one == [x \in T |-> 1]
<1>1. Summable(one, T) /\ \A t \in SUBSET T : Sums(one)[t] = Cardinality(t)
  BY CountIsSum
<1>2. \A k \in S : Part(T, p, k) \in SUBSET T
  BY DEF Part
<1> HIDE DEF one
<1>3. g = [k \in S |-> Sums(one)[Part(T, p, k)]]
  BY <1>1, <1>2
<1>4. Summable(g, S) /\ Sums(g)[S] = Sums(one)[T]
  BY <1>1, <1>3, SumByParts
<1> QED
  BY <1>1, <1>4

\* Sums of sums and multiples, and of larger terms.
LEMMA SumsCombine ==
    ASSUME NEW S, NEW f, Summable(f, S), NEW g, Summable(g, S), NEW p \in Int, NEW q \in Int,
           NEW h, h = [x \in S |-> p * f[x] + q * g[x]], NEW t \in SUBSET S
    PROVE  Summable(h, S) /\ Sums(h)[t] = p * Sums(f)[t] + q * Sums(g)[t]
<1> DEFINE P == {s \in SUBSET S : Sums(h)[s] = p * Sums(f)[s] + q * Sums(g)[s]}
<1>1. \A x \in S : f[x] \in Int /\ g[x] \in Int /\ h[x] = p * f[x] + q * g[x] /\ h[x] \in Int
  BY DEF Summable
<1>2. Summable(h, S)
  <2>1. h \in [S -> Int]
    BY <1>1
  <2> QED
    BY <2>1 DEF Summable
<1>3. {} \in P
  <2>1. {} \in SUBSET S /\ Sums(f)[{}] = 0 /\ Sums(g)[{}] = 0 /\ Sums(h)[{}] = 0
    BY <1>2, SumIsInt
  <2>2. p * 0 + q * 0 = 0
    OBVIOUS
  <2> QED
    BY <2>1, <2>2
<1>4. ASSUME NEW s \in SUBSET S, NEW x \in S, s \in P, x \notin s PROVE s \cup {x} \in P
  <2> DEFINE F == Sums(f)[s]  G == Sums(g)[s]  H == Sums(h)[s]
  <2>1. F \in Int /\ G \in Int /\ H = p * F + q * G
    BY <1>4, SumIsInt
  <2>2. Sums(f)[s \cup {x}] = F + f[x] /\ Sums(g)[s \cup {x}] = G + g[x] /\ Sums(h)[s \cup {x}] = H + h[x]
    BY <1>2, <1>4, PutIn
  <2> HIDE DEF F, G, H
  <2>3. f[x] \in Int /\ g[x] \in Int /\ h[x] = p * f[x] + q * g[x]
    BY <1>1
  <2>4. H + h[x] = p * (F + f[x]) + q * (G + g[x])
    <3> DEFINE y == f[x]  z == g[x]
    <3>1. y \in Int /\ z \in Int /\ h[x] = p * y + q * z
      BY <2>3
    <3> HIDE DEF y, z
    <3>2. (p * F + q * G) + (p * y + q * z) = p * (F + y) + q * (G + z)
      BY ONLY <2>1, <3>1, p \in Int, q \in Int
    <3> QED
      BY ONLY <2>1, <3>1, <3>2 DEF y, z
  <2>5. Sums(h)[s \cup {x}] = p * Sums(f)[s \cup {x}] + q * Sums(g)[s \cup {x}]
    BY ONLY <2>2, <2>4
  <2> QED
    BY <2>5
<1>5. t \in P
  <2>1. IsFiniteSet(S)
    BY DEF Summable
  <2> HIDE DEF P
  <2> QED
    BY <1>3, <1>4, <2>1, OneMoreAtATime
<1> QED
  BY <1>2, <1>5

LEMMA SumsGrow ==
    ASSUME NEW S, NEW f, Summable(f, S), NEW g, Summable(g, S), NEW t \in SUBSET S, \A x \in t : f[x] <= g[x]
    PROVE  Sums(f)[t] <= Sums(g)[t]
<1> DEFINE P == {s \in SUBSET t : Sums(f)[s] <= Sums(g)[s]}
<1>1. \A x \in S : f[x] \in Int /\ g[x] \in Int
  BY DEF Summable
<1>3. {} \in P
  <2>1. {} \in SUBSET t /\ Sums(f)[{}] = 0 /\ Sums(g)[{}] = 0
    BY SumIsInt
  <2> QED
    BY <2>1
<1>4. ASSUME NEW s \in SUBSET t, NEW x \in t, s \in P, x \notin s PROVE s \cup {x} \in P
  <2>1. Sums(f)[s \cup {x}] = Sums(f)[s] + f[x] /\ Sums(g)[s \cup {x}] = Sums(g)[s] + g[x]
    <3>1. s \in SUBSET S /\ x \in S
      OBVIOUS
    <3> QED
      BY <1>4, <3>1, PutIn
  <2>2. Sums(f)[s] \in Int /\ Sums(g)[s] \in Int /\ f[x] \in Int /\ g[x] \in Int /\ f[x] <= g[x]
    BY <1>1, SumIsInt
  <2>3. Sums(f)[s \cup {x}] <= Sums(g)[s \cup {x}]
    BY <1>4, <2>1, <2>2
  <2> QED
    BY <2>3
<1>5. t \in P
  <2>1. IsFiniteSet(t)
    BY SumIsInt
  <2> HIDE DEF P
  <2>2. \A s \in SUBSET t : \A x \in t : s \in P /\ x \notin s => s \cup {x} \in P
    BY <1>4
  <2>3. \A s \in SUBSET t : s \in P
    BY ONLY <1>3, <2>1, <2>2, OneMoreAtATime
  <2> QED
    BY <2>3
<1> QED
  BY <1>5

\* Nothing but zeros adds up to zero, if nothing is negative.
LEMMA SumOfNothing ==
    ASSUME NEW S, NEW f, Summable(f, S), \A x \in S : f[x] >= 0
    PROVE  Sums(f)[S] >= 0 /\ (Sums(f)[S] = 0 <=> \A x \in S : f[x] = 0)
<1> DEFINE zero == [x \in S |-> 0]
<1>1. IsFiniteSet(S) /\ f \in [S -> Int] /\ Summable(zero, S)
  BY DEF Summable
<1>2. \A t \in SUBSET S : Sums(zero)[t] = 0
  <2>1. zero = [x \in S |-> 0 * f[x] + 0 * f[x]]
    BY <1>1
  <2> HIDE DEF zero
  <2> SUFFICES ASSUME NEW t \in SUBSET S PROVE Sums(zero)[t] = 0
    OBVIOUS
  <2>2. Sums(zero)[t] = 0 * Sums(f)[t] + 0 * Sums(f)[t]
    <3> DEFINE o == 0
    <3>1. o \in Int /\ Summable(f, S) /\ t \in SUBSET S /\ zero = [x \in S |-> o * f[x] + o * f[x]]
      BY <2>1
    <3> HIDE DEF o
    <3>2. Sums(zero)[t] = o * Sums(f)[t] + o * Sums(f)[t]
      BY ONLY <3>1, SumsCombine
    <3> QED
      BY <3>2 DEF o
  <2>3. Sums(f)[t] \in Int
    BY SumIsInt
  <2> QED
    BY <2>2, <2>3
<1>3. \A x \in S : zero[x] <= f[x]
  OBVIOUS
<1>a. \A x \in S : zero[x] = 0
  OBVIOUS
<1> HIDE DEF zero
<1>4. \A t \in SUBSET S : Sums(f)[t] >= 0 /\ Sums(f)[t] \in Int
  <2> SUFFICES ASSUME NEW t \in SUBSET S PROVE Sums(f)[t] >= 0 /\ Sums(f)[t] \in Int
    OBVIOUS
  <2>1. Sums(zero)[t] <= Sums(f)[t]
    BY <1>1, <1>3, SumsGrow
  <2>2. Sums(f)[t] \in Int
    BY SumIsInt
  <2> QED
    BY <1>2, <2>1, <2>2
<1>5. ASSUME \A x \in S : f[x] = 0 PROVE Sums(f)[S] = 0
  BY <1>1, <1>2, <1>5, <1>a, SumsAgree
<1>6. ASSUME Sums(f)[S] = 0, NEW x \in S PROVE f[x] = 0
  <2>1. Sums(f)[S] = f[x] + Sums(f)[S \ {x}]
    BY TakeOut
  <2>2. Sums(f)[S \ {x}] >= 0 /\ Sums(f)[S \ {x}] \in Int /\ f[x] \in Int /\ f[x] >= 0
    BY <1>1, <1>4
  <2> QED
    BY <1>6, <2>1, <2>2
<1> QED
  BY <1>4, <1>5, <1>6

\* Terms that are 0 may be left out of a sum.
LEMMA SumsVanish ==
    ASSUME NEW S, NEW f, Summable(f, S), NEW t \in SUBSET S, \A x \in t : f[x] = 0
    PROVE  Sums(f)[t] = 0
<1> DEFINE zero == [x \in S |-> 0 * f[x] + 0 * f[x]]
<1>1. Summable(zero, S) /\ Sums(zero)[t] = 0 * Sums(f)[t] + 0 * Sums(f)[t]
  <2>1. 0 \in Int
    OBVIOUS
  <2> HIDE DEF zero
  <2>2. zero = [x \in S |-> 0 * f[x] + 0 * f[x]]
    BY DEF zero
  <2> QED
    BY <2>1, <2>2, SumsCombine
<1>2. \A x \in S : f[x] \in Int
  BY DEF Summable
<1>3. \A x \in t : f[x] = zero[x]
  BY <1>2
<1> HIDE DEF zero
<1>4. Sums(f)[t] = Sums(zero)[t]
  BY ONLY <1>1, <1>3, Summable(f, S), t \in SUBSET S, SumsAgree
<1>5. Sums(f)[t] \in Int
  BY SumIsInt
<1> QED
  BY <1>1, <1>4, <1>5

LEMMA SumsTrimmed ==
    ASSUME NEW S, NEW f, Summable(f, S), NEW t \in SUBSET S, NEW u \in SUBSET t, \A x \in t \ u : f[x] = 0
    PROVE  Sums(f)[t] = Sums(f)[u] /\ Sums(f)[u] \in Int
<1> DEFINE v == t \ u
<1>1. u \in SUBSET S /\ v \in SUBSET S /\ u \cap v = {} /\ t = u \cup v
  OBVIOUS
<1>2. \A x \in v : f[x] = 0
  OBVIOUS
<1> HIDE DEF v
<1>3. Sums(f)[u \cup v] = Sums(f)[u] + Sums(f)[v]
  BY ONLY <1>1, Summable(f, S), SumsJoin
<1>4. Sums(f)[v] = 0
  BY ONLY <1>1, <1>2, Summable(f, S), SumsVanish
<1>5. Sums(f)[u] \in Int
  BY ONLY <1>1, Summable(f, S), SumIsInt
<1> QED
  BY <1>1, <1>3, <1>4, <1>5

LEMMA SumOfOne ==
    ASSUME NEW S, NEW f, Summable(f, S), NEW x \in S
    PROVE  Sums(f)[{x}] = f[x] /\ f[x] \in Int
<1>1. {} \in SUBSET S /\ x \notin {} /\ {} \cup {x} = {x}
  OBVIOUS
<1>2. Sums(f)[{} \cup {x}] = Sums(f)[{}] + f[x]
  BY <1>1, PutIn
<1>3. Sums(f)[{}] = 0 /\ f[x] \in Int
  BY <1>1, SumIsInt DEF Summable
<1> QED
  BY <1>1, <1>2, <1>3

LEMMA SumsScaled ==
    ASSUME NEW S, NEW f, Summable(f, S), NEW c \in Int, NEW h, h = [x \in S |-> c * f[x]], NEW t \in SUBSET S
    PROVE  Summable(h, S) /\ Sums(h)[t] = c * Sums(f)[t]
<1>1. \A x \in S : f[x] \in Int
  BY DEF Summable
<1>2. h = [x \in S |-> c * f[x] + 0 * f[x]]
  <2>1. \A x \in S : c * f[x] = c * f[x] + 0 * f[x]
    BY <1>1
  <2> QED
    BY <2>1
<1>3. 0 \in Int /\ Sums(f)[t] \in Int
  BY SumIsInt
<1>4. Summable(h, S) /\ Sums(h)[t] = c * Sums(f)[t] + 0 * Sums(f)[t]
  BY <1>2, <1>3, SumsCombine
<1> QED
  BY <1>3, <1>4

-----------------------------------------------------------------------------
\* A sum over pairs, row by row or column by column.
RowAt(f, A, b)        == [a \in A |-> f[<<a, b>>]]
ColumnAt(f, B, a)     == [b \in B |-> f[<<a, b>>]]
RowTotals(f, A, B)    == [b \in B |-> Sums(RowAt(f, A, b))[A]]
ColumnTotals(f, A, B) == [a \in A |-> Sums(ColumnAt(f, B, a))[B]]

SameTotal(g, S, f, T) == Summable(g, S) /\ Summable(f, T) /\ Sums(g)[S] = Sums(f)[T]

OnPairs(f, A, B) == IsFiniteSet(A) /\ IsFiniteSet(B) /\ f \in [A \X B -> Int]

LEMMA PairsSum == ASSUME NEW A, NEW B, NEW f, OnPairs(f, A, B) PROVE Summable(f, A \X B)
<1>1. IsFiniteSet(A \X B)
  BY FS_Product DEF OnPairs
<1> QED
  BY <1>1 DEF Summable, OnPairs

LEMMA ByRows ==
    ASSUME NEW A, NEW B, NEW f, OnPairs(f, A, B)
    PROVE  SameTotal(RowTotals(f, A, B), B, f, A \X B)
<1> DEFINE T == A \X B  p == [t \in T |-> t[2]]  g == RowTotals(f, A, B)
<1>1. Summable(f, T) /\ IsFiniteSet(A) /\ IsFiniteSet(B) /\ p \in [T -> B] /\ f \in [T -> Int]
  BY PairsSum DEF OnPairs
<1>2. ASSUME NEW b \in B PROVE Sums(RowAt(f, A, b))[A] = Sums(f)[Part(T, p, b)]
  <2> DEFINE h == RowAt(f, A, b)  turn == [a \in A |-> <<a, b>>]
  <2>1. Carries(turn, A, T, f, h)
    <3>1. IsFiniteSet(T)
      BY <1>1 DEF Summable
    <3>2. turn \in [A -> T] /\ \A a, c \in A : turn[a] = turn[c] => a = c
      OBVIOUS
    <3>3. h \in [A -> Int] /\ \A a \in A : h[a] = f[turn[a]]
      BY <1>1 DEF RowAt
    <3> QED
      BY <1>1, <3>1, <3>2, <3>3 DEF Carries
  <2>2. {turn[a] : a \in A} = Part(T, p, b)
    BY DEF Part
  <2>3. A \in SUBSET A
    OBVIOUS
  <2> HIDE DEF turn, h, T, p
  <2>4. Sums(h)[A] = Sums(f)[{turn[a] : a \in A}]
    BY ONLY <2>1, <2>3, Carried
  <2> QED
    BY <2>2, <2>4 DEF h
<1>3. g = [b \in B |-> Sums(f)[Part(T, p, b)]]
  BY <1>2 DEF RowTotals
<1> HIDE DEF T, p, g
<1>4. Summable(g, B) /\ Sums(g)[B] = Sums(f)[T]
  BY ONLY <1>1, <1>3, SumByParts
<1> QED
  BY <1>1, <1>4 DEF SameTotal, g, T

LEMMA ByColumns ==
    ASSUME NEW A, NEW B, NEW f, OnPairs(f, A, B)
    PROVE  SameTotal(ColumnTotals(f, A, B), A, f, A \X B)
<1> DEFINE T == A \X B  p == [t \in T |-> t[1]]  g == ColumnTotals(f, A, B)
<1>1. Summable(f, T) /\ IsFiniteSet(A) /\ IsFiniteSet(B) /\ p \in [T -> A] /\ f \in [T -> Int]
  BY PairsSum DEF OnPairs
<1>2. ASSUME NEW a \in A PROVE Sums(ColumnAt(f, B, a))[B] = Sums(f)[Part(T, p, a)]
  <2> DEFINE h == ColumnAt(f, B, a)  turn == [b \in B |-> <<a, b>>]
  <2>1. Carries(turn, B, T, f, h)
    <3>1. IsFiniteSet(T)
      BY <1>1 DEF Summable
    <3>2. turn \in [B -> T] /\ \A b, c \in B : turn[b] = turn[c] => b = c
      OBVIOUS
    <3>3. h \in [B -> Int] /\ \A b \in B : h[b] = f[turn[b]]
      BY <1>1 DEF ColumnAt
    <3> QED
      BY <1>1, <3>1, <3>2, <3>3 DEF Carries
  <2>2. {turn[b] : b \in B} = Part(T, p, a)
    BY DEF Part
  <2>3. B \in SUBSET B
    OBVIOUS
  <2> HIDE DEF turn, h, T, p
  <2>4. Sums(h)[B] = Sums(f)[{turn[b] : b \in B}]
    BY ONLY <2>1, <2>3, Carried
  <2> QED
    BY <2>2, <2>4 DEF h
<1>3. g = [a \in A |-> Sums(f)[Part(T, p, a)]]
  BY <1>2 DEF ColumnTotals
<1> HIDE DEF T, p, g
<1>4. Summable(g, A) /\ Sums(g)[A] = Sums(f)[T]
  BY ONLY <1>1, <1>3, SumByParts
<1> QED
  BY <1>1, <1>4 DEF SameTotal, g, T

\* The sum of the products is the product of the sums.
PairProducts(u, A, v, B) == [t \in A \X B |-> u[t[1]] * v[t[2]]]

ProductsAddUp(u, A, v, B) ==
    Summable(PairProducts(u, A, v, B), A \X B) /\ Sums(PairProducts(u, A, v, B))[A \X B] = Sums(u)[A] * Sums(v)[B]

LEMMA SumOfProducts ==
    ASSUME NEW A, NEW B, NEW u, NEW v, Summable(u, A), Summable(v, B)
    PROVE  ProductsAddUp(u, A, v, B)
<1> DEFINE f == PairProducts(u, A, v, B)  a == Sums(u)[A]  g == RowTotals(f, A, B)
<1>1. u \in [A -> Int] /\ v \in [B -> Int] /\ IsFiniteSet(A) /\ IsFiniteSet(B)
  BY DEF Summable
<1>2. OnPairs(f, A, B)
  <2>1. f \in [A \X B -> Int]
    <3>1. ASSUME NEW x \in A, NEW y \in B PROVE u[x] * v[y] \in Int
      BY <1>1
    <3> QED
      BY <3>1 DEF PairProducts
  <2> QED
    BY <1>1, <2>1 DEF OnPairs
<1>3. SameTotal(g, B, f, A \X B)
  BY <1>2, ByRows
<1>4. a \in Int /\ A \in SUBSET A /\ B \in SUBSET B
  BY SumIsInt
<1>5. ASSUME NEW b \in B PROVE Sums(RowAt(f, A, b))[A] = a * v[b]
  <2> DEFINE h == RowAt(f, A, b)  c == v[b]
  <2>1. c \in Int
    BY <1>1
  <2>2. h = [x \in A |-> c * u[x]]
    <3>1. ASSUME NEW x \in A PROVE u[x] * v[b] = v[b] * u[x]
      BY <1>1
    <3> QED
      BY <3>1 DEF RowAt, PairProducts
  <2> HIDE DEF h, c
  <2>3. Sums(h)[A] = c * Sums(u)[A]
    BY ONLY <1>4, <2>1, <2>2, SumsScaled, Summable(u, A)
  <2> HIDE DEF a
  <2>4. c * a = a * c
    BY ONLY <1>4, <2>1
  <2> QED
    BY <2>3, <2>4 DEF h, c, a
<1>6. g = [b \in B |-> a * v[b]]
  BY <1>5 DEF RowTotals
<1> HIDE DEF a, f, g
<1>7. Sums(g)[B] = a * Sums(v)[B]
  BY ONLY <1>4, <1>6, SumsScaled, Summable(v, B)
<1> QED
  BY <1>3, <1>7 DEF SameTotal, ProductsAddUp, a, f
=============================================================================
