---------------------------- MODULE Calls_proofs ----------------------------
(***************************************************************************)
(* Theorems of the modules whose calls keep nothing: Messages, for every    *)
(* text and every size of a buffer; Digests, for any two digests, texts and *)
(* hashes; ColorBins, for every picture, any bins and any lanes; Filters,   *)
(* for images of any size and for every radius, kernel and weights;         *)
(* AreaMean, for images and grids of any size; Exif, for files made of any  *)
(* parts or chunks and cut anywhere.                                        *)
(***************************************************************************)
EXTENDS Messages, Digests, ColorBins, Filters, AreaMean, Exif, SequenceTheorems, Recursion

-----------------------------------------------------------------------------
\* Messages.  Where a UTF-8 text may be cut is seen from the byte behind the cut: that it
\* continues no character, or that there is none.  That a text is UTF-8 then says no more
\* than that each such byte but the last begins a character, which ends at the next one.
Starts(s) == {p \in 1..Len(s) + 1 : p = Len(s) + 1 \/ s[p] # "cont"}

Begins(s, p) ==
    /\ s[p] \in {"plain", "lead2", "lead3", "lead4"}
    /\ p + NeededBy(s[p]) <= Len(s) + 1
    /\ \A j \in p + 1..p + NeededBy(s[p]) - 1 : s[j] = "cont"

Characters(s) ==
    /\ 1 \in Starts(s)
    /\ \A p \in Starts(s) : p # Len(s) + 1 => Begins(s, p) /\ p + NeededBy(s[p]) \in Starts(s)

WholeFrom(s, f) ==
    f = [k \in 1..Len(s) + 1 |->
            k = Len(s) + 1 \/ /\ s[k] \in {"plain", "lead2", "lead3", "lead4"}
                              /\ k + NeededBy(s[k]) <= Len(s) + 1
                              /\ \A j \in k + 1..k + NeededBy(s[k]) - 1 : s[j] = "cont"
                              /\ f[k + NeededBy(s[k])]]

LEMMA NeededIs ==
    ASSUME NEW byte \in Bytes
    PROVE  NeededBy(byte) \in 1..4 /\ (byte = "plain" => NeededBy(byte) = 1)
  BY DEF NeededBy, Bytes

LEMMA WholeExists ==
    ASSUME NEW s \in Seq(Bytes)
    PROVE  \E f \in [1..Len(s) + 1 -> BOOLEAN] : WholeFrom(s, f)
<1> DEFINE n == Len(s)  D == 1..n + 1  m == [k \in D |-> (n + 1) - k]
     Next(k) == k + NeededBy(s[k])
     Is(k, f) == k = n + 1 \/ (Begins(s, k) /\ f[Next(k)])
     step == [k \in D |-> [f \in [D -> BOOLEAN] |-> Is(k, f)]]
<1>1. n \in Nat /\ \A k \in 1..n : s[k] \in Bytes
  OBVIOUS
<1>2. m \in [D -> 0..n]
  BY <1>1
<1>3. ASSUME NEW k \in D, k # n + 1, Begins(s, k) PROVE Next(k) \in D /\ m[Next(k)] < m[k]
  <2>1. k \in 1..n
    BY <1>1, <1>3
  <2>2. NeededBy(s[k]) \in 1..4
    BY <1>1, <2>1, NeededIs
  <2>3. Next(k) <= n + 1
    BY <1>3 DEF Begins
  <2> QED
    BY <1>1, <2>1, <2>2, <2>3
<1>4. step \in [D -> [[D -> BOOLEAN] -> BOOLEAN]]
  <2>1. \A k \in D : \A f \in [D -> BOOLEAN] : Is(k, f) \in BOOLEAN
    OBVIOUS
  <2> HIDE DEF Is
  <2> QED
    BY <2>1
<1>5. \A k \in D : \A f, g \in [D -> BOOLEAN] :
         (\A j \in D : m[j] < m[k] => f[j] = g[j]) => step[k][f] = step[k][g]
  <2> SUFFICES ASSUME NEW k \in D, NEW f \in [D -> BOOLEAN], NEW g \in [D -> BOOLEAN],
                      \A j \in D : m[j] < m[k] => f[j] = g[j]
               PROVE  step[k][f] = step[k][g]
    OBVIOUS
  <2>1. k # n + 1 /\ Begins(s, k) => f[Next(k)] = g[Next(k)]
    <3> HIDE DEF D, m, Next
    <3> QED
      BY <1>3
  <2>2. Is(k, f) = Is(k, g)
    <3> HIDE DEF Next, D, m
    <3> QED
      BY <2>1
  <2> HIDE DEF D, m, Is
  <2> QED
    BY <2>2
<1>6. Recursive(D, BOOLEAN, m, step)
  <2> HIDE DEF D, m, step
  <2> QED
    BY <1>4, <1>5 DEF Recursive
<1>7. PICK f \in [D -> BOOLEAN] : f = [k \in D |-> step[k][f]]
  <2> HIDE DEF D, m, step, n
  <2> QED
    BY <1>1, <1>2, <1>6, RecursionExists
<1>8. \A k \in D : step[k][f] = Is(k, f)
  <2> HIDE DEF Is, D
  <2> QED
    OBVIOUS
<1>9. f = [k \in D |-> Is(k, f)]
  <2> HIDE DEF step, D, Is
  <2> QED
    BY <1>7, <1>8
<1>10. WholeFrom(s, f)
  BY <1>9 DEF WholeFrom, Begins
<1> QED
  BY <1>10

\* The last place of a set up to some place.
LEMMA LastUpTo ==
    ASSUME NEW p \in Nat, NEW B, B \subseteq Nat, NEW q \in B, q <= p
    PROVE  \E b \in B : b <= p /\ \A c \in B : c <= p => c <= b
<1> DEFINE T == {p - b : b \in {c \in B : c <= p}}
<1>1. T \subseteq Nat /\ T # {}
  BY SMT
<1>2. PICK x \in T : \A y \in T : x <= y
  BY <1>1, LeastOne
<1>3. PICK b \in B : b <= p /\ x = p - b
  BY <1>2
<1>4. \A c \in B : c <= p => p - b <= p - c
  BY <1>2, <1>3
<1> QED
  BY <1>3, <1>4, SMT

\* A text is UTF-8 by the recursive definition exactly if it is by what can be seen at
\* each byte.
LEMMA Utf8Is ==
    ASSUME NEW s \in Seq(Bytes)
    PROVE  IsUtf8(s) <=> Characters(s)
<1> DEFINE n == Len(s)  D == 1..n + 1  F == CHOOSE f : WholeFrom(s, f)  Next(k) == k + NeededBy(s[k])
<1>1. n \in Nat /\ \A k \in 1..n : s[k] \in Bytes
  OBVIOUS
<1>2. IsUtf8(s) <=> F[1]
  BY DEF IsUtf8, WholeFrom
<1>3. WholeFrom(s, F)
  BY WholeExists
<1> HIDE DEF F
<1>4. \A k \in D : F[k] <=> k = n + 1 \/ (Begins(s, k) /\ F[Next(k)])
  <2>1. \A k \in D : F[k] = (k = n + 1 \/ (Begins(s, k) /\ F[Next(k)]))
    BY <1>3, Zenon DEF WholeFrom, Begins
  <2> QED
    BY <2>1
<1>5. \A k \in 1..n : NeededBy(s[k]) \in 1..4
  BY <1>1, NeededIs
<1>6. ASSUME F[1] PROVE Characters(s)
  <2> DEFINE W == {k \in D : F[k]}
  <2>1. W \subseteq Nat /\ 1 \in W
    BY <1>1, <1>6
  <2>2. ASSUME NEW k \in W, k # n + 1 PROVE k \in 1..n /\ Begins(s, k) /\ Next(k) \in W /\ s[k] # "cont"
    <3>1. k \in 1..n /\ Begins(s, k) /\ F[Next(k)]
      BY <1>1, <1>4, <2>2
    <3>2. Next(k) \in D
      BY <1>1, <1>5, <3>1 DEF Begins
    <3> QED
      BY <3>1, <3>2 DEF Begins
  <2>3. ASSUME NEW p \in D, p \notin W PROVE p # n + 1 /\ s[p] = "cont"
    <3> HIDE DEF W
    <3>1. PICK b \in W : b <= p /\ \A c \in W : c <= p => c <= b
      <4>1. p \in Nat /\ 1 <= p
        BY <1>1
      <4> QED
        BY <2>1, <4>1, LastUpTo
    <3>2. b \in Nat /\ b < p /\ b # n + 1
      BY <1>1, <2>1, <2>3, <3>1
    <3>3. b \in 1..n /\ Begins(s, b) /\ Next(b) \in W /\ NeededBy(s[b]) \in 1..4
      BY <1>5, <2>2, <3>1, <3>2
    <3>4. Next(b) > p
      BY <3>1, <3>3
    <3>5. Next(b) <= n + 1 /\ p \in b + 1..b + NeededBy(s[b]) - 1
      BY <1>1, <3>2, <3>3, <3>4 DEF Begins
    <3> QED
      BY <1>1, <3>3, <3>4, <3>5 DEF Begins
  <2>4. Starts(s) = W
    <3>1. ASSUME NEW p \in D PROVE p \in Starts(s) <=> p \in W
      <4>1. p \in Starts(s) <=> p = n + 1 \/ s[p] # "cont"
        BY DEF Starts
      <4>2. CASE p \in W
        <5> HIDE DEF W
        <5> QED
          BY <2>2, <4>1, <4>2
      <4>3. CASE p \notin W
        <5> HIDE DEF W
        <5> QED
          BY <2>3, <4>1, <4>3
      <4> QED
        BY <4>2, <4>3
    <3>2. Starts(s) \subseteq D /\ W \subseteq D
      BY DEF Starts
    <3> HIDE DEF W, D
    <3> QED
      BY <3>1, <3>2
  <2> HIDE DEF W
  <2> QED
    BY <2>1, <2>2, <2>4 DEF Characters
<1>7. ASSUME Characters(s) PROVE F[1]
  <2> DEFINE B == Starts(s)  m == [k \in B |-> (n + 1) - k]  S == {k \in B : F[k]}
  <2>1. B \subseteq D /\ m \in [B -> Nat]
    BY <1>1 DEF Starts
  <2>2. ASSUME NEW k \in B, \A j \in B : m[j] < m[k] => j \in S PROVE k \in S
    <3>1. CASE k = n + 1
      BY <1>4, <2>1, <3>1
    <3>2. CASE k # n + 1
      <4>1. Begins(s, k) /\ Next(k) \in B /\ k \in 1..n
        BY <1>1, <1>7, <2>1, <3>2 DEF Characters
      <4>2. m[Next(k)] < m[k]
        <5>1. Next(k) \in Int /\ Next(k) > k
          BY <1>5, <4>1
        <5> HIDE DEF Next
        <5> QED
          BY <1>1, <4>1, <5>1
      <4>3. F[Next(k)]
        BY <2>2, <4>1, <4>2
      <4> QED
        BY <1>4, <2>1, <4>1, <4>3
    <3> QED
      BY <3>1, <3>2
  <2> HIDE DEF B, m, S
  <2>3. \A k \in B : k \in S
    BY <2>1, <2>2, Inductively
  <2>4. 1 \in B
    BY <1>7 DEF Characters, B
  <2> QED
    BY <2>3, <2>4 DEF S
<1> QED
  BY <1>2, <1>6, <1>7

LEMMA CharactersAre ==
    ASSUME NEW s \in Seq(Bytes), IsUtf8(s)
    PROVE  /\ 1 \in Starts(s) /\ Starts(s) \subseteq 1..Len(s) + 1
           /\ \A p \in Starts(s) : p # Len(s) + 1 =>
                 /\ p \in 1..Len(s) /\ s[p] \in {"plain", "lead2", "lead3", "lead4"}
                 /\ NeededBy(s[p]) \in 1..4 /\ p + NeededBy(s[p]) \in Starts(s)
                 /\ \A j \in p + 1..p + NeededBy(s[p]) - 1 : s[j] = "cont"
           /\ \A p \in 1..Len(s) : p \in Starts(s) <=> s[p] # "cont"
<1>1. Characters(s)
  BY Utf8Is
<1>2. Len(s) \in Nat /\ \A p \in 1..Len(s) : s[p] \in Bytes
  OBVIOUS
<1>3. Starts(s) \subseteq 1..Len(s) + 1
  BY DEF Starts
<1>4. \A p \in 1..Len(s) : p \in Starts(s) <=> s[p] # "cont"
  BY <1>2 DEF Starts
<1>5. ASSUME NEW p \in Starts(s), p # Len(s) + 1
      PROVE  /\ p \in 1..Len(s) /\ s[p] \in {"plain", "lead2", "lead3", "lead4"}
             /\ NeededBy(s[p]) \in 1..4 /\ p + NeededBy(s[p]) \in Starts(s)
             /\ \A j \in p + 1..p + NeededBy(s[p]) - 1 : s[j] = "cont"
  <2>1. p \in 1..Len(s)
    BY <1>2, <1>3, <1>5
  <2>2. NeededBy(s[p]) \in 1..4
    BY <1>2, <2>1, NeededIs
  <2>3. Begins(s, p) /\ p + NeededBy(s[p]) \in Starts(s)
    BY <1>1, <1>5 DEF Characters
  <2> QED
    BY <2>1, <2>2, <2>3 DEF Begins
<1> QED
  BY <1>1, <1>3, <1>4, <1>5 DEF Characters

\* The same, to be shown of a text.
LEMMA TextIs ==
    ASSUME NEW s \in Seq(Bytes), s # <<>> => s[1] # "cont",
           \A p \in 1..Len(s) : s[p] # "cont" =>
              /\ s[p] \in {"plain", "lead2", "lead3", "lead4"}
              /\ p + NeededBy(s[p]) <= Len(s) + 1
              /\ \A j \in p + 1..p + NeededBy(s[p]) - 1 : s[j] = "cont"
              /\ p + NeededBy(s[p]) # Len(s) + 1 => s[p + NeededBy(s[p])] # "cont"
    PROVE  IsUtf8(s)
<1>1. Len(s) \in Nat /\ \A p \in 1..Len(s) : s[p] \in Bytes
  OBVIOUS
<1>2. 1 \in Starts(s)
  <2>1. Len(s) = 0 \/ s # <<>>
    BY EmptySeq
  <2> QED
    BY <1>1, <2>1 DEF Starts
<1>3. ASSUME NEW p \in Starts(s), p # Len(s) + 1 PROVE Begins(s, p) /\ p + NeededBy(s[p]) \in Starts(s)
  <2>1. p \in 1..Len(s) /\ s[p] # "cont"
    BY <1>1, <1>3 DEF Starts
  <2>2. NeededBy(s[p]) \in 1..4
    BY <1>1, <2>1, NeededIs
  <2>3. Begins(s, p)
    BY <2>1 DEF Begins
  <2>4. p + NeededBy(s[p]) \in 1..Len(s) + 1
    BY <1>1, <2>1, <2>2
  <2>5. p + NeededBy(s[p]) \in Starts(s)
    BY <2>1, <2>4 DEF Starts
  <2> QED
    BY <2>3, <2>5
<1> QED
  BY <1>2, <1>3, Utf8Is DEF Characters

LEMMA PartOf ==
    ASSUME NEW s \in Seq(Bytes), NEW i \in 1..Len(s) + 1, NEW j \in 0..Len(s), i <= j + 1
    PROVE  LET t == SubSeq(s, i, j) IN
           /\ t \in Seq(Bytes) /\ Len(t) = (j - i) + 1
           /\ \A k \in 1..(j - i) + 1 : t[k] = s[(i - 1) + k]
<1>1. Len(s) \in Nat /\ i \in Int /\ j \in Int /\ \A k \in i..j : s[k] \in Bytes
  OBVIOUS
<1>2. /\ SubSeq(s, i, j) \in Seq(Bytes) /\ Len(SubSeq(s, i, j)) = IF i <= j THEN j - i + 1 ELSE 0
      /\ \A k \in 1 .. j - i + 1 : SubSeq(s, i, j)[k] = s[i + k - 1]
  BY <1>1, SubSeqProperties
<1>3. \A k \in 1..j - i + 1 : i + k - 1 = (i - 1) + k
  BY <1>1
<1> QED
  BY <1>1, <1>2, <1>3

\* The beginning of a text is one exactly if it ends at a start.
LEMMA PrefixIsText ==
    ASSUME NEW s \in Seq(Bytes), IsUtf8(s), NEW c \in 0..Len(s)
    PROVE  IsUtf8(SubSeq(s, 1, c)) <=> c + 1 \in Starts(s)
<1> DEFINE t == SubSeq(s, 1, c)  n == Len(s)
<1>1. /\ 1 \in Starts(s) /\ Starts(s) \subseteq 1..n + 1
      /\ \A p \in Starts(s) : p # n + 1 =>
            /\ p \in 1..n /\ s[p] \in {"plain", "lead2", "lead3", "lead4"}
            /\ NeededBy(s[p]) \in 1..4 /\ p + NeededBy(s[p]) \in Starts(s)
            /\ \A j \in p + 1..p + NeededBy(s[p]) - 1 : s[j] = "cont"
      /\ \A p \in 1..n : p \in Starts(s) <=> s[p] # "cont"
  BY CharactersAre
<1>2. n \in Nat /\ c \in Nat /\ c <= n
  OBVIOUS
<1>3. t \in Seq(Bytes) /\ Len(t) = c /\ \A k \in 1..c : t[k] = s[k]
  <2>1. /\ t \in Seq(Bytes) /\ Len(t) = (c - 1) + 1
        /\ \A k \in 1..(c - 1) + 1 : t[k] = s[(1 - 1) + k]
    BY <1>2, PartOf
  <2> QED
    BY <1>2, <2>1
<1> HIDE DEF t, n
<1>4. ASSUME c + 1 \in Starts(s) PROVE IsUtf8(t)
  <2>1. t # <<>> => t[1] # "cont"
    <3>1. c # 0 => t[1] # "cont"
      BY <1>1, <1>2, <1>3
    <3> QED
      BY <1>3, <3>1, EmptySeq
  <2>2. ASSUME NEW p \in 1..c, t[p] # "cont"
        PROVE  /\ t[p] \in {"plain", "lead2", "lead3", "lead4"}
               /\ p + NeededBy(t[p]) <= c + 1
               /\ \A j \in p + 1..p + NeededBy(t[p]) - 1 : t[j] = "cont"
               /\ p + NeededBy(t[p]) # c + 1 => t[p + NeededBy(t[p])] # "cont"
    <3> DEFINE N == NeededBy(s[p])
    <3>1. p \in Starts(s) /\ t[p] = s[p] /\ p # n + 1
      BY <1>1, <1>2, <1>3, <2>2
    <3>2. /\ s[p] \in {"plain", "lead2", "lead3", "lead4"} /\ N \in 1..4 /\ p + N \in Starts(s)
          /\ \A j \in p + 1..p + N - 1 : s[j] = "cont"
      BY <1>1, <3>1
    <3> HIDE DEF N
    <3>3. p + N <= c + 1
      <4>1. ASSUME p + N > c + 1 PROVE FALSE
        <5>1. c + 1 \in p + 1..p + N - 1
          BY <1>2, <2>2, <3>2, <4>1
        <5>2. c + 1 \in 1..n
          BY <1>1, <1>2, <3>2, <4>1
        <5> QED
          BY <1>1, <1>4, <3>2, <5>1, <5>2
      <4> QED
        BY <1>2, <3>2, <4>1
    <3>4. \A j \in p + 1..p + N - 1 : t[j] = "cont"
      BY <1>2, <1>3, <3>2, <3>3
    <3>5. p + N # c + 1 => t[p + N] # "cont"
      <4>1. p + N # c + 1 => p + N \in 1..c /\ p + N \in 1..n
        BY <1>2, <3>2, <3>3
      <4> QED
        BY <1>1, <1>3, <3>2, <4>1
    <3> QED
      BY <3>1, <3>2, <3>3, <3>4, <3>5 DEF N
  <2> QED
    BY <1>3, <2>1, <2>2, TextIs
<1>5. ASSUME IsUtf8(t), c + 1 \notin Starts(s) PROVE FALSE
  <2>0. c + 1 \in 1..n /\ s[c + 1] = "cont"
    <3>1. c # n
      BY <1>2, <1>5 DEF Starts, n
    <3> QED
      BY <1>1, <1>2, <1>5, <3>1
  <2>1. PICK b \in Starts(s) : b <= c + 1 /\ \A d \in Starts(s) : d <= c + 1 => d <= b
    BY <1>1, <1>2, LastUpTo
  <2>2. b \in 1..c /\ b # n + 1
    BY <1>1, <1>2, <1>5, <2>1
  <2>3. NeededBy(s[b]) \in 1..4 /\ b + NeededBy(s[b]) \in Starts(s)
    BY <1>1, <2>1, <2>2
  <2>4. b + NeededBy(s[b]) > c + 1
    BY <1>2, <2>1, <2>2, <2>3
  <2>5. t[b] = s[b] /\ t[b] # "cont"
    BY <1>1, <1>2, <1>3, <2>1, <2>2
  <2>6. b \in Starts(t) /\ b # Len(t) + 1
    BY <1>2, <1>3, <2>2, <2>5 DEF Starts
  <2>7. b + NeededBy(t[b]) \in Starts(t) /\ Starts(t) \subseteq 1..Len(t) + 1
    BY <1>3, <1>5, <2>6, CharactersAre
  <2> QED
    BY <1>2, <1>3, <2>2, <2>3, <2>4, <2>5, <2>7
<1> QED
  BY <1>4, <1>5 DEF t

\* So is the end of a text, and two texts one after the other.
LEMMA SuffixIsText ==
    ASSUME NEW s \in Seq(Bytes), IsUtf8(s), NEW c \in 0..Len(s), c + 1 \in Starts(s)
    PROVE  IsUtf8(SubSeq(s, c + 1, Len(s)))
<1> DEFINE n == Len(s)  t == SubSeq(s, c + 1, n)
<1>1. /\ 1 \in Starts(s) /\ Starts(s) \subseteq 1..n + 1
      /\ \A p \in Starts(s) : p # n + 1 =>
            /\ p \in 1..n /\ s[p] \in {"plain", "lead2", "lead3", "lead4"}
            /\ NeededBy(s[p]) \in 1..4 /\ p + NeededBy(s[p]) \in Starts(s)
            /\ \A j \in p + 1..p + NeededBy(s[p]) - 1 : s[j] = "cont"
      /\ \A p \in 1..n : p \in Starts(s) <=> s[p] # "cont"
  BY CharactersAre
<1>2. n \in Nat /\ c \in Nat /\ c <= n
  OBVIOUS
<1>3. t \in Seq(Bytes) /\ Len(t) = n - c /\ \A k \in 1..n - c : t[k] = s[c + k]
  <2>1. c + 1 \in 1..n + 1 /\ n \in 0..n /\ c + 1 <= n + 1
    BY <1>2
  <2>2. /\ t \in Seq(Bytes) /\ Len(t) = (n - (c + 1)) + 1
        /\ \A k \in 1..(n - (c + 1)) + 1 : t[k] = s[((c + 1) - 1) + k]
    BY <2>1, PartOf
  <2>3. (n - (c + 1)) + 1 = n - c /\ (c + 1) - 1 = c
    BY <1>2
  <2> QED
    BY <2>2, <2>3
<1> HIDE DEF t, n
<1>4. t # <<>> => t[1] # "cont"
  <2>1. n - c # 0 => t[1] # "cont"
    <3>1. n - c # 0 => 1 \in 1..n - c /\ c + 1 \in 1..n
      BY <1>2
    <3> QED
      BY <1>1, <1>3, <3>1
  <2> QED
    BY <1>3, <2>1, EmptySeq
<1>5. ASSUME NEW p \in 1..n - c, t[p] # "cont"
      PROVE  /\ t[p] \in {"plain", "lead2", "lead3", "lead4"}
             /\ p + NeededBy(t[p]) <= (n - c) + 1
             /\ \A j \in p + 1..p + NeededBy(t[p]) - 1 : t[j] = "cont"
             /\ p + NeededBy(t[p]) # (n - c) + 1 => t[p + NeededBy(t[p])] # "cont"
  <2> DEFINE N == NeededBy(s[c + p])
  <2>1. c + p \in 1..n /\ t[p] = s[c + p] /\ c + p \in Starts(s) /\ c + p # n + 1
    BY <1>1, <1>2, <1>3, <1>5
  <2>2. /\ s[c + p] \in {"plain", "lead2", "lead3", "lead4"} /\ N \in 1..4 /\ (c + p) + N \in Starts(s)
        /\ \A j \in (c + p) + 1..(c + p) + N - 1 : s[j] = "cont"
    BY <1>1, <2>1
  <2> HIDE DEF N
  <2>3. (c + p) + N \in 1..n + 1
    BY <1>1, <2>2
  <2>4. p + N <= (n - c) + 1
    BY <1>2, <2>2, <2>3
  <2>5. ASSUME NEW j \in p + 1..p + N - 1 PROVE t[j] = "cont"
    <3>1. j \in 1..n - c /\ c + j \in (c + p) + 1..(c + p) + N - 1
      BY <1>2, <2>2, <2>4
    <3> QED
      BY <1>3, <2>2, <3>1
  <2>6. p + N # (n - c) + 1 => t[p + N] # "cont"
    <3> SUFFICES ASSUME p + N # (n - c) + 1 PROVE t[p + N] # "cont"
      OBVIOUS
    <3>1. p + N \in 1..n - c /\ c + (p + N) = (c + p) + N /\ (c + p) + N \in 1..n
      BY <1>2, <2>2, <2>4
    <3>2. t[p + N] = s[(c + p) + N]
      BY <1>3, <3>1
    <3>3. s[(c + p) + N] # "cont"
      BY <1>1, <2>2, <3>1
    <3> QED
      BY <3>2, <3>3
  <2> QED
    BY <2>1, <2>2, <2>4, <2>5, <2>6 DEF N
<1> QED
  BY <1>3, <1>4, <1>5, TextIs DEF t, n

LEMMA TextsJoin ==
    ASSUME NEW s \in Seq(Bytes), NEW t \in Seq(Bytes)
    PROVE  /\ s \o t \in Seq(Bytes) /\ Len(s \o t) = Len(s) + Len(t)
           /\ IsUtf8(s) /\ IsUtf8(t) => IsUtf8(s \o t)
<1> DEFINE a == Len(s)  b == Len(t)  u == s \o t
<1>0. /\ u \in Seq(Bytes) /\ Len(u) = a + b
      /\ \A i \in 1..a + b : u[i] = IF i <= a THEN s[i] ELSE t[i - a]
  BY ConcatProperties
<1>2. a \in Nat /\ b \in Nat
  OBVIOUS
<1> SUFFICES ASSUME IsUtf8(s), IsUtf8(t) PROVE IsUtf8(u)
  BY <1>0
<1>1. /\ 1 \in Starts(s) /\ Starts(s) \subseteq 1..a + 1
      /\ \A p \in Starts(s) : p # a + 1 =>
            /\ p \in 1..a /\ s[p] \in {"plain", "lead2", "lead3", "lead4"}
            /\ NeededBy(s[p]) \in 1..4 /\ p + NeededBy(s[p]) \in Starts(s)
            /\ \A j \in p + 1..p + NeededBy(s[p]) - 1 : s[j] = "cont"
      /\ \A p \in 1..a : p \in Starts(s) <=> s[p] # "cont"
  BY CharactersAre
<1>3. /\ 1 \in Starts(t) /\ Starts(t) \subseteq 1..b + 1
      /\ \A p \in Starts(t) : p # b + 1 =>
            /\ p \in 1..b /\ t[p] \in {"plain", "lead2", "lead3", "lead4"}
            /\ NeededBy(t[p]) \in 1..4 /\ p + NeededBy(t[p]) \in Starts(t)
            /\ \A j \in p + 1..p + NeededBy(t[p]) - 1 : t[j] = "cont"
      /\ \A p \in 1..b : p \in Starts(t) <=> t[p] # "cont"
  BY CharactersAre
<1> HIDE DEF a, b, u
<1>4. \A i \in 1..a : i \in 1..a + b /\ u[i] = s[i]
  BY <1>0, <1>2
<1>5. \A i \in 1..b : a + i \in 1..a + b /\ u[a + i] = t[i]
  <2>1. \A i \in 1..b : a + i \in 1..a + b /\ ~(a + i <= a) /\ (a + i) - a = i
    BY <1>2
  <2> QED
    BY <1>0, <2>1
<1>6. ASSUME NEW q \in 1..a + 1, q \in Starts(s), q # (a + b) + 1 PROVE u[q] # "cont"
  <2>1. CASE q \in 1..a
    BY <1>1, <1>4, <1>6, <2>1
  <2>2. CASE q = a + 1
    <3>1. 1 \in 1..b
      BY <1>2, <1>6, <2>2
    <3> QED
      BY <1>3, <1>5, <2>2, <3>1
  <2> QED
    BY <1>2, <2>1, <2>2
<1>7. ASSUME NEW p \in 1..a + b, u[p] # "cont"
      PROVE  /\ u[p] \in {"plain", "lead2", "lead3", "lead4"}
             /\ p + NeededBy(u[p]) <= (a + b) + 1
             /\ \A j \in p + 1..p + NeededBy(u[p]) - 1 : u[j] = "cont"
             /\ p + NeededBy(u[p]) # (a + b) + 1 => u[p + NeededBy(u[p])] # "cont"
  <2>1. CASE p \in 1..a
    <3> DEFINE N == NeededBy(s[p])
    <3>1. u[p] = s[p] /\ p \in Starts(s) /\ p # a + 1
      BY <1>1, <1>2, <1>4, <1>7, <2>1
    <3>2. /\ s[p] \in {"plain", "lead2", "lead3", "lead4"} /\ N \in 1..4 /\ p + N \in Starts(s)
          /\ \A j \in p + 1..p + N - 1 : s[j] = "cont"
      BY <1>1, <3>1
    <3> HIDE DEF N
    <3>3. p + N \in 1..a + 1
      BY <1>1, <3>2
    <3>4. \A j \in p + 1..p + N - 1 : u[j] = "cont"
      <4>1. \A j \in p + 1..p + N - 1 : j \in 1..a
        BY <1>2, <2>1, <3>2, <3>3
      <4> QED
        BY <1>4, <3>2, <4>1
    <3> QED
      BY <1>2, <1>6, <3>1, <3>2, <3>3, <3>4 DEF N
  <2>2. CASE p \notin 1..a
    <3> DEFINE r == p - a  N == NeededBy(t[r])
    <3>1. r \in 1..b /\ p = a + r
      BY <1>2, <2>2
    <3> HIDE DEF r
    <3>2. u[p] = t[r] /\ r \in Starts(t) /\ r # b + 1
      BY <1>2, <1>3, <1>5, <1>7, <3>1
    <3>3. /\ t[r] \in {"plain", "lead2", "lead3", "lead4"} /\ N \in 1..4 /\ r + N \in Starts(t)
          /\ \A j \in r + 1..r + N - 1 : t[j] = "cont"
      BY <1>3, <3>2
    <3> HIDE DEF N
    <3>4. r + N \in 1..b + 1
      BY <1>3, <3>3
    <3>5. ASSUME NEW j \in p + 1..p + N - 1 PROVE u[j] = "cont"
      <4>1. j - a \in 1..b /\ j = a + (j - a) /\ j - a \in r + 1..r + N - 1
        BY <1>2, <3>1, <3>3, <3>4
      <4> QED
        BY <1>5, <3>3, <4>1
    <3>6. p + N = a + (r + N) /\ p + N <= (a + b) + 1
      BY <1>2, <3>1, <3>3, <3>4
    <3>7. p + N # (a + b) + 1 => u[p + N] # "cont"
      <4>1. p + N # (a + b) + 1 => r + N \in 1..b
        BY <1>2, <3>3, <3>4, <3>6
      <4> QED
        BY <1>3, <1>5, <3>3, <3>6, <4>1
    <3> QED
      BY <3>2, <3>3, <3>5, <3>6, <3>7 DEF N
  <2> QED
    BY <2>1, <2>2
<1>8. u # <<>> => u[1] # "cont"
  <2>1. a + b # 0 => u[1] # "cont"
    BY <1>1, <1>2, <1>6
  <2> QED
    BY <1>0, <2>1, EmptySeq
<1> QED
  BY <1>0, <1>7, <1>8, TextIs

\* What ph_utf8_cut() steps back to.
LEMMA BackIs ==
    ASSUME NEW s \in Seq(Bytes), NEW length \in 0..Len(s)
    PROVE  LET back == Back(s, length) IN
           /\ back \in 0..length /\ back <= 4
           /\ \A k \in 0..back - 1 : s[length - k] = "cont"
           /\ back = 4 \/ back = length \/ s[length - back] # "cont"
<1> DEFINE Stop(b) == b = 4 \/ b = length \/ s[length - b] # "cont"
     T == {b \in 0..length : Stop(b)}
<1>1. length \in Nat
  OBVIOUS
<1>2. T \subseteq Nat /\ length \in T
  BY <1>1
<1>3. PICK b \in T : \A k \in T : b <= k
  BY <1>2, LeastOne
<1>4. b \in 0..length /\ Stop(b)
  OBVIOUS
<1>5. \A k \in 0..b - 1 : k \in 0..length /\ ~Stop(k)
  <2> SUFFICES ASSUME NEW k \in 0..b - 1 PROVE k \in 0..length /\ ~Stop(k)
    OBVIOUS
  <2>1. k \in 0..length /\ k < b
    BY <1>1, <1>4
  <2>2. k \notin T
    BY <1>2, <1>3, <2>1
  <2> QED
    BY <2>1, <2>2
<1>6. b <= 4
  <2>1. 4 < b => 4 \in 0..b - 1
    BY <1>1, <1>4
  <2> QED
    BY <1>1, <1>4, <1>5, <2>1
<1>7. \A k \in 0..b - 1 : s[length - k] = "cont"
  BY <1>5
<1> HIDE DEF T
<1>8. \E back \in 0..length :
        /\ back <= MaxBack /\ \A k \in 0..back - 1 : s[length - k] = "cont"
        /\ back = MaxBack \/ back = length \/ s[length - back] # "cont"
  BY <1>4, <1>6, <1>7 DEF MaxBack
<1> HIDE DEF Stop
<1> QED
  BY <1>8 DEF Back, MaxBack

\* Of any text at most three bytes go.
LEMMA CutIs ==
    ASSUME NEW s \in Seq(Bytes), NEW length \in 0..Len(s)
    PROVE  Utf8Cut(s, length) \in 0..length /\ Utf8Cut(s, length) >= length - 3
<1> DEFINE back == Back(s, length)  lead == s[length - back]
<1>1. back \in 0..length /\ length \in Nat
  BY BackIs
<1>2. Utf8Cut(s, length) = IF back = length \/ lead \notin {"lead2", "lead3", "lead4"} THEN length
                          ELSE IF back + 1 < NeededBy(lead) THEN (length - back) - 1 ELSE length
  BY DEF Utf8Cut, Lacks
<1>3. lead \in {"lead2", "lead3", "lead4"} => NeededBy(lead) \in 1..4
  BY NeededIs DEF Bytes
<1> HIDE DEF back, lead
<1> QED
  BY <1>1, <1>2, <1>3

\* A UTF-8 text is cut at a start, the last one that is not behind the cut.
LEMMA CutIsStart ==
    ASSUME NEW s \in Seq(Bytes), IsUtf8(s), NEW length \in 0..Len(s)
    PROVE  /\ Utf8Cut(s, length) + 1 \in Starts(s)
           /\ \A k \in Utf8Cut(s, length) + 1..length : k + 1 \notin Starts(s)
<1> DEFINE n == Len(s)  back == Back(s, length)  p == length - back  cut == Utf8Cut(s, length)
<1>1. /\ 1 \in Starts(s) /\ Starts(s) \subseteq 1..n + 1
      /\ \A q \in Starts(s) : q # n + 1 =>
            /\ q \in 1..n /\ s[q] \in {"plain", "lead2", "lead3", "lead4"}
            /\ NeededBy(s[q]) \in 1..4 /\ q + NeededBy(s[q]) \in Starts(s)
            /\ \A j \in q + 1..q + NeededBy(s[q]) - 1 : s[j] = "cont"
      /\ \A q \in 1..n : q \in Starts(s) <=> s[q] # "cont"
  BY CharactersAre
<1>2. /\ back \in 0..length /\ back <= 4
      /\ \A k \in 0..back - 1 : s[length - k] = "cont"
      /\ back = 4 \/ back = length \/ s[length - back] # "cont"
  BY BackIs
<1>3. cut = IF back = length \/ s[p] \notin {"lead2", "lead3", "lead4"} THEN length
            ELSE IF back + 1 < NeededBy(s[p]) THEN (length - back) - 1 ELSE length
  BY DEF Utf8Cut, Lacks
<1>4. length \in Nat /\ n \in Nat /\ length <= n
  OBVIOUS
<1> HIDE DEF n, back, cut
<1>5. CASE length = 0
  BY <1>1, <1>2, <1>3, <1>5 DEF cut
<1>6. CASE length # 0
  <2>1. \A j \in p + 1..length : s[j] = "cont" /\ j \in 1..n
    <3> SUFFICES ASSUME NEW j \in p + 1..length PROVE s[j] = "cont" /\ j \in 1..n
      OBVIOUS
    <3>1. length - j \in 0..back - 1 /\ length - (length - j) = j /\ j \in 1..n
      BY <1>2, <1>4
    <3>2. s[length - (length - j)] = "cont"
      BY <1>2, <3>1
    <3> QED
      BY <3>1, <3>2
  <2>2. PICK b \in Starts(s) : b <= length /\ \A d \in Starts(s) : d <= length => d <= b
    <3>1. Starts(s) \subseteq Nat /\ 1 <= length
      BY <1>1, <1>4, <1>6
    <3> QED
      BY <1>1, <1>4, <3>1, LastUpTo
  <2>3. b \in 1..n /\ b <= p /\ b # n + 1
    <3>1. b \in 1..n /\ b # n + 1
      BY <1>1, <1>4, <2>2
    <3>2. b > p => b \in p + 1..length
      BY <1>2, <1>4, <2>2, <3>1
    <3>3. s[b] # "cont"
      BY <1>1, <2>2, <3>1
    <3> QED
      BY <1>2, <1>4, <2>1, <3>1, <3>2, <3>3
  <2> DEFINE N == NeededBy(s[b])
  <2>4. /\ s[b] \in {"plain", "lead2", "lead3", "lead4"} /\ N \in 1..4 /\ b + N \in Starts(s)
        /\ \A j \in b + 1..b + N - 1 : s[j] = "cont"
    BY <1>1, <2>2, <2>3
  <2>n. s[b] = "plain" => N = 1
    BY NeededIs DEF Bytes
  <2> HIDE DEF N
  <2>5. b + N > length /\ b + N \in 1..n + 1
    BY <1>1, <1>4, <2>2, <2>3, <2>4
  <2>6. b = p
    <3>1. b < p => s[p] = "cont" /\ p # 0
      <4>1. b < p => p \in b + 1..b + N - 1
        BY <1>2, <1>4, <2>3, <2>4, <2>5
      <4> QED
        BY <1>4, <2>3, <2>4, <4>1
    <3>2. b < p => back = 4
      BY <1>2, <1>4, <2>3, <3>1
    <3> QED
      BY <1>2, <1>4, <2>3, <2>4, <2>5, <3>2
  <2>7. back # length /\ length - back = b
    BY <1>2, <1>4, <2>3, <2>6
  <2>8. cut = IF back + 1 < N THEN b - 1 ELSE length
    <3>1. CASE s[b] = "plain"
      <4>1. cut = length
        BY <1>3, <2>6, <3>1
      <4> QED
        BY <1>2, <2>n, <3>1, <4>1
    <3>2. CASE s[b] # "plain"
      BY <1>3, <2>4, <2>6, <2>7, <3>2 DEF N
    <3> QED
      BY <3>1, <3>2
  <2>9. CASE back + 1 < N
    <3>1. cut = b - 1 /\ cut + 1 = b
      BY <2>3, <2>8, <2>9
    <3>2. ASSUME NEW k \in cut + 1..length PROVE k + 1 \notin Starts(s)
      <4>1. k + 1 \in b + 1..b + N - 1 /\ k + 1 \in 1..n
        BY <1>2, <1>4, <2>3, <2>4, <2>5, <2>7, <2>9, <3>1
      <4> QED
        BY <1>1, <2>4, <4>1
    <3> QED
      BY <2>2, <3>1, <3>2 DEF cut
  <2>10. CASE ~(back + 1 < N)
    <3>1. cut = length
      BY <2>8, <2>10
    <3>2. length + 1 = b + N
      BY <1>2, <1>4, <2>3, <2>4, <2>5, <2>7, <2>10
    <3> QED
      BY <1>4, <2>4, <3>1, <3>2 DEF cut
  <2> QED
    BY <2>9, <2>10
<1> QED
  BY <1>5, <1>6 DEF cut

LEMMA MessageIsCut ==
    ASSUME NEW msg \in Seq(Bytes), NEW room \in Nat \ {0}
    PROVE  MessageCut(msg, room, SetErrMsg(msg, room))
<1> DEFINE answer == SetErrMsg(msg, room)  n == Len(msg)  cut == Utf8Cut(msg, room - 1)
<1>1. n \in Nat /\ room \in Nat /\ room >= 1 /\ SubSeq(msg, 1, n) = msg
  BY SubSeqFull
<1>2. CASE n < room
  <2>1. answer = msg
    BY <1>2 DEF SetErrMsg
  <2>2. IsPrefix(answer, msg)
    BY <1>1, <2>1 DEF IsPrefix
  <2> HIDE DEF answer, n
  <2>3. \A k \in n + 1..n : FALSE
    BY <1>1
  <2> QED
    BY <1>1, <1>2, <2>1, <2>2, <2>3 DEF MessageCut, answer, n
<1>3. CASE ~(n < room)
  <2>1. room - 1 \in 0..n
    BY <1>1, <1>3
  <2>2. cut \in 0..room - 1 /\ cut >= (room - 1) - 3
    BY <2>1, CutIs
  <2>3. answer = SubSeq(msg, 1, cut)
    BY <1>3 DEF SetErrMsg
  <2>4. answer \in Seq(Bytes) /\ Len(answer) = cut /\ cut \in 0..n
    <3>1. cut \in Nat /\ cut <= n /\ 1 \in 1..n + 1 /\ cut \in 0..n /\ 1 <= cut + 1 /\ (cut - 1) + 1 = cut
      BY <1>1, <2>1, <2>2
    <3> HIDE DEF cut
    <3> QED
      BY <2>3, <3>1, PartOf
  <2>5. IsPrefix(answer, msg)
    <3>1. SubSeq(answer, 1, cut) = answer
      BY <2>4, SubSeqFull
    <3> HIDE DEF answer, cut
    <3> QED
      BY <1>1, <2>3, <2>4, <3>1 DEF IsPrefix
  <2>6. ASSUME IsUtf8(msg)
        PROVE  /\ IsUtf8(answer)
               /\ \A k \in cut + 1..n : k < room => ~IsUtf8(SubSeq(msg, 1, k))
    <3>1. cut + 1 \in Starts(msg) /\ \A k \in cut + 1..room - 1 : k + 1 \notin Starts(msg)
      BY <2>1, <2>6, CutIsStart
    <3> HIDE DEF answer, cut
    <3>2. IsUtf8(answer)
      BY <2>3, <2>4, <2>6, <3>1, PrefixIsText
    <3>3. ASSUME NEW k \in cut + 1..n, k < room PROVE ~IsUtf8(SubSeq(msg, 1, k))
      <4>1. k \in 0..n /\ k \in cut + 1..room - 1
        BY <1>1, <2>4, <3>3
      <4> QED
        BY <2>6, <3>1, <4>1, PrefixIsText
    <3> QED
      BY <3>2, <3>3
  <2> HIDE DEF answer, cut
  <2>7. cut < room /\ cut >= room - 4
    BY <1>1, <2>2
  <2>8. MessageCut(msg, room, answer)
    BY <2>4, <2>5, <2>6, <2>7 DEF MessageCut
  <2> QED
    BY <2>8 DEF answer
<1> QED
  BY <1>2, <1>3

LEMMA PlainIs ==
    ASSUME NEW count \in Nat
    PROVE  Plain(count) \in Seq(Bytes) /\ Len(Plain(count)) = count /\ IsUtf8(Plain(count))
<1>1. Plain(count) \in Seq(Bytes) /\ Len(Plain(count)) = count /\ \A k \in 1..count : Plain(count)[k] = "plain"
  BY DEF Plain, Bytes
<1>2. NeededBy("plain") = 1
  BY NeededIs DEF Bytes
<1> HIDE DEF Plain
<1> DEFINE s == Plain(count)
<1>3. s # <<>> => s[1] # "cont"
  <2>1. count # 0 => s[1] # "cont"
    BY <1>1
  <2> QED
    BY <1>1, <2>1, EmptySeq
<1>4. ASSUME NEW p \in 1..count
      PROVE  /\ s[p] \in {"plain", "lead2", "lead3", "lead4"}
             /\ p + NeededBy(s[p]) <= count + 1
             /\ \A j \in p + 1..p + NeededBy(s[p]) - 1 : s[j] = "cont"
             /\ p + NeededBy(s[p]) # count + 1 => s[p + NeededBy(s[p])] # "cont"
  <2>1. s[p] = "plain" /\ NeededBy(s[p]) = 1
    BY <1>1, <1>2
  <2>2. \A j \in p + 1..p + 1 - 1 : FALSE
    OBVIOUS
  <2>3. p + 1 # count + 1 => p + 1 \in 1..count
    BY <1>4
  <2> QED
    BY <1>1, <2>1, <2>2, <2>3
<1> HIDE DEF s
<1>5. IsUtf8(s)
  BY <1>1, <1>3, <1>4, TextIs DEF s
<1> QED
  BY <1>1, <1>5 DEF s

\* Where the end of a path begins: at most three bytes behind where it may.
LEMMA TailIs ==
    ASSUME NEW path \in Seq(Bytes), NEW start \in 0..Len(path)
    PROVE  LET k == TailStart(path, start) IN
           /\ k \in start..Len(path)
           /\ IsUtf8(path) => k + 1 \in Starts(path) /\ k <= start + 3
<1> DEFINE n == Len(path)  Stop(k) == k = n \/ path[k + 1] # "cont"
     T == {k \in start..n : Stop(k)}  tail == TailStart(path, start)
<1>1. n \in Nat /\ start \in Nat /\ start <= n
  OBVIOUS
<1>2. T \subseteq Nat /\ n \in T
  BY <1>1
<1>3. PICK k \in T : \A j \in T : k <= j
  BY <1>2, LeastOne
<1>4. \A j \in start..k - 1 : path[j + 1] = "cont"
  <2> SUFFICES ASSUME NEW j \in start..k - 1 PROVE path[j + 1] = "cont"
    OBVIOUS
  <2>1. j < k /\ j \in start..n
    BY <1>1, <1>3
  <2>2. j \notin T
    BY <1>2, <1>3, <2>1
  <2> QED
    BY <2>1, <2>2
<1>5. k \in start..n /\ Stop(k)
  BY <1>3
<1>6. /\ tail \in start..n
      /\ tail = n \/ path[tail + 1] # "cont"
      /\ \A j \in start..tail - 1 : path[j + 1] = "cont"
  BY <1>4, <1>5 DEF TailStart
<1> HIDE DEF tail, n, Stop, T
<1>7. ASSUME IsUtf8(path) PROVE tail + 1 \in Starts(path) /\ tail <= start + 3
  <2>1. /\ 1 \in Starts(path) /\ Starts(path) \subseteq 1..n + 1
        /\ \A q \in Starts(path) : q # n + 1 =>
              /\ q \in 1..n /\ path[q] \in {"plain", "lead2", "lead3", "lead4"}
              /\ NeededBy(path[q]) \in 1..4 /\ q + NeededBy(path[q]) \in Starts(path)
              /\ \A j \in q + 1..q + NeededBy(path[q]) - 1 : path[j] = "cont"
        /\ \A q \in 1..n : q \in Starts(path) <=> path[q] # "cont"
    BY <1>7, CharactersAre DEF n
  <2>2. tail + 1 \in Starts(path)
    BY <1>1, <1>6 DEF Starts, n
  <2>3. PICK b \in Starts(path) : b <= start + 1 /\ \A d \in Starts(path) : d <= start + 1 => d <= b
    <3>1. Starts(path) \subseteq Nat /\ 1 <= start + 1 /\ start + 1 \in Nat
      BY <1>1, <2>1
    <3> QED
      BY <2>1, <3>1, LastUpTo
  <2>4. CASE tail <= start
    BY <1>1, <1>6, <2>2, <2>4
  <2>5. CASE tail > start
    <3>1. start + 1 \in 1..n /\ path[start + 1] = "cont" /\ start + 1 \notin Starts(path)
      <4>1. start \in start..tail - 1 /\ start + 1 \in 1..n
        BY <1>1, <1>6, <2>5
      <4> QED
        BY <1>6, <2>1, <4>1
    <3>2. b <= start /\ b \in Nat /\ b # n + 1
      BY <1>1, <2>1, <2>3, <3>1
    <3> DEFINE N == NeededBy(path[b])
    <3>3. N \in 1..4 /\ b + N \in Starts(path) /\ b + N \in 1..n + 1
      BY <2>1, <2>3, <3>2
    <3> HIDE DEF N
    <3>4. b + N > start + 1
      BY <1>1, <2>3, <3>2, <3>3
    <3>5. tail < b + N
      <4>1. ASSUME tail >= b + N PROVE FALSE
        <5>1. (b + N) - 1 \in start..tail - 1 /\ ((b + N) - 1) + 1 = b + N /\ b + N \in 1..n
          BY <1>1, <1>6, <3>2, <3>3, <3>4, <4>1
        <5>2. path[b + N] = "cont"
          BY <1>6, <5>1
        <5> QED
          BY <2>1, <3>3, <5>1, <5>2
      <4> QED
        BY <1>1, <1>6, <3>2, <3>3, <4>1
    <3> QED
      BY <1>1, <1>6, <2>2, <3>2, <3>3, <3>5
  <2> QED
    BY <1>1, <1>6, <2>4, <2>5
<1> QED
  BY <1>6, <1>7 DEF tail, n

LEMMA PathIsCut ==
    ASSUME NEW path \in Seq(Bytes), NEW before \in Nat, NEW after \in Nat, NEW size \in Nat \ {0},
           NEW given, given = [path |-> path, before |-> before, after |-> after, size |-> size]
    PROVE  PathCut(given, PathMsg(path, before, after, size))
<1> DEFINE n == Len(path)  fixed == before + after
     whole == Plain(before) \o path \o Plain(after)
     room == ((size - 1) - fixed) - 3
     head == Utf8Cut(path, room \div 2)
     start == n - (room - room \div 2)
     tail == TailStart(path, start)
     answer == PathMsg(path, before, after, size)
     ends(h, t) == Plain(before) \o SubSeq(path, 1, h) \o Plain(3) \o SubSeq(path, n - t + 1, n) \o Plain(after)
<1>0. n \in Nat /\ fixed \in Nat /\ size \in Nat /\ size >= 1
  OBVIOUS
<1>1. answer = IF fixed + n < size THEN whole
               ELSE IF fixed + 3 + 2 >= size THEN SubSeq(whole, 1, Utf8Cut(whole, size - 1))
               ELSE Plain(before) \o SubSeq(path, 1, head) \o Plain(3) \o SubSeq(path, tail + 1, n) \o Plain(after)
  BY DEF PathMsg, Ellipsis
<1>2. PathCut(given, answer) <=>
        /\ Len(answer) < size
        /\ IsUtf8(path) => IsUtf8(answer)
        /\ (fixed + 3) + 2 < size /\ before + n + after >= size =>
              \E h, t \in 0..n :
                  /\ h + t <= n /\ answer = ends(h, t)
                  /\ IsUtf8(path) => (fixed + 3) + h + t >= size - 7
  BY DEF PathCut, Ellipsis
<1>3. /\ whole \in Seq(Bytes) /\ Len(whole) = fixed + n
      /\ IsUtf8(path) => IsUtf8(whole)
  <2>1. /\ Plain(before) \in Seq(Bytes) /\ Len(Plain(before)) = before /\ IsUtf8(Plain(before))
        /\ Plain(after) \in Seq(Bytes) /\ Len(Plain(after)) = after /\ IsUtf8(Plain(after))
    BY PlainIs
  <2> DEFINE first == Plain(before) \o path
  <2>2. first \in Seq(Bytes) /\ Len(first) = before + n /\ (IsUtf8(path) => IsUtf8(first))
    BY <2>1, TextsJoin
  <2> HIDE DEF first
  <2> DEFINE last == Plain(after)
  <2>a. last \in Seq(Bytes) /\ Len(last) = after /\ IsUtf8(last)
    BY <2>1
  <2> HIDE DEF last
  <2>b. /\ first \o last \in Seq(Bytes) /\ Len(first \o last) = Len(first) + Len(last)
        /\ IsUtf8(first) /\ IsUtf8(last) => IsUtf8(first \o last)
    BY ONLY <2>2, <2>a, TextsJoin
  <2>3. /\ first \o Plain(after) \in Seq(Bytes) /\ Len(first \o Plain(after)) = Len(first) + after
        /\ IsUtf8(first) => IsUtf8(first \o Plain(after))
    BY ONLY <2>a, <2>b DEF last
  <2> QED
    BY <2>2, <2>3 DEF first
<1> HIDE DEF whole, answer, ends
<1>4. CASE fixed + n < size
  <2>1. answer = whole
    BY <1>1, <1>4
  <2> QED
    BY <1>0, <1>2, <1>3, <1>4, <2>1 DEF answer
<1>5. CASE ~(fixed + n < size) /\ fixed + 3 + 2 >= size
  <2> DEFINE cut == Utf8Cut(whole, size - 1)
  <2>1. answer = SubSeq(whole, 1, cut)
    BY <1>1, <1>5
  <2>2. size - 1 \in 0..Len(whole)
    BY <1>0, <1>3, <1>5
  <2>3. cut \in 0..size - 1 /\ (IsUtf8(whole) => cut + 1 \in Starts(whole))
    BY <1>3, <2>2, CutIs, CutIsStart
  <2> HIDE DEF cut
  <2>4. cut \in 0..Len(whole) /\ 1 \in 1..Len(whole) + 1 /\ 1 <= cut + 1 /\ (cut - 1) + 1 = cut
    BY <1>0, <1>3, <2>2, <2>3
  <2>5. Len(answer) = cut
    BY <1>3, <2>1, <2>4, PartOf
  <2>6. IsUtf8(path) => IsUtf8(answer)
    BY <1>3, <2>1, <2>3, <2>4, PrefixIsText
  <2> QED
    BY <1>0, <1>2, <1>5, <2>3, <2>5, <2>6 DEF answer
<1>6. CASE ~(fixed + n < size) /\ ~(fixed + 3 + 2 >= size)
  <2> DEFINE half == room \div 2  t == n - tail
       a == SubSeq(path, 1, head)  b == SubSeq(path, tail + 1, n)
       one == Plain(before) \o a  two == one \o Plain(3)  three == two \o b
  <2>1. room \in Nat /\ room + 4 <= n + 0 /\ room + fixed + 4 = size /\ half \in Nat /\ half <= room
    BY <1>0, <1>6
  <2> HIDE DEF half, room
  <2>2. half \in 0..n /\ start \in 0..n /\ start = n - (room - half)
    BY <1>0, <2>1 DEF half
  <2>3. head \in 0..half /\ head >= half - 3 /\ (IsUtf8(path) => head + 1 \in Starts(path))
    BY <2>2, CutIs, CutIsStart DEF half
  <2>4. tail \in start..n /\ (IsUtf8(path) => tail + 1 \in Starts(path) /\ tail <= start + 3)
    BY <2>2, TailIs
  <2> HIDE DEF head, start, tail
  <2>5. /\ head \in 0..n /\ t \in 0..n /\ head + t <= n /\ n - t + 1 = tail + 1
        /\ head + t <= room /\ (IsUtf8(path) => head + t >= room - 6)
    BY <1>0, <2>1, <2>2, <2>3, <2>4
  <2>6. a \in Seq(Bytes) /\ Len(a) = head /\ (IsUtf8(path) => IsUtf8(a))
    <3>1. 1 \in 1..n + 1 /\ 1 <= head + 1 /\ (head - 1) + 1 = head
      BY <1>0, <2>5
    <3> QED
      BY <2>3, <2>5, <3>1, PartOf, PrefixIsText
  <2>7. b \in Seq(Bytes) /\ Len(b) = t /\ (IsUtf8(path) => IsUtf8(b))
    <3>1. tail \in 0..n /\ tail + 1 \in 1..n + 1 /\ tail + 1 <= n + 1 /\ (n - (tail + 1)) + 1 = t /\ n \in 0..n
      BY <1>0, <2>2, <2>4
    <3>2. b \in Seq(Bytes) /\ Len(b) = t
      <4> HIDE DEF t
      <4> QED
        BY <3>1, PartOf
    <3>3. IsUtf8(path) => IsUtf8(b)
      BY <2>4, <3>1, SuffixIsText
    <3> QED
      BY <3>2, <3>3
  <2>8. /\ Plain(before) \in Seq(Bytes) /\ Len(Plain(before)) = before /\ IsUtf8(Plain(before))
        /\ Plain(after) \in Seq(Bytes) /\ Len(Plain(after)) = after /\ IsUtf8(Plain(after))
        /\ Plain(3) \in Seq(Bytes) /\ Len(Plain(3)) = 3 /\ IsUtf8(Plain(3))
    BY PlainIs
  <2>14. answer = three \o Plain(after)
    BY <1>1, <1>6
  <2>15. answer = ends(head, t)
    <3>1. n - t + 1 = tail + 1
      BY <2>5
    <3> HIDE DEF t
    <3> QED
      BY <2>14, <3>1 DEF ends
  <2> HIDE DEF a, b
  <2>9. one \in Seq(Bytes) /\ Len(one) = before + head /\ (IsUtf8(a) => IsUtf8(one))
    <3>1. /\ one \in Seq(Bytes) /\ Len(one) = Len(Plain(before)) + Len(a)
          /\ IsUtf8(Plain(before)) /\ IsUtf8(a) => IsUtf8(one)
      BY ONLY <2>6, <2>8, TextsJoin
    <3> HIDE DEF one
    <3> QED
      BY ONLY <2>6, <2>8, <3>1
  <2> HIDE DEF one
  <2>10. two \in Seq(Bytes) /\ Len(two) = Len(one) + 3 /\ (IsUtf8(one) => IsUtf8(two))
    <3>1. /\ two \in Seq(Bytes) /\ Len(two) = Len(one) + Len(Plain(3))
          /\ IsUtf8(one) /\ IsUtf8(Plain(3)) => IsUtf8(two)
      BY ONLY <2>8, <2>9, TextsJoin
    <3> HIDE DEF two
    <3> QED
      BY ONLY <2>8, <3>1
  <2> HIDE DEF two
  <2>11. three \in Seq(Bytes) /\ Len(three) = Len(two) + t /\ (IsUtf8(two) /\ IsUtf8(b) => IsUtf8(three))
    BY <2>7, <2>10, TextsJoin
  <2> HIDE DEF three, t
  <2>12. Len(answer) = Len(three) + after /\ (IsUtf8(three) => IsUtf8(answer))
    <3>1. /\ Len(answer) = Len(three) + Len(Plain(after))
          /\ IsUtf8(three) /\ IsUtf8(Plain(after)) => IsUtf8(answer)
      BY ONLY <2>8, <2>11, <2>14, TextsJoin
    <3> QED
      BY ONLY <2>8, <3>1
  <2>13. Len(answer) < size
    BY <1>0, <2>1, <2>5, <2>9, <2>10, <2>11, <2>12
  <2>16. IsUtf8(path) => IsUtf8(answer)
    BY <2>6, <2>7, <2>9, <2>10, <2>11, <2>12
  <2>17. IsUtf8(path) => (fixed + 3) + head + t >= size - 7
    BY <1>0, <2>1, <2>5
  <2> QED
    BY <1>2, <2>5, <2>13, <2>15, <2>16, <2>17 DEF answer
<1> QED
  BY <1>4, <1>5, <1>6

MessagesNext ==
    \/ \E msg \in Seq(Bytes), room \in Nat \ {0} : Message(msg, room)
    \/ \E path \in Seq(Bytes), before, after \in Nat, size \in Nat \ {0} : PathMessage(path, before, after, size)
    \/ Forget

MessagesSpec == call = NoCall /\ [][MessagesNext]_call

\* A message or a path of any bytes and any length, cut for a buffer of any size, fits; one that is
\* UTF-8 stays UTF-8, loses no character that would fit, and of a path both ends are kept.
THEOREM CutsKeepCharacters == MessagesSpec => []CutKeepsCharacters
<1>1. call = NoCall => CutKeepsCharacters
  BY DEF NoCall, CutKeepsCharacters
<1>2. CutKeepsCharacters /\ [MessagesNext]_call => CutKeepsCharacters'
  <2> SUFFICES ASSUME CutKeepsCharacters, [MessagesNext]_call PROVE CutKeepsCharacters'
    OBVIOUS
  <2>1. ASSUME NEW msg \in Seq(Bytes), NEW room \in Nat \ {0}, Message(msg, room)
        PROVE  CutKeepsCharacters'
    <3>1. call' = [what |-> "message", given |-> [msg |-> msg, room |-> room], answer |-> SetErrMsg(msg, room)]
      BY <2>1 DEF Message, Answer
    <3>2. MessageCut(msg, room, SetErrMsg(msg, room))
      BY MessageIsCut
    <3> QED
      BY <3>1, <3>2 DEF CutKeepsCharacters
  <2>2. ASSUME NEW path \in Seq(Bytes), NEW before \in Nat, NEW after \in Nat, NEW size \in Nat \ {0},
               PathMessage(path, before, after, size)
        PROVE  CutKeepsCharacters'
    <3> DEFINE given == [path |-> path, before |-> before, after |-> after, size |-> size]
    <3>1. call' = [what |-> "path", given |-> given, answer |-> PathMsg(path, before, after, size)]
      BY <2>2 DEF PathMessage, Answer
    <3>2. PathCut(given, PathMsg(path, before, after, size))
      BY PathIsCut
    <3> HIDE DEF given
    <3> QED
      BY <3>1, <3>2 DEF CutKeepsCharacters
  <2>3. CASE Forget
    BY <2>3 DEF Forget, NoCall, CutKeepsCharacters
  <2>4. CASE UNCHANGED call
    BY <2>4 DEF CutKeepsCharacters
  <2> QED
    BY <2>1, <2>2, <2>3, <2>4 DEF MessagesNext
<1> QED
  BY <1>1, <1>2, PTL DEF MessagesSpec

-----------------------------------------------------------------------------
\* Digests.  What TotalOf adds up.
LEMMA TotalIs ==
    ASSUME NEW S, NEW f, Summable(f, S)
    PROVE  TotalOf(f) = Sums(f)[S]
<1>1. DOMAIN f = S
  BY DEF Summable
<1> QED
  BY <1>1 DEF TotalOf, MapThenSumSet, MapThenFoldSet, Sums, AddsUp, Chosen

-----------------------------------------------------------------------------
\* The places of the bytes in a hash.
LEMMA ByteWeights ==
    /\ ByteWeight[0] = 1
    /\ \A k \in 1..WordBytes : ByteWeight[k] = 256 * ByteWeight[k - 1]
    /\ \A k \in 0..WordBytes : ByteWeight[k] \in Nat \ {0}
<1> DEFINE W == WordBytes  V == Nat \ {0}  step == [k \in 1..W |-> [v \in V |-> 256 * v]]
<1>0. W \in Nat \ {0}
  BY DigestAssumption
<1>1. Loop(W, V, 1, step)
  BY <1>0 DEF Loop
<1>2. PICK f \in [0..W -> V] : f = [k \in 0..W |-> IF k = 0 THEN 1 ELSE step[k][f[k - 1]]]
  <2> HIDE DEF V, step, W
  <2> QED
    BY ONLY <1>1, LoopExists
<1>3. \A k \in 0..W : k # 0 => k \in 1..W /\ k - 1 \in 0..W /\ f[k - 1] \in V
  BY <1>0
<1>4. \A k \in 0..W : k # 0 => step[k][f[k - 1]] = 256 * f[k - 1]
  BY <1>3
<1>5. f = [k \in 0..W |-> IF k = 0 THEN 1 ELSE 256 * f[k - 1]]
  <2> HIDE DEF step
  <2> QED
    BY <1>2, <1>4
<1>6. ByteWeight = [k \in 0..W |-> IF k = 0 THEN 1 ELSE 256 * ByteWeight[k - 1]]
  BY <1>5 DEF ByteWeight
<1>7. ByteWeight[0] = 1 /\ \A k \in 1..W : ByteWeight[k] = 256 * ByteWeight[k - 1]
  <2>1. 0 \in 0..W /\ \A k \in 1..W : k \in 0..W /\ k # 0
    BY <1>0
  <2> QED
    BY ONLY <1>6, <2>1
<1> DEFINE T == {k \in 0..W : ByteWeight[k] \in Nat \ {0}}
<1>8. 0 \in T
  BY <1>0, <1>7
<1>9. ASSUME NEW k \in Below(W), k \in T PROVE k + 1 \in T
  <2>1. k + 1 \in 1..W /\ (k + 1) - 1 = k
    BY <1>0 DEF Below
  <2>2. ByteWeight[k + 1] = 256 * ByteWeight[k] /\ ByteWeight[k] \in Nat \ {0}
    BY <1>7, <1>9, <2>1
  <2> QED
    BY <1>0, <2>1, <2>2
<1>10. \A k \in 0..W : k \in T
  <2> HIDE DEF T, W
  <2> QED
    BY <1>0, <1>8, <1>9, OneByOne
<1> QED
  BY <1>7, <1>10

AnyHash == 0..ByteWeight[WordBytes] - 1

\* What the first j bytes of a hash amount to.
FrontOf(hash, j) == hash \div ByteWeight[WordBytes - j]

LEMMA FrontIs ==
    ASSUME NEW hash \in AnyHash
    PROVE  /\ \A j \in 0..WordBytes : FrontOf(hash, j) \in Nat
           /\ FrontOf(hash, 0) = 0 /\ FrontOf(hash, WordBytes) = hash
           /\ \A j \in 0..WordBytes - 1 : FrontOf(hash, j) = FrontOf(hash, j + 1) \div 256
<1> DEFINE W == WordBytes
<1>0. W \in Nat \ {0}
  BY DigestAssumption
<1>1. \A j \in 0..W : W - j \in 0..W /\ ByteWeight[W - j] \in Nat \ {0}
  BY <1>0, ByteWeights
<1>2. hash \in Nat /\ hash < ByteWeight[W] /\ ByteWeight[W] \in Nat \ {0}
  BY <1>0, ByteWeights DEF AnyHash
<1>3. ASSUME NEW j \in 0..W PROVE FrontOf(hash, j) \in Nat
  <2> DEFINE b == ByteWeight[W - j]
  <2>1. b \in Nat \ {0}
    BY <1>1
  <2> HIDE DEF b
  <2>2. hash \div b \in Nat
    BY <1>2, <2>1
  <2> QED
    BY <2>2 DEF b, FrontOf
<1>4. FrontOf(hash, 0) = 0
  <2> DEFINE b == ByteWeight[W]
  <2>1. b \in Nat \ {0} /\ hash < b /\ hash \in Nat
    BY <1>2
  <2> HIDE DEF b
  <2>2. ~(1 <= hash \div b)
    BY <2>1, QuotientBound
  <2>3. hash \div b \in Nat
    BY <2>1
  <2>4. hash \div b = 0
    BY <2>2, <2>3
  <2>5. W - 0 = W
    BY <1>0
  <2> QED
    BY <2>4, <2>5 DEF FrontOf, b
<1>5. FrontOf(hash, W) = hash
  <2>1. W - W = 0 /\ ByteWeight[0] = 1
    BY <1>0, ByteWeights
  <2> QED
    BY <1>2, <2>1 DEF FrontOf
<1>6. ASSUME NEW j \in 0..W - 1 PROVE FrontOf(hash, j) = FrontOf(hash, j + 1) \div 256
  <2> DEFINE b == ByteWeight[W - (j + 1)]
  <2>1. W - j \in 1..W /\ (W - j) - 1 = W - (j + 1) /\ j + 1 \in 0..W
    BY <1>0
  <2>2. b \in Nat \ {0} /\ ByteWeight[W - j] = 256 * b
    BY <1>1, <2>1, ByteWeights
  <2> HIDE DEF b
  <2>3. (hash \div b) \div 256 = hash \div (b * 256)
    BY <1>2, <2>2, DividedTwice
  <2>4. b * 256 = 256 * b
    BY <2>2
  <2>5. (hash \div b) \div 256 = hash \div ByteWeight[W - j]
    BY ONLY <2>2, <2>3, <2>4
  <2> QED
    BY <2>5 DEF b, FrontOf
<1> QED
  BY <1>3, <1>4, <1>5, <1>6

\* The digits of a number of WordBytes bytes, two for each.
HashDigits(digits) == digits \in [1..2 * WordBytes -> 0..15]

LEMMA Sequenced ==
    ASSUME NEW digits, HashDigits(digits)
    PROVE  digits \in Seq(-1..15) /\ Len(digits) = 2 * WordBytes /\ WellFormed(digits)
<1>1. 2 * WordBytes \in Nat
  BY DigestAssumption
<1>2. digits \in [1..2 * WordBytes -> -1..15] /\ DOMAIN digits = 1..2 * WordBytes
  BY DEF HashDigits
<1>3. WellFormed(digits)
  BY DEF HashDigits, WellFormed
<1> QED
  BY <1>1, <1>2, <1>3

LEMMA OddAndEven ==
    ASSUME NEW n \in Nat, NEW k \in 1..2 * n
    PROVE  /\ (k - 1) \div 2 \in 0..n - 1
           /\ \/ k % 2 = 1 /\ k = 2 * ((k - 1) \div 2) + 1
              \/ k % 2 = 0 /\ k = 2 * ((k - 1) \div 2) + 2
  OBVIOUS

LEMMA Halves ==
    ASSUME NEW j \in Nat
    PROVE  /\ ((2 * j + 1) - 1) \div 2 = j /\ (2 * j + 1) % 2 = 1
           /\ ((2 * j + 2) - 1) \div 2 = j /\ (2 * j + 2) % 2 = 0
  OBVIOUS

\* What is written of a hash, a byte at a time.
LEMMA WrittenHash ==
    ASSUME NEW hash \in AnyHash
    PROVE  /\ HashDigits(HashToHex(hash))
           /\ \A j \in 0..WordBytes - 1 :
                 /\ HashToHex(hash)[2 * j + 1] = (FrontOf(hash, j + 1) % 256) \div 16
                 /\ HashToHex(hash)[2 * j + 2] = (FrontOf(hash, j + 1) % 256) % 16
<1> DEFINE W == WordBytes  byte(i) == (hash \div ByteWeight[WordBytes - 1 - i]) % 256
     D == HashToHex(hash)
<1>0. W \in Nat \ {0}
  BY DigestAssumption
<1>1. ASSUME NEW i \in 0..W - 1 PROVE byte(i) = FrontOf(hash, i + 1) % 256 /\ byte(i) \in 0..255
  <2>1. WordBytes - 1 - i = WordBytes - (i + 1) /\ i + 1 \in 0..W
    BY <1>0
  <2>2. FrontOf(hash, i + 1) \in Nat
    BY <2>1, FrontIs
  <2>3. byte(i) = FrontOf(hash, i + 1) % 256
    BY <2>1 DEF FrontOf
  <2> QED
    BY <2>2, <2>3
<1>2. D = [k \in 1..2 * W |-> IF k % 2 = 1 THEN byte((k - 1) \div 2) \div 16 ELSE byte((k - 1) \div 2) % 16]
  BY DEF HashToHex
<1> HIDE DEF byte, D, W
<1>3. ASSUME NEW k \in 1..2 * W PROVE D[k] \in 0..15
  <2> DEFINE b == byte((k - 1) \div 2)
  <2>1. b \in 0..255
    BY <1>0, <1>1, OddAndEven
  <2> HIDE DEF b
  <2>2. b \div 16 \in 0..15 /\ b % 16 \in 0..15
    BY <2>1
  <2>3. D[k] = IF k % 2 = 1 THEN b \div 16 ELSE b % 16
    BY <1>2 DEF b
  <2> QED
    BY <2>2, <2>3
<1>4. D \in [1..2 * W -> 0..15]
  BY <1>2, <1>3
<1>5. ASSUME NEW j \in 0..W - 1
      PROVE  D[2 * j + 1] = (FrontOf(hash, j + 1) % 256) \div 16 /\ D[2 * j + 2] = (FrontOf(hash, j + 1) % 256) % 16
  <2>1. 2 * j + 1 \in 1..2 * W /\ 2 * j + 2 \in 1..2 * W /\ j \in Nat
    BY <1>0
  <2>2. D[2 * j + 1] = byte(j) \div 16 /\ D[2 * j + 2] = byte(j) % 16
    BY <1>2, <2>1, Halves
  <2> QED
    BY <1>1, <2>2
<1> QED
  BY <1>4, <1>5 DEF D, W, HashDigits

\* What digits are read as.
ReadAs(digits, f) ==
    /\ f \in [0..2 * WordBytes -> Nat] /\ f[0] = 0
    /\ \A k \in 1..2 * WordBytes : f[k] = f[k - 1] * 16 + digits[k]
    /\ HashFromHex(digits) = f[2 * WordBytes]

LEMMA ReadHashIs ==
    ASSUME NEW digits, HashDigits(digits)
    PROVE  \E f : ReadAs(digits, f)
<1> DEFINE n == 2 * WordBytes  step == [k \in 1..n |-> [v \in Nat |-> v * 16 + digits[k]]]
<1>0. n \in Nat
  BY DigestAssumption
<1>1. \A k \in 1..n : digits[k] \in Nat
  BY DEF HashDigits
<1>2. Loop(n, Nat, 0, step)
  BY <1>0, <1>1 DEF Loop
<1>3. PICK f \in [0..n -> Nat] : f = [k \in 0..n |-> IF k = 0 THEN 0 ELSE step[k][f[k - 1]]]
  <2> HIDE DEF n, step
  <2> QED
    BY ONLY <1>2, LoopExists
<1>4. \A k \in 0..n : k # 0 => k \in 1..n /\ k - 1 \in 0..n /\ f[k - 1] \in Nat
  BY <1>0
<1>5. \A k \in 0..n : k # 0 => step[k][f[k - 1]] = f[k - 1] * 16 + digits[k]
  BY <1>4
<1>6. f = [k \in 0..n |-> IF k = 0 THEN 0 ELSE f[k - 1] * 16 + digits[k]]
  <2> HIDE DEF step
  <2> QED
    BY <1>3, <1>5
<1> DEFINE value == CHOOSE g : g = [k \in 0..n |-> IF k = 0 THEN 0 ELSE g[k - 1] * 16 + digits[k]]
<1>7. value = [k \in 0..n |-> IF k = 0 THEN 0 ELSE value[k - 1] * 16 + digits[k]]
  BY <1>6
<1>8. HashFromHex(digits) = value[n]
  BY Sequenced DEF HashFromHex
<1> HIDE DEF value
<1>9. value[0] = 0 /\ \A k \in 1..n : value[k] = value[k - 1] * 16 + digits[k]
  <2>1. 0 \in 0..n /\ \A k \in 1..n : k \in 0..n /\ k # 0
    BY <1>0
  <2> QED
    BY ONLY <1>7, <2>1
<1> DEFINE T == {k \in 0..n : value[k] \in Nat}
<1>10. 0 \in T
  BY <1>0, <1>9
<1>11. ASSUME NEW k \in Below(n), k \in T PROVE k + 1 \in T
  <2>1. k + 1 \in 1..n /\ (k + 1) - 1 = k /\ k + 1 \in 0..n
    BY <1>0 DEF Below
  <2>2. value[k + 1] = value[k] * 16 + digits[k + 1] /\ value[k] \in Nat /\ digits[k + 1] \in Nat
    BY <1>1, <1>9, <1>11, <2>1
  <2> QED
    BY <2>1, <2>2
<1>12. \A k \in 0..n : k \in T
  <2> HIDE DEF T, n
  <2> QED
    BY <1>0, <1>10, <1>11, OneByOne
<1>13. value \in [0..n -> Nat]
  <2>1. \A k \in 0..n : value[k] \in Nat
    BY <1>12
  <2> HIDE DEF n
  <2> QED
    BY ONLY <1>7, <2>1
<1> QED
  BY <1>8, <1>9, <1>13 DEF ReadAs

\* A byte of two digits.
LEMMA TwoDigits ==
    ASSUME NEW digits, HashDigits(digits), NEW f, ReadAs(digits, f), NEW j \in 0..WordBytes - 1
    PROVE  /\ 2 * j + 1 \in 1..2 * WordBytes /\ 2 * j + 2 \in 1..2 * WordBytes
           /\ f[2 * j] \in Nat /\ f[2 * (j + 1)] = f[2 * j] * 256 + (digits[2 * j + 1] * 16 + digits[2 * j + 2])
           /\ digits[2 * j + 1] \in 0..15 /\ digits[2 * j + 2] \in 0..15
<1>1. WordBytes \in Nat
  BY DigestAssumption
<1>2. /\ 2 * j \in 0..2 * WordBytes /\ 2 * j + 1 \in 1..2 * WordBytes /\ 2 * j + 2 \in 1..2 * WordBytes
      /\ (2 * j + 1) - 1 = 2 * j /\ (2 * j + 2) - 1 = 2 * j + 1 /\ 2 * (j + 1) = 2 * j + 2
  BY <1>1
<1> DEFINE x == f[2 * j]  c == digits[2 * j + 1]  d == digits[2 * j + 2]
<1>3. x \in Nat /\ c \in 0..15 /\ d \in 0..15
  BY <1>2 DEF ReadAs, HashDigits
<1>4. f[2 * j + 1] = x * 16 + c /\ f[2 * j + 2] = f[2 * j + 1] * 16 + d
  BY <1>2 DEF ReadAs
<1> HIDE DEF x, c, d
<1>5. (x * 16 + c) * 16 + d = x * 256 + (c * 16 + d)
  BY <1>3
<1>6. f[2 * (j + 1)] = x * 256 + (c * 16 + d)
  BY ONLY <1>2, <1>4, <1>5
<1> QED
  BY <1>2, <1>3, <1>6 DEF x, c, d

\* A hash that is written is read back.
LEMMA HashReadBack ==
    ASSUME NEW hash \in AnyHash
    PROVE  HashFromHex(HashToHex(hash)) = hash
<1> DEFINE W == WordBytes  D == HashToHex(hash)
<1>0. W \in Nat \ {0}
  BY DigestAssumption
<1>1. HashDigits(D)
  BY WrittenHash
<1>2. PICK f : ReadAs(D, f)
  BY <1>1, ReadHashIs
<1> DEFINE T == {j \in 0..W : f[2 * j] = FrontOf(hash, j)}
<1>3. 0 \in T
  <2>1. 2 * 0 = 0
    OBVIOUS
  <2> QED
    BY <1>0, <1>2, <2>1, FrontIs DEF ReadAs
<1>4. ASSUME NEW j \in Below(W), j \in T PROVE j + 1 \in T
  <2>1. j \in 0..W - 1 /\ j + 1 \in 0..W
    BY <1>0 DEF Below
  <2> DEFINE y == FrontOf(hash, j + 1)
  <2>2. y \in Nat /\ FrontOf(hash, j) = y \div 256
    BY <2>1, FrontIs
  <2>3. f[2 * (j + 1)] = f[2 * j] * 256 + (D[2 * j + 1] * 16 + D[2 * j + 2])
    BY <1>1, <1>2, <2>1, TwoDigits
  <2>4. D[2 * j + 1] = (y % 256) \div 16 /\ D[2 * j + 2] = (y % 256) % 16
    BY <2>1, WrittenHash
  <2>5. f[2 * j] = y \div 256
    BY <1>4, <2>2
  <2> HIDE DEF y, D
  <2> DEFINE q == y \div 256  b == y % 256  c == b \div 16  d == b % 16
  <2>6. q \in Nat /\ b \in 0..255 /\ y = q * 256 + b
    BY <2>2
  <2>7. c \in 0..15 /\ d \in 0..15 /\ b = c * 16 + d
    <3> HIDE DEF b
    <3> QED
      BY <2>6
  <2>8. D[2 * j + 1] = c /\ D[2 * j + 2] = d /\ f[2 * j] = q
    BY <2>4, <2>5
  <2> HIDE DEF q, b, c, d
  <2>9. f[2 * (j + 1)] = q * 256 + (c * 16 + d)
    BY ONLY <2>3, <2>8
  <2>10. f[2 * (j + 1)] = y
    BY ONLY <2>6, <2>7, <2>9
  <2> QED
    BY <2>1, <2>10 DEF y
<1>5. \A j \in 0..W : j \in T
  <2> HIDE DEF T, W
  <2> QED
    BY <1>0, <1>3, <1>4, OneByOne
<1>6. f[2 * W] = FrontOf(hash, W)
  BY <1>0, <1>5
<1> QED
  BY <1>2, <1>6, FrontIs DEF ReadAs

\* Digits that are read are written back.
LEMMA HashWrittenBack ==
    ASSUME NEW digits, HashDigits(digits)
    PROVE  HashFromHex(digits) \in AnyHash /\ HashToHex(HashFromHex(digits)) = digits
<1> DEFINE W == WordBytes  v == HashFromHex(digits)  D == HashToHex(v)
<1>0. W \in Nat \ {0}
  BY DigestAssumption
<1>1. PICK f : ReadAs(digits, f)
  BY ReadHashIs
<1>2. v = f[2 * W] /\ \A k \in 0..2 * W : f[k] \in Nat
  BY <1>1 DEF ReadAs
<1> DEFINE T == {j \in 0..W : f[2 * j] < ByteWeight[j]}
<1>3. 0 \in T
  <2>1. 2 * 0 = 0
    OBVIOUS
  <2> QED
    BY <1>0, <1>1, <2>1, ByteWeights DEF ReadAs
<1>4. ASSUME NEW j \in Below(W), j \in T PROVE j + 1 \in T
  <2>1. j \in 0..W - 1 /\ j + 1 \in 1..W /\ (j + 1) - 1 = j /\ j \in 0..W /\ j + 1 \in 0..W
    BY <1>0 DEF Below
  <2> DEFINE x == f[2 * j]  b == ByteWeight[j]  r == digits[2 * j + 1] * 16 + digits[2 * j + 2]
  <2>2. f[2 * (j + 1)] = x * 256 + r /\ x \in Nat /\ r \in 0..255
    BY <1>1, <2>1, TwoDigits
  <2>3. b \in Nat /\ ByteWeight[j + 1] = 256 * b /\ x < b
    BY <1>4, <2>1, ByteWeights
  <2> HIDE DEF x, b, r
  <2>4. x * 256 + r < 256 * b
    BY <2>2, <2>3
  <2> QED
    BY <2>1, <2>2, <2>3, <2>4
<1>5. \A j \in 0..W : j \in T
  <2> HIDE DEF T, W
  <2> QED
    BY <1>0, <1>3, <1>4, OneByOne
<1>6. v \in AnyHash
  <2>1. W \in T /\ 2 * W \in 0..2 * W /\ ByteWeight[W] \in Nat
    BY <1>0, <1>5, ByteWeights
  <2>2. v \in Nat /\ v < ByteWeight[W]
    BY <1>2, <2>1
  <2> QED
    BY <2>1, <2>2 DEF AnyHash
<1> HIDE DEF v, T
<1> DEFINE U == {i \in 0..W : FrontOf(v, W - i) = f[2 * (W - i)]}
<1>7. 0 \in U
  <2>1. W - 0 = W
    BY <1>0
  <2> QED
    BY <1>0, <1>2, <1>6, <2>1, FrontIs
<1>8. ASSUME NEW i \in Below(W), i \in U PROVE i + 1 \in U
  <2> DEFINE j == W - (i + 1)
  <2>1. j \in 0..W - 1 /\ W - i = j + 1 /\ i + 1 \in 0..W
    BY <1>0 DEF Below
  <2> HIDE DEF j
  <2> DEFINE x == f[2 * j]  r == digits[2 * j + 1] * 16 + digits[2 * j + 2]
  <2>2. f[2 * (j + 1)] = x * 256 + r /\ x \in Nat /\ r \in 0..255
    BY <1>1, <2>1, TwoDigits
  <2>3. FrontOf(v, j) = FrontOf(v, j + 1) \div 256 /\ FrontOf(v, j + 1) = f[2 * (j + 1)]
    BY <1>6, <1>8, <2>1, FrontIs
  <2> HIDE DEF r, x
  <2>4. (x * 256 + r) \div 256 = x
    BY <2>2
  <2>5. FrontOf(v, j) = x
    BY ONLY <2>2, <2>3, <2>4
  <2> QED
    BY <2>1, <2>5 DEF j, x
<1>9. \A i \in 0..W : i \in U
  <2> HIDE DEF U, W
  <2> QED
    BY <1>0, <1>7, <1>8, OneByOne
<1>10. ASSUME NEW j \in 0..W - 1 PROVE D[2 * j + 1] = digits[2 * j + 1] /\ D[2 * j + 2] = digits[2 * j + 2]
  <2>1. W - (j + 1) \in 0..W /\ W - (W - (j + 1)) = j + 1
    BY <1>0
  <2>2. FrontOf(v, j + 1) = f[2 * (j + 1)]
    BY <1>9, <2>1
  <2> DEFINE x == f[2 * j]  c == digits[2 * j + 1]  d == digits[2 * j + 2]
  <2>3. f[2 * (j + 1)] = x * 256 + (c * 16 + d) /\ x \in Nat /\ c \in 0..15 /\ d \in 0..15
    BY <1>1, TwoDigits
  <2>4. D[2 * j + 1] = (FrontOf(v, j + 1) % 256) \div 16 /\ D[2 * j + 2] = (FrontOf(v, j + 1) % 256) % 16
    BY <1>6, WrittenHash
  <2> HIDE DEF x, c, d, D
  <2>5. (x * 256 + (c * 16 + d)) % 256 = c * 16 + d /\ (c * 16 + d) \div 16 = c /\ (c * 16 + d) % 16 = d
    BY <2>3
  <2>6. D[2 * j + 1] = c /\ D[2 * j + 2] = d
    BY ONLY <2>2, <2>3, <2>4, <2>5
  <2> QED
    BY <2>6 DEF c, d
<1>11. HashDigits(D)
  BY <1>6, WrittenHash
<1>12. ASSUME NEW k \in 1..2 * W PROVE D[k] = digits[k]
  <2> DEFINE j == (k - 1) \div 2
  <2>1. j \in 0..W - 1 /\ (k = 2 * j + 1 \/ k = 2 * j + 2)
    BY <1>0, OddAndEven
  <2> HIDE DEF j, D
  <2> QED
    BY <1>10, <2>1
<1>13. D = digits
  <2>1. D \in [1..2 * W -> 0..15] /\ digits \in [1..2 * W -> 0..15]
    BY <1>11 DEF HashDigits
  <2>2. \A k \in 1..2 * W : D[k] = digits[k]
    BY <1>12
  <2> HIDE DEF D, W
  <2>3. D = [k \in 1..2 * W |-> D[k]] /\ digits = [k \in 1..2 * W |-> digits[k]]
    BY ONLY <2>1
  <2>4. [k \in 1..2 * W |-> D[k]] = [k \in 1..2 * W |-> digits[k]]
    BY ONLY <2>2
  <2> QED
    BY ONLY <2>3, <2>4
<1> QED
  BY <1>6, <1>13 DEF v

AnyDigest == [size : Nat, kind : STRING, data : [0..DigestMax - 1 -> 0..255]]
AnyText   == [name : STRING, digits : Seq(-1..15)]

LEMMA DigitsInOrder ==
    ASSUME NEW n \in Nat, NEW digits \in [1..2 * n -> 0..15]
    PROVE  Len(digits) = 2 * n /\ WellFormed(digits) /\ Len(digits) % 2 = 0 /\ Len(digits) \div 2 = n
<1>1. 2 * n \in Nat /\ DOMAIN digits = 1..2 * n
  OBVIOUS
<1>2. Len(digits) = 2 * n
  BY <1>1
<1>3. WellFormed(digits)
  BY <1>1 DEF WellFormed
<1> QED
  BY <1>2, <1>3

\* The text of a digest, a byte at a time.
LEMMA TextIsBytes ==
    ASSUME NEW digest \in AnyDigest, digest.size <= DigestMax
    PROVE  LET D == TextOf(digest).digits IN
           /\ TextOf(digest) = [name |-> digest.kind, digits |-> D]
           /\ D \in [1..2 * digest.size -> 0..15]
           /\ \A j \in 0..digest.size - 1 :
                 /\ digest.data[j] \in 0..255
                 /\ D[2 * j + 1] = digest.data[j] \div 16 /\ D[2 * j + 2] = digest.data[j] % 16
<1> DEFINE n == digest.size  byte(k) == digest.data[(k - 1) \div 2]  D == TextOf(digest).digits
<1>0. n \in Nat /\ n <= DigestMax /\ DigestMax \in Nat /\ digest.data \in [0..DigestMax - 1 -> 0..255]
  BY DigestAssumption DEF AnyDigest
<1>1. TextOf(digest) = [name |-> digest.kind, digits |-> D]
  BY DEF TextOf
<1>2. D = [k \in 1..2 * n |-> IF k % 2 = 1 THEN byte(k) \div 16 ELSE byte(k) % 16]
  BY DEF TextOf
<1>3. ASSUME NEW j \in 0..n - 1 PROVE digest.data[j] \in 0..255
  <2>1. j \in 0..DigestMax - 1
    BY <1>0
  <2> QED
    BY <1>0, <2>1
<1> HIDE DEF D
<1>4. ASSUME NEW k \in 1..2 * n PROVE D[k] \in 0..15
  <2> DEFINE b == byte(k)
  <2>1. b \in 0..255
    BY <1>0, <1>3, OddAndEven
  <2>2. D[k] = IF k % 2 = 1 THEN b \div 16 ELSE b % 16
    BY <1>2
  <2> HIDE DEF b
  <2>3. b \div 16 \in 0..15 /\ b % 16 \in 0..15
    BY <2>1
  <2> QED
    BY <2>2, <2>3
<1>5. D \in [1..2 * n -> 0..15]
  BY <1>2, <1>4
<1>6. ASSUME NEW j \in 0..n - 1
      PROVE  D[2 * j + 1] = digest.data[j] \div 16 /\ D[2 * j + 2] = digest.data[j] % 16
  <2>1. j \in Nat /\ 2 * j + 1 \in 1..2 * n /\ 2 * j + 2 \in 1..2 * n
    BY <1>0
  <2> QED
    BY <1>2, <2>1, Halves
<1> QED
  BY <1>1, <1>3, <1>5, <1>6 DEF D

LEMMA NamesAreLong ==
    ASSUME NEW kind \in Kinds
    PROVE  NameLength(kind) \in Nat
  BY DEF Kinds, NameLength

\* A digest that is written is read back.
LEMMA DigestReadBack ==
    ASSUME NEW digest \in AnyDigest, NEW room \in Nat, ToHex(digest, room).ok
    PROVE  LET text  == ToHex(digest, room).text
               again == FromHex(text, digest)
           IN  /\ again.ok /\ again.out.size = digest.size /\ again.out.kind = digest.kind
               /\ \A k \in DOMAIN digest.data :
                       again.out.data[k] = (IF k < digest.size THEN digest.data[k] ELSE 0)
               /\ NameLength(digest.kind) + 1 + Len(text.digits) < room
<1> DEFINE n == digest.size  text == ToHex(digest, room).text  D == text.digits  again == FromHex(text, digest)
<1>0. n \in Nat /\ DigestMax \in Nat /\ digest.data \in [0..DigestMax - 1 -> 0..255]
  BY DigestAssumption DEF AnyDigest
<1>1. n <= DigestMax /\ digest.kind \in Kinds /\ ~(room < Needed(digest)) /\ text = TextOf(digest)
  BY DEF ToHex, Valid
<1>2. /\ text = [name |-> digest.kind, digits |-> D] /\ D \in [1..2 * n -> 0..15]
      /\ \A j \in 0..n - 1 : /\ digest.data[j] \in 0..255
                             /\ D[2 * j + 1] = digest.data[j] \div 16 /\ D[2 * j + 2] = digest.data[j] % 16
  BY <1>1, TextIsBytes
<1>3. Len(D) = 2 * n /\ WellFormed(D) /\ Len(D) % 2 = 0 /\ Len(D) \div 2 = n
  <2>1. n \in Nat /\ D \in [1..2 * n -> 0..15]
    BY <1>0, <1>2
  <2> HIDE DEF D, n
  <2> QED
    BY ONLY <2>1, DigitsInOrder
<1>4. text.name = digest.kind
  BY <1>1 DEF TextOf
<1> HIDE DEF text, D
<1>5. again = [ok |-> TRUE, out |-> Decoded(text)]
  BY <1>0, <1>1, <1>3, <1>4 DEF FromHex, D
<1>6. /\ Decoded(text).size = n /\ Decoded(text).kind = digest.kind
      /\ Decoded(text).data = [k \in 0..DigestMax - 1 |->
                                IF 2 * k + 2 <= 2 * n THEN D[2 * k + 1] * 16 + D[2 * k + 2] ELSE 0]
  BY <1>3, <1>4 DEF Decoded, D
<1>7. ASSUME NEW k \in 0..DigestMax - 1
      PROVE  Decoded(text).data[k] = (IF k < n THEN digest.data[k] ELSE 0)
  <2>1. CASE k < n
    <3> DEFINE b == digest.data[k]
    <3>1. k \in 0..n - 1 /\ 2 * k + 2 <= 2 * n
      BY <1>0, <2>1
    <3>2. b \in 0..255 /\ D[2 * k + 1] = b \div 16 /\ D[2 * k + 2] = b % 16
      BY <1>2, <3>1
    <3>3. Decoded(text).data[k] = D[2 * k + 1] * 16 + D[2 * k + 2]
      BY <1>6, <3>1
    <3> HIDE DEF b
    <3>4. (b \div 16) * 16 + (b % 16) = b
      <4> DEFINE c == b \div 16  d == b % 16
      <4>1. c \in Nat /\ d \in Nat /\ b = c * 16 + d
        BY <3>2
      <4> QED
        BY <4>1
    <3>5. Decoded(text).data[k] = b
      BY ONLY <3>2, <3>3, <3>4
    <3> QED
      BY <2>1, <3>5 DEF b
  <2>2. CASE ~(k < n)
    <3>1. ~(2 * k + 2 <= 2 * n)
      BY <1>0, <2>2
    <3> QED
      BY <1>6, <2>2, <3>1
  <2> QED
    BY <2>1, <2>2
<1>8. NameLength(digest.kind) + 1 + Len(D) < room
  <2>1. Needed(digest) = NameLength(digest.kind) + 1 + 2 * n + 1 /\ NameLength(digest.kind) \in Nat
    BY <1>1, NamesAreLong DEF Needed
  <2> QED
    BY <1>0, <1>1, <1>3, <2>1
<1>9. DOMAIN digest.data = 0..DigestMax - 1
  BY <1>0
<1>10. again.ok /\ again.out = Decoded(text)
  BY <1>5
<1> HIDE DEF again
<1>11. /\ again.ok /\ again.out.size = digest.size /\ again.out.kind = digest.kind
       /\ \A k \in DOMAIN digest.data : again.out.data[k] = (IF k < digest.size THEN digest.data[k] ELSE 0)
  <2>1. again.ok /\ again.out.size = digest.size /\ again.out.kind = digest.kind
    BY <1>6, <1>10
  <2>2. ASSUME NEW k \in DOMAIN digest.data
        PROVE  again.out.data[k] = (IF k < digest.size THEN digest.data[k] ELSE 0)
    BY <1>7, <1>9, <1>10
  <2> QED
    BY <2>1, <2>2
<1>12. NameLength(digest.kind) + 1 + Len(text.digits) < room
  BY <1>8 DEF D
<1> QED
  BY ONLY <1>11, <1>12 DEF again, text

\* A text that is read is written back, and one that is refused changes nothing.
LEMMA TextWrittenBack ==
    ASSUME NEW text \in AnyText, NEW out \in AnyDigest
    PROVE  LET answer == FromHex(text, out) IN
           IF answer.ok THEN ToHex(answer.out, Needed(answer.out)) = [ok |-> TRUE, text |-> text]
           ELSE answer.out = out
<1> DEFINE answer == FromHex(text, out)  digits == text.digits  n == Len(digits) \div 2  again == Decoded(text)
<1>0. text = [name |-> text.name, digits |-> digits] /\ digits \in Seq(-1..15) /\ text.name \in STRING /\ DigestMax \in Nat
  BY DigestAssumption DEF AnyText
<1>1. CASE ~answer.ok
  BY <1>1 DEF FromHex, Untouched
<1>2. CASE answer.ok
  <2>1. /\ text.name \in Kinds /\ Len(digits) % 2 = 0 /\ ~(n > DigestMax) /\ WellFormed(digits)
        /\ answer.out = again
    BY <1>2 DEF FromHex
  <2>2. n \in Nat /\ Len(digits) = 2 * n /\ n <= DigestMax /\ DOMAIN digits = 1..2 * n
    <3>1. Len(digits) \in Nat /\ DOMAIN digits = 1..Len(digits)
      BY <1>0
    <3> QED
      BY <1>0, <2>1, <3>1
  <2>3. digits \in [1..2 * n -> 0..15]
    <3>1. \A k \in 1..2 * n : digits[k] \in 0..15
      BY <2>1, <2>2 DEF WellFormed
    <3>2. digits = [k \in 1..2 * n |-> digits[k]]
      BY <1>0, <2>2
    <3> HIDE DEF digits, n
    <3> QED
      BY <3>1, <3>2
  <2>4. /\ again.size = n /\ again.kind = text.name
        /\ again.data = [k \in 0..DigestMax - 1 |->
                          IF 2 * k + 2 <= Len(digits) THEN digits[2 * k + 1] * 16 + digits[2 * k + 2] ELSE 0]
        /\ again = [size |-> again.size, kind |-> again.kind, data |-> again.data]
    BY DEF Decoded
  <2> HIDE DEF answer, digits, n, again
  <2>5. ASSUME NEW j \in 0..n - 1
        PROVE  /\ j \in 0..DigestMax - 1 /\ digits[2 * j + 1] \in 0..15 /\ digits[2 * j + 2] \in 0..15
               /\ again.data[j] = digits[2 * j + 1] * 16 + digits[2 * j + 2]
    <3>1. j \in 0..DigestMax - 1 /\ 2 * j + 1 \in 1..2 * n /\ 2 * j + 2 \in 1..2 * n /\ 2 * j + 2 <= Len(digits)
      BY <1>0, <2>2
    <3> QED
      BY <2>3, <2>4, <3>1
  <2>6. again.data \in [0..DigestMax - 1 -> 0..255]
    <3>1. ASSUME NEW k \in 0..DigestMax - 1 PROVE again.data[k] \in 0..255
      <4>1. CASE 2 * k + 2 <= Len(digits)
        <5>1. k \in 0..n - 1
          BY <1>0, <2>2, <4>1
        <5> DEFINE c == digits[2 * k + 1]  d == digits[2 * k + 2]
        <5>2. c \in 0..15 /\ d \in 0..15 /\ again.data[k] = c * 16 + d
          BY <2>5, <5>1
        <5> HIDE DEF c, d
        <5> QED
          BY <5>2
      <4>2. CASE ~(2 * k + 2 <= Len(digits))
        BY <2>4, <4>2
      <4> QED
        BY <4>1, <4>2
    <3> QED
      BY <2>4, <3>1
  <2>7. again \in AnyDigest
    <3>1. again.kind \in STRING
      BY <1>0, <2>4
    <3> QED
      BY <2>2, <2>4, <2>6, <3>1 DEF AnyDigest
  <2>8. /\ TextOf(again) = [name |-> again.kind, digits |-> TextOf(again).digits]
        /\ TextOf(again).digits \in [1..2 * n -> 0..15]
        /\ \A j \in 0..n - 1 : /\ TextOf(again).digits[2 * j + 1] = again.data[j] \div 16
                               /\ TextOf(again).digits[2 * j + 2] = again.data[j] % 16
    BY <2>2, <2>4, <2>7, TextIsBytes
  <2>9. ASSUME NEW k \in 1..2 * n PROVE TextOf(again).digits[k] = digits[k]
    <3> DEFINE j == (k - 1) \div 2  c == digits[2 * j + 1]  d == digits[2 * j + 2]
    <3>1. j \in 0..n - 1 /\ (k = 2 * j + 1 \/ k = 2 * j + 2)
      BY <2>2, OddAndEven
    <3> HIDE DEF j
    <3>2. c \in 0..15 /\ d \in 0..15 /\ again.data[j] = c * 16 + d
      BY <2>5, <3>1
    <3>3. /\ TextOf(again).digits[2 * j + 1] = again.data[j] \div 16
          /\ TextOf(again).digits[2 * j + 2] = again.data[j] % 16
      BY <2>8, <3>1
    <3> HIDE DEF c, d
    <3>4. (c * 16 + d) \div 16 = c /\ (c * 16 + d) % 16 = d
      BY <3>2
    <3>5. TextOf(again).digits[2 * j + 1] = c /\ TextOf(again).digits[2 * j + 2] = d
      BY ONLY <3>2, <3>3, <3>4
    <3> QED
      BY <3>1, <3>5 DEF c, d
  <2>10. TextOf(again).digits = digits
    <3> DEFINE D == TextOf(again).digits
    <3>1. D = [k \in 1..2 * n |-> D[k]] /\ digits = [k \in 1..2 * n |-> digits[k]] /\ \A k \in 1..2 * n : D[k] = digits[k]
      BY <2>3, <2>8, <2>9
    <3> HIDE DEF D
    <3>2. [k \in 1..2 * n |-> D[k]] = [k \in 1..2 * n |-> digits[k]]
      BY ONLY <3>1
    <3>3. D = digits
      BY ONLY <3>1, <3>2
    <3> QED
      BY <3>3 DEF D
  <2>11. TextOf(again) = text
    BY <1>0, <2>4, <2>8, <2>10
  <2>12. Needed(again) \in Nat
    BY <2>1, <2>2, <2>4, NamesAreLong DEF Needed
  <2>13. ToHex(again, Needed(again)) = [ok |-> TRUE, text |-> TextOf(again)]
    BY <1>0, <2>1, <2>2, <2>4, <2>12 DEF ToHex, Valid
  <2> QED
    BY <1>2, <2>1, <2>11, <2>13 DEF answer
<1> QED
  BY <1>1, <1>2

\* A hash has the same digits as a digest.
LEMMA SameDigits ==
    ASSUME NEW hash \in AnyHash
    PROVE  TextOf(HashDigest(hash)) = [name |-> "bits", digits |-> HashToHex(hash)]
<1> DEFINE digest == HashDigest(hash)  W == WordBytes
     byte(i) == (hash \div ByteWeight[WordBytes - 1 - i]) % 256
<1>0. W \in Nat \ {0} /\ W <= DigestMax /\ DigestMax \in Nat
  BY DigestAssumption
<1>1. digest.size = W /\ digest.kind = "bits"
  BY DEF HashDigest
<1>2. ASSUME NEW j \in 0..W - 1 PROVE digest.data[j] = byte(j)
  <2>1. j \in 0..DigestMax - 1 /\ j < W
    BY <1>0
  <2> QED
    BY <2>1 DEF HashDigest, ShiftOf
<1> HIDE DEF digest
<1>3. TextOf(digest) = [name |-> "bits", digits |-> [k \in 1..2 * W |->
         IF k % 2 = 1 THEN digest.data[(k - 1) \div 2] \div 16 ELSE digest.data[(k - 1) \div 2] % 16]]
  BY <1>1 DEF TextOf
<1>4. HashToHex(hash) = [k \in 1..2 * W |->
         IF k % 2 = 1 THEN byte((k - 1) \div 2) \div 16 ELSE byte((k - 1) \div 2) % 16]
  BY DEF HashToHex
<1> HIDE DEF byte, W
<1>5. \A k \in 1..2 * W : digest.data[(k - 1) \div 2] = byte((k - 1) \div 2)
  BY <1>0, <1>2, OddAndEven
<1> QED
  BY <1>3, <1>4, <1>5 DEF digest

\* Two digests of one size that are whole.
Alike(a, b) == a \in AnyDigest /\ b \in AnyDigest /\ a.size = b.size /\ a.size \in 1..DigestMax

LEMMA PermittedMeans ==
    ASSUME NEW a \in AnyDigest, NEW b \in AnyDigest, NEW kind
    PROVE  /\ ComparableAs(a, b, kind) <=> Permitted(a, b, kind)
           /\ Permitted(a, b, kind) <=> Permitted(b, a, kind)
           /\ Permitted(a, b, kind) => Alike(a, b) /\ Alike(b, a)
<1>1. a.size \in Nat /\ b.size \in Nat /\ DigestMax \in Nat
  BY DigestAssumption DEF AnyDigest
<1>2. ComparableAs(a, b, kind) <=> Permitted(a, b, kind)
  BY <1>1 DEF ComparableAs, Comparable, Valid, Allows, Permitted
<1> QED
  BY <1>1, <1>2 DEF Permitted, Alike

LEMMA BytesOf ==
    ASSUME NEW a, NEW b, Alike(a, b), NEW k \in 0..a.size - 1
    PROVE  a.data[k] \in 0..255 /\ b.data[k] \in 0..255
<1>1. a.size \in 1..DigestMax /\ DigestMax \in Nat
  BY DigestAssumption DEF Alike
<1>2. k \in 0..DigestMax - 1
  BY <1>1
<1>3. a.data \in [0..DigestMax - 1 -> 0..255] /\ b.data \in [0..DigestMax - 1 -> 0..255]
  BY DEF Alike, AnyDigest
<1> QED
  BY <1>2, <1>3

LEMMA XorIs ==
    ASSUME NEW x, NEW y
    PROVE  Xor(x, y) = Xor(y, x) /\ IsFiniteSet(Xor(x, y)) /\ Cardinality(Xor(x, y)) \in Nat
<1>1. Xor(x, y) \subseteq 0..7 /\ Xor(x, y) = Xor(y, x)
  BY DEF Xor, Bits
<1>2. IsFiniteSet(0..7)
  <2>1. 0 \in Int /\ 7 \in Int
    OBVIOUS
  <2> QED
    BY <2>1, FS_Interval, Zenon
<1>3. IsFiniteSet(Xor(x, y))
  BY <1>1, <1>2, FS_Subset
<1> QED
  BY <1>1, <1>3, FS_CardinalityType

\* The bits that differ, a byte at a time.
BitCounts(a, b) == [k \in 0..a.size - 1 |-> Cardinality(Xor(a.data[k], b.data[k]))]

LEMMA BitCountsAdd ==
    ASSUME NEW a, NEW b, a.size \in Nat
    PROVE  Summable(BitCounts(a, b), 0..a.size - 1)
<1>1. IsFiniteSet(0..a.size - 1)
  BY FS_Interval
<1>2. \A k \in 0..a.size - 1 : Cardinality(Xor(a.data[k], b.data[k])) \in Int
  BY XorIs
<1> QED
  BY <1>1, <1>2 DEF Summable, BitCounts

LEMMA DifferingIs ==
    ASSUME NEW a, NEW b, a.size \in Nat, NEW i \in Nat, NEW count \in Nat, i + count <= a.size
    PROVE  Differing(a, b, i, count) = Sums(BitCounts(a, b))[i..i + count - 1]
<1> DEFINE R == i..i + count - 1  g == [k \in R |-> Cardinality(Xor(a.data[k], b.data[k]))]
     S == 0..a.size - 1  f == BitCounts(a, b)
<1>1. R \subseteq S
  OBVIOUS
<1>2. Summable(f, S)
  BY BitCountsAdd
<1>3. Summable(g, R)
  <2>1. IsFiniteSet(R)
    BY FS_Interval
  <2>2. \A k \in R : Cardinality(Xor(a.data[k], b.data[k])) \in Int
    BY XorIs
  <2> QED
    BY <2>1, <2>2 DEF Summable
<1>4. \A k \in R : f[k] = g[k]
  BY <1>1 DEF BitCounts
<1>5. Differing(a, b, i, count) = Sums(g)[R]
  BY <1>3, TotalIs DEF Differing
<1> HIDE DEF R, g, S, f
<1>6. Sums(f)[R] = Sums(g)[R]
  BY <1>1, <1>2, <1>3, <1>4, SumsAgree
<1> QED
  BY <1>5, <1>6 DEF f, R

\* The bits that differ are counted by the byte they are in.
LEMMA BitsByByte ==
    ASSUME NEW a, NEW b, a.size \in Nat
    PROVE  Sums(BitCounts(a, b))[0..a.size - 1] = Cardinality(DifferingBits(a, b))
<1> DEFINE S == 0..a.size - 1  T == DifferingBits(a, b)  p == [t \in T |-> t[1]]
     g == [k \in S |-> Cardinality(Part(T, p, k))]
<1>1. IsFiniteSet(S) /\ IsFiniteSet(0..7)
  <2>1. 0 \in Int /\ 7 \in Int /\ a.size - 1 \in Int
    OBVIOUS
  <2> QED
    BY <2>1, FS_Interval, Zenon
<1>2. IsFiniteSet(T)
  <2>1. IsFiniteSet(S \X (0..7))
    BY <1>1, FS_Product
  <2>2. T \subseteq S \X (0..7)
    BY DEF DifferingBits
  <2> QED
    BY <2>1, <2>2, FS_Subset
<1>3. \A t \in T : t[1] \in S
  BY DEF DifferingBits
<1>4. ASSUME NEW k \in S PROVE Cardinality(Part(T, p, k)) = Cardinality(Xor(a.data[k], b.data[k]))
  <2> DEFINE X == Part(T, p, k)  Y == Xor(a.data[k], b.data[k])  F == [t \in X |-> t[2]]
  <2>1. \A t : t \in X <=> t \in T /\ t[1] = k
    BY DEF Part
  <2>2. \A t \in T : /\ t = <<t[1], t[2]>> /\ t[2] \in 0..7
                     /\ (t[2] \in Bits(a.data[t[1]])) # (t[2] \in Bits(b.data[t[1]]))
    BY DEF DifferingBits
  <2>3. \A j \in Y : j \in 0..7
    BY DEF Xor, Bits
  <2>4. \A j : j \in Y <=> (j \in Bits(a.data[k])) # (j \in Bits(b.data[k]))
    BY DEF Xor
  <2>5. \A j \in Y : <<k, j>> \in T
    BY <2>3, <2>4 DEF DifferingBits
  <2> HIDE DEF X, Y
  <2>6. \A t \in X : t[2] \in Y
    BY <2>1, <2>2, <2>4
  <2>7. F \in [X -> Y]
    BY <2>6
  <2>8. \A t, u \in X : F[t] = F[u] => t = u
    BY <2>1, <2>2
  <2>9. \A j \in Y : \E t \in X : F[t] = j
    <3> SUFFICES ASSUME NEW j \in Y PROVE \E t \in X : F[t] = j
      OBVIOUS
    <3>1. <<k, j>> \in X /\ F[<<k, j>>] = j
      BY <2>1, <2>5
    <3> QED
      BY <3>1
  <2>10. F \in Bijection(X, Y)
    BY <2>7, <2>8, <2>9 DEF Bijection, Injection, Surjection, IsInjective
  <2>11. IsFiniteSet(X)
    BY <1>2, <2>1, FS_Subset
  <2> HIDE DEF F
  <2> QED
    BY <2>10, <2>11, FS_Bijection DEF X, Y, ExistsBijection
<1>5. g = BitCounts(a, b)
  BY <1>4 DEF BitCounts
<1> HIDE DEF T
<1>6. p \in [T -> S]
  BY <1>3
<1> HIDE DEF S, p
<1>7. Sums(g)[S] = Cardinality(T)
  BY <1>1, <1>2, <1>6, CountByParts
<1> QED
  BY <1>5, <1>7 DEF S, T

LEMMA DifferingBitsAgree ==
    ASSUME NEW a, NEW b, a.size = b.size
    PROVE  DifferingBits(a, b) = DifferingBits(b, a)
<1>1. \A x : x \in DifferingBits(a, b) <=> x \in DifferingBits(b, a)
  BY DEF DifferingBits
<1> QED
  BY <1>1

\* The loop over words, and the bytes left over, count every bit once.
LEMMA HammingIs ==
    ASSUME NEW a, NEW b, Alike(a, b)
    PROVE  Hamming(a, b) = IF ComparableAs(a, b, "bits") THEN Value(Cardinality(DifferingBits(a, b)), 1)
                           ELSE NoAnswer
<1> DEFINE n == a.size  W == WordBytes  D == 0..n  m == [i \in D |-> n - i]
     step == [i \in D |-> [f \in [D -> Int] |->
                IF i + W <= n THEN Differing(a, b, i, W) + f[i + W] ELSE Differing(a, b, i, n - i)]]
     F == Sums(BitCounts(a, b))
<1>0. n \in Nat \ {0} /\ W \in Nat \ {0}
  BY DigestAssumption DEF Alike
<1>1. \A i \in D : i \in Nat /\ n - i \in Nat /\ i + (n - i) <= n
  BY <1>0
<1>a. Summable(BitCounts(a, b), 0..n - 1)
  BY <1>0, BitCountsAdd
<1>2. \A i \in D : i + W <= n => Differing(a, b, i, W) = F[i..i + W - 1] /\ Differing(a, b, i, W) \in Int
  <2> SUFFICES ASSUME NEW i \in D, i + W <= n
               PROVE  Differing(a, b, i, W) = F[i..i + W - 1] /\ Differing(a, b, i, W) \in Int
    OBVIOUS
  <2>1. Differing(a, b, i, W) = F[i..i + W - 1]
    <3>1. a.size \in Nat /\ i \in Nat /\ W \in Nat /\ i + W <= a.size
      BY <1>0, <1>1
    <3> QED
      BY ONLY <3>1, DifferingIs
  <2>2. i..i + W - 1 \in SUBSET (0..n - 1)
    BY <1>0
  <2> HIDE DEF n
  <2>3. F[i..i + W - 1] \in Int
    BY <1>a, <2>2, SumIsInt
  <2> QED
    BY <2>1, <2>3
<1>3. \A i \in D : Differing(a, b, i, n - i) = F[i..n - 1] /\ Differing(a, b, i, n - i) \in Int
  <2> SUFFICES ASSUME NEW i \in D
               PROVE  Differing(a, b, i, n - i) = F[i..n - 1] /\ Differing(a, b, i, n - i) \in Int
    OBVIOUS
  <2>1. Differing(a, b, i, n - i) = F[i..i + (n - i) - 1] /\ i + (n - i) - 1 = n - 1
    <3> DEFINE c == n - i
    <3>1. a.size \in Nat /\ i \in Nat /\ c \in Nat /\ i + c <= a.size /\ i + c - 1 = n - 1
      BY <1>0, <1>1
    <3> HIDE DEF c
    <3>2. Differing(a, b, i, c) = F[i..i + c - 1]
      BY ONLY <3>1, DifferingIs
    <3> QED
      BY <3>1, <3>2 DEF c
  <2>2. i..n - 1 \in SUBSET (0..n - 1)
    BY <1>0
  <2> HIDE DEF n
  <2>3. F[i..n - 1] \in Int
    BY <1>a, <2>2, SumIsInt
  <2> QED
    BY <2>1, <2>3
<1> HIDE DEF F
<1>4. m \in [D -> 0..n]
  BY <1>0
<1>5. \A i \in D : i + W <= n => i + W \in D /\ m[i + W] < m[i]
  BY <1>0
<1>6. step \in [D -> [[D -> Int] -> Int]]
  <2>1. ASSUME NEW i \in D, NEW f \in [D -> Int]
        PROVE  (IF i + W <= n THEN Differing(a, b, i, W) + f[i + W] ELSE Differing(a, b, i, n - i)) \in Int
    <3>1. CASE i + W <= n
      <4>1. Differing(a, b, i, W) \in Int /\ f[i + W] \in Int
        BY <1>2, <1>5, <3>1
      <4> QED
        BY <3>1, <4>1
    <3>2. CASE ~(i + W <= n)
      BY <1>3, <3>2
    <3> QED
      BY <3>1, <3>2
  <2> HIDE DEF D, n, W
  <2> QED
    BY <2>1
<1>7. \A i \in D : \A f, g \in [D -> Int] :
         (\A j \in D : m[j] < m[i] => f[j] = g[j]) => step[i][f] = step[i][g]
  <2> SUFFICES ASSUME NEW i \in D, NEW f \in [D -> Int], NEW g \in [D -> Int],
                      \A j \in D : m[j] < m[i] => f[j] = g[j]
               PROVE  step[i][f] = step[i][g]
    OBVIOUS
  <2>1. i + W <= n => f[i + W] = g[i + W]
    BY <1>5
  <2> HIDE DEF D, m
  <2> QED
    BY <2>1
<1>8. PICK f \in [D -> Int] : f = [i \in D |-> step[i][f]]
  <2>1. Recursive(D, Int, m, step)
    <3>1. Int # {}
      OBVIOUS
    <3> HIDE DEF D, m, step
    <3> QED
      BY ONLY <1>6, <1>7, <3>1 DEF Recursive
  <2> HIDE DEF D, m, step, n
  <2> QED
    BY <1>0, <1>4, <2>1, RecursionExists
<1>9. \A i \in D : step[i][f] = IF i + W <= n THEN Differing(a, b, i, W) + f[i + W] ELSE Differing(a, b, i, n - i)
  OBVIOUS
<1>10. f = [i \in D |-> IF i + W <= n THEN Differing(a, b, i, W) + f[i + W] ELSE Differing(a, b, i, n - i)]
  <2> HIDE DEF step, D, n
  <2> QED
    BY <1>8, <1>9
<1> DEFINE words == CHOOSE g : g = [i \in D |->
                      IF i + W <= n THEN Differing(a, b, i, W) + g[i + W] ELSE Differing(a, b, i, n - i)]
<1>11. words = [i \in D |-> IF i + W <= n THEN Differing(a, b, i, W) + words[i + W] ELSE Differing(a, b, i, n - i)]
  BY <1>10
<1>12. Hamming(a, b) = IF ComparableAs(a, b, "bits") THEN Value(words[0], 1) ELSE NoAnswer
  BY DEF Hamming
<1> HIDE DEF words
<1> DEFINE P == {i \in D : words[i] = F[i..n - 1]}
<1>13. ASSUME NEW i \in D, \A j \in D : m[j] < m[i] => j \in P PROVE i \in P
  <2>1. CASE i + W <= n
    <3> DEFINE j == i + W  s == i..j - 1  t == j..n - 1
    <3> DEFINE x == Differing(a, b, i, W)
    <3>a. words[i] = x + words[j]
      BY <1>11, <2>1
    <3>1. x = F[s]
      <4>1. Differing(a, b, i, W) = F[i..i + W - 1]
        BY <1>2, <2>1
      <4>2. s = i..i + W - 1
        BY <1>0, <1>1
      <4> QED
        BY ONLY <4>1, <4>2 DEF x
    <3>2. words[j] = F[t]
      BY <1>5, <1>13, <2>1
    <3>3. s \in SUBSET (0..n - 1) /\ t \in SUBSET (0..n - 1) /\ s \cap t = {} /\ s \cup t = i..n - 1
      BY <1>0, <2>1
    <3> HIDE DEF s, t, j, n, x
    <3>4. F[s \cup t] = F[s] + F[t]
      <4> DEFINE f2 == BitCounts(a, b)  S == 0..n - 1
      <4>1. Summable(f2, S) /\ s \in SUBSET S /\ t \in SUBSET S /\ s \cap t = {}
        BY <1>a, <3>3
      <4> HIDE DEF f2, S
      <4>2. Sums(f2)[s \cup t] = Sums(f2)[s] + Sums(f2)[t]
        BY ONLY <4>1, SumsJoin
      <4> QED
        BY <4>2 DEF F, f2
    <3>5. words[i] = F[i..n - 1]
      BY ONLY <3>a, <3>1, <3>2, <3>3, <3>4
    <3> QED
      BY <3>5
  <2>2. CASE ~(i + W <= n)
    BY <1>3, <1>11, <2>2
  <2> QED
    BY <2>1, <2>2
<1>14. \A i \in D : i \in P
  <2>1. m \in [D -> Nat]
    BY <1>0
  <2> HIDE DEF P, D, m
  <2> QED
    BY ONLY <1>13, <2>1, Inductively
<1>15. words[0] = F[0..n - 1]
  BY <1>0, <1>14
<1>16. F[0..n - 1] = Cardinality(DifferingBits(a, b))
  BY <1>0, BitsByByte DEF F
<1> QED
  BY <1>12, <1>15, <1>16

\* What is added up over the bytes, or the pairs of bytes, of two digests.
ByteSquares(a, b)   == [k \in 0..a.size - 1 |-> Square(a.data[k] - b.data[k])]
PairSquares(a, b) == [k \in 0..a.size \div 2 - 1 |-> Square(Int16(a, 2 * k) - Int16(b, 2 * k))]

LEMMA SquareIs ==
    ASSUME NEW x \in Int, NEW y \in Int
    PROVE  /\ Square(x - y) = Square(y - x) /\ Square(x - y) \in Int /\ Square(x - y) >= 0
           /\ Square(x - y) = 0 <=> x = y
<1> DEFINE d == x - y
<1>1. d \in Int /\ y - x = -d /\ (d = 0 <=> x = y)
  OBVIOUS
<1> HIDE DEF d
<1>2. d * d \in Int /\ d * d >= 0 /\ (d * d = 0 <=> d = 0) /\ (-d) * (-d) = d * d
  BY <1>1
<1>3. Square(d) = d * d /\ Square(-d) = (-d) * (-d)
  BY DEF Square
<1>4. Square(y - x) = Square(-d)
  BY <1>1
<1> QED
  BY <1>1, <1>2, <1>3, <1>4 DEF d

\* A sum of squares of differences is zero if and only if there are none.
SquaresOf(h, f, g, n) ==
    /\ n \in Nat /\ f \in [0..n - 1 -> Int] /\ g \in [0..n - 1 -> Int]
    /\ h = [k \in 0..n - 1 |-> Square(f[k] - g[k])]

LEMMA SumOfSquares ==
    ASSUME NEW h, NEW f, NEW g, NEW n, SquaresOf(h, f, g, n)
    PROVE  TotalOf(h) = 0 <=> \A k \in 0..n - 1 : f[k] = g[k]
<1> DEFINE S == 0..n - 1
<1>0. n \in Nat /\ f \in [S -> Int] /\ g \in [S -> Int] /\ h = [k \in S |-> Square(f[k] - g[k])]
  BY DEF SquaresOf
<1>1. \A k \in S : h[k] \in Int /\ h[k] >= 0 /\ (h[k] = 0 <=> f[k] = g[k])
  BY <1>0, SquareIs
<1>2. IsFiniteSet(S)
  <2>1. 0 \in Int /\ n - 1 \in Int
    BY <1>0
  <2> QED
    BY <2>1, FS_Interval, Zenon
<1>3. Summable(h, S)
  <2>1. h \in [S -> Int]
    BY <1>0, <1>1
  <2> QED
    BY <1>2, <2>1 DEF Summable
<1> HIDE DEF S
<1>4. Sums(h)[S] = 0 <=> \A k \in S : h[k] = 0
  BY <1>1, <1>3, SumOfNothing
<1>5. TotalOf(h) = Sums(h)[S]
  BY <1>3, TotalIs
<1> QED
  BY <1>1, <1>4, <1>5 DEF S

LEMMA WordsOfBytes ==
    ASSUME NEW a, NEW b, Alike(a, b), NEW k \in 0..a.size \div 2 - 1
    PROVE  /\ 2 * k \in 0..a.size - 1 /\ 2 * k + 1 \in 0..a.size - 1
           /\ Int16(a, 2 * k) \in Int /\ Int16(b, 2 * k) \in Int
           /\ Int16(a, 2 * k) = Int16(b, 2 * k) <=>
                 a.data[2 * k] = b.data[2 * k] /\ a.data[2 * k + 1] = b.data[2 * k + 1]
<1>1. a.size \in Nat
  BY DigestAssumption DEF Alike, AnyDigest
<1>2. 2 * k \in 0..a.size - 1 /\ 2 * k + 1 \in 0..a.size - 1
  BY <1>1
<1> DEFINE p == a.data[2 * k]  q == a.data[2 * k + 1]  r == b.data[2 * k]  s == b.data[2 * k + 1]
<1>3. p \in 0..255 /\ q \in 0..255 /\ r \in 0..255 /\ s \in 0..255
  BY <1>2, BytesOf
<1>4. /\ Int16(a, 2 * k) = (IF p * 256 + q >= 32768 THEN (p * 256 + q) - 65536 ELSE p * 256 + q)
      /\ Int16(b, 2 * k) = (IF r * 256 + s >= 32768 THEN (r * 256 + s) - 65536 ELSE r * 256 + s)
  BY DEF Int16
<1> HIDE DEF p, q, r, s
<1>5. Int16(a, 2 * k) \in Int /\ Int16(b, 2 * k) \in Int /\ (Int16(a, 2 * k) = Int16(b, 2 * k) <=> p = r /\ q = s)
  BY <1>3, <1>4
<1> QED
  BY <1>2, <1>5 DEF p, q, r, s

LEMMA DistanceIs ==
    ASSUME NEW a \in AnyDigest, NEW b \in AnyDigest
    PROVE  /\ Distance(a, b) = Distance(b, a)
           /\ Distance(a, b).ok <=> \/ Permitted(a, b, "vector")
                                    \/ Permitted(a, b, "vector16") /\ a.size % 2 = 0
           /\ Distance(a, b).ok => (Distance(a, b).num = 0 <=> \A k \in 0..a.size - 1 : a.data[k] = b.data[k])
<1> DEFINE sixteen == "vector16" \in {a.kind, b.kind}
<1>1. /\ ComparableAs(a, b, "vector16") <=> Permitted(a, b, "vector16")
      /\ ComparableAs(a, b, "vector") <=> Permitted(a, b, "vector")
      /\ ComparableAs(b, a, "vector16") <=> Permitted(a, b, "vector16")
      /\ ComparableAs(b, a, "vector") <=> Permitted(a, b, "vector")
      /\ Permitted(a, b, "vector16") \/ Permitted(a, b, "vector") => Alike(a, b) /\ Alike(b, a)
  BY PermittedMeans
<1>2. /\ Distance(a, b) = IF sixteen
                          THEN IF ComparableAs(a, b, "vector16") /\ a.size % 2 = 0
                               THEN Value(TotalOf(PairSquares(a, b)), 1) ELSE NoAnswer
                          ELSE IF ComparableAs(a, b, "vector") THEN Value(TotalOf(ByteSquares(a, b)), 1) ELSE NoAnswer
      /\ Distance(b, a) = IF sixteen
                          THEN IF ComparableAs(b, a, "vector16") /\ b.size % 2 = 0
                               THEN Value(TotalOf(PairSquares(b, a)), 1) ELSE NoAnswer
                          ELSE IF ComparableAs(b, a, "vector") THEN Value(TotalOf(ByteSquares(b, a)), 1) ELSE NoAnswer
  BY DEF Distance, IsVector16, ByteSquares, PairSquares
<1>3. /\ sixteen => ~Permitted(a, b, "vector")
      /\ ~sixteen /\ Permitted(a, b, "vector16") => Permitted(a, b, "vector")
  BY DEF Permitted
<1>4. ASSUME Alike(a, b)
      PROVE  /\ ByteSquares(a, b) = ByteSquares(b, a) /\ PairSquares(a, b) = PairSquares(b, a) /\ a.size = b.size
             /\ TotalOf(ByteSquares(a, b)) = 0 <=> \A k \in 0..a.size - 1 : a.data[k] = b.data[k]
             /\ a.size % 2 = 0 => (TotalOf(PairSquares(a, b)) = 0 <=> \A k \in 0..a.size - 1 : a.data[k] = b.data[k])
  <2> DEFINE n == a.size  half == a.size \div 2
  <2>1. n \in Nat /\ half \in Nat /\ b.size = n
    BY <1>4, DigestAssumption DEF Alike, AnyDigest
  <2>2. \A k \in 0..n - 1 : a.data[k] \in Int /\ b.data[k] \in Int
    <3> SUFFICES ASSUME NEW k \in 0..n - 1 PROVE a.data[k] \in Int /\ b.data[k] \in Int
      OBVIOUS
    <3>1. a.data[k] \in 0..255 /\ b.data[k] \in 0..255
      BY <1>4, BytesOf
    <3> QED
      BY <3>1
  <2>3. \A k \in 0..half - 1 : /\ Int16(a, 2 * k) \in Int /\ Int16(b, 2 * k) \in Int
                               /\ 2 * k \in 0..n - 1 /\ 2 * k + 1 \in 0..n - 1
                               /\ Int16(a, 2 * k) = Int16(b, 2 * k) <=>
                                     a.data[2 * k] = b.data[2 * k] /\ a.data[2 * k + 1] = b.data[2 * k + 1]
    BY <1>4, WordsOfBytes
  <2>4. ByteSquares(a, b) = ByteSquares(b, a)
    <3>1. \A k \in 0..n - 1 : Square(a.data[k] - b.data[k]) = Square(b.data[k] - a.data[k])
      BY <2>2, SquareIs
    <3>2. ByteSquares(a, b) = [k \in 0..n - 1 |-> Square(a.data[k] - b.data[k])]
      BY DEF ByteSquares
    <3>3. ByteSquares(b, a) = [k \in 0..n - 1 |-> Square(b.data[k] - a.data[k])]
      BY <2>1 DEF ByteSquares
    <3> HIDE DEF n
    <3> QED
      BY <3>1, <3>2, <3>3
  <2>5. PairSquares(a, b) = PairSquares(b, a)
    <3>1. \A k \in 0..half - 1 : Square(Int16(a, 2 * k) - Int16(b, 2 * k)) = Square(Int16(b, 2 * k) - Int16(a, 2 * k))
      BY <2>3, SquareIs
    <3>2. PairSquares(a, b) = [k \in 0..half - 1 |-> Square(Int16(a, 2 * k) - Int16(b, 2 * k))]
      BY DEF PairSquares
    <3>3. PairSquares(b, a) = [k \in 0..half - 1 |-> Square(Int16(b, 2 * k) - Int16(a, 2 * k))]
      BY <2>1 DEF PairSquares
    <3> HIDE DEF half
    <3> QED
      BY <3>1, <3>2, <3>3
  <2>6. TotalOf(ByteSquares(a, b)) = 0 <=> \A k \in 0..n - 1 : a.data[k] = b.data[k]
    <3> DEFINE f == [k \in 0..n - 1 |-> a.data[k]]  g == [k \in 0..n - 1 |-> b.data[k]]  h == ByteSquares(a, b)
    <3>1. f \in [0..n - 1 -> Int] /\ g \in [0..n - 1 -> Int]
      BY <2>2
    <3>2. SquaresOf(h, f, g, n)
      BY <2>1, <3>1 DEF ByteSquares, SquaresOf
    <3>3. \A k \in 0..n - 1 : f[k] = a.data[k] /\ g[k] = b.data[k]
      OBVIOUS
    <3> HIDE DEF f, g, h, n
    <3>4. TotalOf(h) = 0 <=> \A k \in 0..n - 1 : f[k] = g[k]
      BY ONLY <3>2, SumOfSquares
    <3> QED
      BY <3>3, <3>4 DEF h
  <2>7. ASSUME n % 2 = 0
        PROVE  TotalOf(PairSquares(a, b)) = 0 <=> \A k \in 0..n - 1 : a.data[k] = b.data[k]
    <3> DEFINE f == [k \in 0..half - 1 |-> Int16(a, 2 * k)]  g == [k \in 0..half - 1 |-> Int16(b, 2 * k)]
         h == PairSquares(a, b)
    <3>1. f \in [0..half - 1 -> Int] /\ g \in [0..half - 1 -> Int]
      BY <2>3
    <3>2. SquaresOf(h, f, g, half)
      BY <2>1, <3>1 DEF PairSquares, SquaresOf
    <3>3. \A k \in 0..half - 1 : f[k] = Int16(a, 2 * k) /\ g[k] = Int16(b, 2 * k)
      OBVIOUS
    <3>4. \A k \in 0..n - 1 : k \div 2 \in 0..half - 1 /\ (k = 2 * (k \div 2) \/ k = 2 * (k \div 2) + 1)
      BY <2>1, <2>7
    <3> HIDE DEF f, g, h, n, half
    <3>5. TotalOf(h) = 0 <=> \A k \in 0..half - 1 : f[k] = g[k]
      BY ONLY <3>2, SumOfSquares
    <3>6. ASSUME \A k \in 0..half - 1 : f[k] = g[k], NEW k \in 0..n - 1 PROVE a.data[k] = b.data[k]
      <4> DEFINE j == k \div 2
      <4>1. j \in 0..half - 1 /\ (k = 2 * j \/ k = 2 * j + 1)
        BY <3>4
      <4> HIDE DEF j
      <4>2. Int16(a, 2 * j) = Int16(b, 2 * j)
        BY <3>3, <3>6, <4>1
      <4> QED
        BY <2>3, <4>1, <4>2
    <3>7. ASSUME \A k \in 0..n - 1 : a.data[k] = b.data[k], NEW k \in 0..half - 1 PROVE f[k] = g[k]
      BY <2>3, <3>3, <3>7
    <3> QED
      BY <3>5, <3>6, <3>7 DEF h
  <2> QED
    BY <2>1, <2>4, <2>5, <2>6, <2>7
<1> HIDE DEF sixteen
<1>5. Value(TotalOf(ByteSquares(a, b)), 1).ok /\ Value(TotalOf(PairSquares(a, b)), 1).ok /\ ~NoAnswer.ok
  BY DEF Value, NoAnswer
<1>6. Value(TotalOf(ByteSquares(a, b)), 1).num = TotalOf(ByteSquares(a, b)) /\ Value(TotalOf(PairSquares(a, b)), 1).num = TotalOf(PairSquares(a, b))
  BY DEF Value
<1>7. CASE sixteen
  <2>1. CASE Permitted(a, b, "vector16") /\ a.size % 2 = 0
    <3>1. Alike(a, b) /\ ByteSquares(a, b) = ByteSquares(b, a) /\ PairSquares(a, b) = PairSquares(b, a) /\ a.size = b.size
      BY <1>1, <1>4, <2>1
    <3>2. Distance(a, b) = Value(TotalOf(PairSquares(a, b)), 1) /\ Distance(b, a) = Value(TotalOf(PairSquares(a, b)), 1)
      BY <1>1, <1>2, <1>7, <2>1, <3>1
    <3> QED
      BY <1>4, <1>5, <1>6, <2>1, <3>1, <3>2
  <2>2. CASE ~(Permitted(a, b, "vector16") /\ a.size % 2 = 0)
    <3>1. Permitted(a, b, "vector16") => a.size = b.size
      BY DEF Permitted
    <3>2. Distance(a, b) = NoAnswer /\ Distance(b, a) = NoAnswer
      BY <1>1, <1>2, <1>7, <2>2, <3>1
    <3> QED
      BY <1>3, <1>5, <1>7, <2>2, <3>2
  <2> QED
    BY <2>1, <2>2
<1>8. CASE ~sixteen
  <2>1. CASE Permitted(a, b, "vector")
    <3>1. Alike(a, b) /\ ByteSquares(a, b) = ByteSquares(b, a)
      BY <1>1, <1>4, <2>1
    <3>2. Distance(a, b) = Value(TotalOf(ByteSquares(a, b)), 1) /\ Distance(b, a) = Value(TotalOf(ByteSquares(a, b)), 1)
      BY <1>1, <1>2, <1>8, <2>1, <3>1
    <3> QED
      BY <1>4, <1>5, <1>6, <2>1, <3>1, <3>2
  <2>2. CASE ~Permitted(a, b, "vector")
    <3>2. Distance(a, b) = NoAnswer /\ Distance(b, a) = NoAnswer
      BY <1>1, <1>2, <1>8, <2>2
    <3> QED
      BY <1>3, <1>5, <1>8, <2>2, <3>2
  <2> QED
    BY <2>1, <2>2
<1> QED
  BY <1>7, <1>8

LEMMA MinOfTwo ==
    ASSUME NEW x \in Int, NEW y \in Int
    PROVE  Min({x, y}) \in Int /\ Min({x, y}) <= x /\ Min({x, y}) <= y /\ Min({x, y}) \in {x, y}
<1>1. \E z \in {x, y} : \A w \in {x, y} : z <= w
  <2>1. CASE x <= y
    BY <2>1
  <2>2. CASE ~(x <= y)
    BY <2>2
  <2> QED
    BY <2>1, <2>2
<1> DEFINE m == CHOOSE z \in {x, y} : \A w \in {x, y} : z <= w
<1>2. m \in {x, y} /\ \A w \in {x, y} : m <= w
  BY <1>1
<1>3. Min({x, y}) = m
  BY DEF Min
<1> HIDE DEF m
<1> QED
  BY <1>2, <1>3

\* The bins of a histogram, and what is smaller of two.
Tallies(x, n) == [k \in 0..n - 1 |-> x.data[k]]
SmallerParts(a, b, n, A, B) == [k \in 0..n - 1 |-> Min({a.data[k] * B, b.data[k] * A})]

LEMMA BinsAdd ==
    ASSUME NEW a, NEW b, Alike(a, b)
    PROVE  /\ Summable(Tallies(a, a.size), 0..a.size - 1) /\ TotalOf(Tallies(a, a.size)) = Sums(Tallies(a, a.size))[0..a.size - 1]
           /\ TotalOf(Tallies(a, a.size)) \in Nat
<1> DEFINE S == 0..a.size - 1  f == Tallies(a, a.size)
<1>1. \A k \in S : a.data[k] \in Int /\ a.data[k] >= 0
  <2> SUFFICES ASSUME NEW k \in S PROVE a.data[k] \in Int /\ a.data[k] >= 0
    OBVIOUS
  <2>1. a.data[k] \in 0..255
    BY BytesOf
  <2> QED
    BY <2>1
<1>2. a.size \in Nat
  BY DEF Alike, AnyDigest
<1>3. IsFiniteSet(S)
  <2>1. 0 \in Int /\ a.size - 1 \in Int
    BY <1>2
  <2> QED
    BY <2>1, FS_Interval, Zenon
<1>4. f \in [S -> Int] /\ \A k \in S : f[k] >= 0
  BY <1>1 DEF Tallies
<1>5. Summable(f, S)
  BY <1>3, <1>4 DEF Summable
<1> HIDE DEF S, f
<1>6. TotalOf(f) = Sums(f)[S]
  BY <1>5, TotalIs
<1>7. Sums(f)[S] >= 0 /\ Sums(f)[S] \in Int
  BY <1>4, <1>5, SumOfNothing, SumIsInt
<1> QED
  BY <1>5, <1>6, <1>7 DEF S, f

LEMMA SmallerIs ==
    ASSUME NEW a, NEW b, Alike(a, b), NEW A, A = TotalOf(Tallies(a, a.size)), NEW B \in Nat
    PROVE  LET c == TotalOf(SmallerParts(a, b, a.size, A, B)) IN
           /\ A \in Nat /\ c \in Int /\ c <= A * B
           /\ a = b /\ A = B => c = A * B
<1> DEFINE n == a.size  S == 0..n - 1  f == Tallies(a, n)  h == SmallerParts(a, b, n, A, B)
     g == [k \in S |-> B * f[k] + 0 * f[k]]
<1>1. Summable(f, S) /\ A = Sums(f)[S] /\ A \in Nat
  BY BinsAdd
<1>2. \A k \in S : /\ a.data[k] \in Int /\ b.data[k] \in Int /\ a.data[k] * B \in Int /\ b.data[k] * A \in Int
                   /\ f[k] = a.data[k] /\ B * f[k] + 0 * f[k] = a.data[k] * B
  <2> SUFFICES ASSUME NEW k \in S
               PROVE  /\ a.data[k] \in Int /\ b.data[k] \in Int /\ a.data[k] * B \in Int /\ b.data[k] * A \in Int
                      /\ f[k] = a.data[k] /\ B * f[k] + 0 * f[k] = a.data[k] * B
    OBVIOUS
  <2>1. f[k] = a.data[k]
    BY DEF Tallies
  <2> DEFINE x == a.data[k]  y == b.data[k]
  <2>2. x \in 0..255 /\ y \in 0..255
    BY BytesOf
  <2> HIDE DEF x, y
  <2>3. x \in Int /\ y \in Int /\ x * B \in Int /\ y * A \in Int /\ B * x + 0 * x = x * B
    BY <1>1, <2>2
  <2> QED
    BY <2>1, <2>3 DEF x, y
<1>3. Summable(g, S) /\ Sums(g)[S] = B * A + 0 * A
  <2> DEFINE o == 0
  <2>1. B \in Int /\ o \in Int /\ S \in SUBSET S /\ Summable(f, S) /\ g = [k \in S |-> B * f[k] + o * f[k]]
    BY <1>1
  <2> HIDE DEF o, S, g, f
  <2>2. Summable(g, S) /\ Sums(g)[S] = B * Sums(f)[S] + o * Sums(f)[S]
    BY ONLY <2>1, SumsCombine
  <2> QED
    BY <1>1, <2>2 DEF o
<1>4. Sums(g)[S] = A * B
  <2>1. B * A + 0 * A = A * B
    BY <1>1
  <2> QED
    BY ONLY <1>3, <2>1
<1>5. \A k \in S : /\ h[k] \in Int /\ h[k] <= g[k] /\ h[k] \in {a.data[k] * B, b.data[k] * A} /\ g[k] = a.data[k] * B
  <2> SUFFICES ASSUME NEW k \in S
               PROVE  h[k] \in Int /\ h[k] <= g[k] /\ h[k] \in {a.data[k] * B, b.data[k] * A} /\ g[k] = a.data[k] * B
    OBVIOUS
  <2> DEFINE x == a.data[k] * B  y == b.data[k] * A
  <2>1. x \in Int /\ y \in Int /\ g[k] = x
    BY <1>2
  <2>2. h[k] = Min({x, y})
    BY DEF SmallerParts
  <2> HIDE DEF x, y, h, g
  <2>3. Min({x, y}) \in Int /\ Min({x, y}) <= x /\ Min({x, y}) \in {x, y}
    BY ONLY <2>1, MinOfTwo
  <2> QED
    BY ONLY <2>1, <2>2, <2>3 DEF x, y
<1>6. h = [k \in S |-> h[k]] /\ g = [k \in S |-> g[k]]
  BY DEF SmallerParts
<1>7. Summable(h, S)
  <2>1. h \in [S -> Int]
    <3> HIDE DEF h, S
    <3> QED
      BY <1>5, <1>6
  <2> QED
    BY <1>1, <2>1 DEF Summable
<1> HIDE DEF S, g, h, f, n
<1>8. Sums(h)[S] <= Sums(g)[S] /\ Sums(h)[S] \in Int
  <2>1. S \in SUBSET S /\ \A k \in S : h[k] <= g[k]
    BY <1>5
  <2> QED
    BY ONLY <1>3, <1>7, <2>1, SumsGrow, SumIsInt
<1>9. TotalOf(h) = Sums(h)[S]
  BY <1>7, TotalIs
<1>10. ASSUME a = b, A = B PROVE Sums(h)[S] = A * B
  <2>1. \A k \in S : h[k] = g[k]
    BY <1>5, <1>10
  <2>2. h = g
    BY ONLY <1>6, <2>1
  <2> QED
    BY <1>4, <2>2
<1> QED
  BY <1>1, <1>4, <1>8, <1>9, <1>10 DEF h, n

LEMMA IntersectionIs ==
    ASSUME NEW a \in AnyDigest, NEW b \in AnyDigest
    PROVE  LET answer == Intersection(a, b) IN
           /\ Intersection(b, a) = answer
           /\ answer.ok <=> Permitted(a, b, "histogram")
           /\ answer.num <= answer.den
           /\ answer.ok /\ a = b => answer.num = answer.den
<1> DEFINE answer == Intersection(a, b)
<1>1. /\ ComparableAs(a, b, "histogram") <=> Permitted(a, b, "histogram")
      /\ ComparableAs(b, a, "histogram") <=> Permitted(a, b, "histogram")
      /\ Permitted(a, b, "histogram") => Alike(a, b) /\ Alike(b, a)
  BY PermittedMeans
<1> DEFINE A == TotalOf(Tallies(a, a.size))  B == TotalOf(Tallies(b, a.size))
     C == TotalOf(Tallies(b, b.size))  D == TotalOf(Tallies(a, b.size))
<1>2. /\ answer = IF ~ComparableAs(a, b, "histogram") THEN NoAnswer
                  ELSE IF A = 0 \/ B = 0 THEN Value(IF A = B THEN 1 ELSE 0, 1)
                  ELSE Value(TotalOf(SmallerParts(a, b, a.size, A, B)), A * B)
      /\ Intersection(b, a) = IF ~ComparableAs(b, a, "histogram") THEN NoAnswer
                  ELSE IF C = 0 \/ D = 0 THEN Value(IF C = D THEN 1 ELSE 0, 1)
                  ELSE Value(TotalOf(SmallerParts(b, a, b.size, C, D)), C * D)
  BY DEF Intersection, Tallies, SmallerParts
<1>3. CASE ~Permitted(a, b, "histogram")
  <2>1. answer = NoAnswer /\ Intersection(b, a) = NoAnswer
    BY <1>1, <1>2, <1>3
  <2> HIDE DEF answer
  <2>2. ~NoAnswer.ok /\ NoAnswer.num <= NoAnswer.den
    BY DEF NoAnswer
  <2>3. /\ Intersection(b, a) = answer /\ ~answer.ok /\ answer.num <= answer.den
    BY ONLY <2>1, <2>2
  <2> QED
    BY <1>3, <2>3 DEF answer
<1>4. CASE Permitted(a, b, "histogram")
  <2>1. Alike(a, b) /\ Alike(b, a) /\ a.size = b.size
    BY <1>1, <1>4 DEF Alike
  <2>2. A = D /\ B = C
    BY <2>1
  <2>3. A \in Nat /\ B \in Nat
    <3>1. TotalOf(Tallies(a, a.size)) \in Nat /\ TotalOf(Tallies(b, b.size)) \in Nat
      BY <2>1, BinsAdd
    <3> QED
      BY <2>1, <3>1
  <2> DEFINE c == TotalOf(SmallerParts(a, b, a.size, A, B))  d == TotalOf(SmallerParts(b, a, b.size, C, D))
  <2>4. c \in Int /\ c <= A * B /\ (a = b /\ A = B => c = A * B)
    <3> HIDE DEF B
    <3> QED
      BY <2>1, <2>3, SmallerIs
  <2>5. c = d
    <3>1. SmallerParts(a, b, a.size, A, B) = SmallerParts(b, a, b.size, C, D)
      <4>1. \A k \in 0..a.size - 1 : {a.data[k] * B, b.data[k] * A} = {b.data[k] * A, a.data[k] * B}
        OBVIOUS
      <4> HIDE DEF A, B, C, D
      <4> QED
        BY ONLY <2>1, <2>2, <4>1 DEF SmallerParts
    <3> QED
      BY ONLY <3>1
  <2>6. a = b => A = B
    OBVIOUS
  <2> HIDE DEF A, B, C, D, c, d
  <2>7. /\ answer = IF A = 0 \/ B = 0 THEN Value(IF A = B THEN 1 ELSE 0, 1) ELSE Value(c, A * B)
        /\ Intersection(b, a) = IF C = 0 \/ D = 0 THEN Value(IF C = D THEN 1 ELSE 0, 1) ELSE Value(d, C * D)
    BY <1>1, <1>2, <1>4 DEF c, d
  <2> HIDE DEF answer
  <2>8. A * B = C * D
    BY <2>2, <2>3
  <2>9. Intersection(b, a) = answer
    BY ONLY <2>2, <2>5, <2>7, <2>8
  <2>10. CASE A = 0 \/ B = 0
    <3> DEFINE one == IF A = B THEN 1 ELSE 0
    <3>1. answer.ok /\ answer.num = one /\ answer.den = 1
      BY <2>7, <2>10 DEF Value
    <3>2. one <= 1 /\ (a = b => one = 1)
      BY <2>6
    <3> QED
      BY <1>4, <2>9, <3>1, <3>2 DEF answer
  <2>11. CASE ~(A = 0 \/ B = 0)
    <3>1. answer.ok /\ answer.num = c /\ answer.den = A * B
      BY <2>7, <2>11 DEF Value
    <3> QED
      BY <1>4, <2>4, <2>6, <2>9, <3>1 DEF answer
  <2> QED
    BY <2>10, <2>11
<1> QED
  BY <1>3, <1>4

Metrics == {"hamming", "similarity", "l2", "intersection"}

LEMMA SimilarityIs ==
    ASSUME NEW a \in AnyDigest, NEW b \in AnyDigest
    PROVE  LET different == Cardinality(DifferingBits(a, b)) IN
           /\ Hamming(b, a) = Hamming(a, b) /\ Similarity(b, a) = Similarity(a, b)
           /\ Hamming(a, b).ok <=> Permitted(a, b, "bits")
           /\ Similarity(a, b).ok <=> Permitted(a, b, "bits")
           /\ Hamming(a, b).ok => Hamming(a, b) = Value(different, 1)
           /\ Similarity(a, b).ok => Similarity(a, b) = Value(8 * a.size - different, 8 * a.size)
<1> DEFINE different == Cardinality(DifferingBits(a, b))  H == Hamming(a, b)  G == Hamming(b, a)
<1>1. /\ ComparableAs(a, b, "bits") <=> Permitted(a, b, "bits")
      /\ ComparableAs(b, a, "bits") <=> Permitted(a, b, "bits")
      /\ Permitted(a, b, "bits") => Alike(a, b) /\ Alike(b, a) /\ a.size = b.size
  BY PermittedMeans DEF Alike
<1>2. /\ Similarity(a, b) = IF H.ok THEN Value(a.size * 8 - H.num, a.size * 8) ELSE NoAnswer
      /\ Similarity(b, a) = IF G.ok THEN Value(b.size * 8 - G.num, b.size * 8) ELSE NoAnswer
  BY DEF Similarity
<1>3. ~NoAnswer.ok
  BY DEF NoAnswer
<1>4. CASE Permitted(a, b, "bits")
  <2>1. DifferingBits(b, a) = DifferingBits(a, b)
    BY <1>1, <1>4, DifferingBitsAgree
  <2>2. H = Value(different, 1) /\ G = Value(different, 1)
    BY <1>1, <1>4, <2>1, HammingIs
  <2>3. H.ok /\ G.ok /\ H.num = different /\ G.num = different
    BY <2>2 DEF Value
  <2>4. a.size * 8 = 8 * a.size /\ a.size = b.size
    BY <1>1, <1>4 DEF AnyDigest
  <2> HIDE DEF H, G, different
  <2>5. /\ Similarity(a, b) = Value(8 * a.size - different, 8 * a.size)
        /\ Similarity(b, a) = Value(8 * a.size - different, 8 * a.size)
    BY <1>2, <2>3, <2>4
  <2>6. Similarity(a, b).ok
    BY <2>5 DEF Value
  <2> QED
    BY <1>4, <2>2, <2>3, <2>5, <2>6 DEF H, G, different
<1>5. CASE ~Permitted(a, b, "bits")
  <2>1. H = NoAnswer /\ G = NoAnswer
    BY <1>1, <1>5 DEF Hamming
  <2>2. Similarity(a, b) = NoAnswer /\ Similarity(b, a) = NoAnswer
    BY <1>2, <1>3, <2>1
  <2> HIDE DEF H, G
  <2> QED
    BY <1>3, <1>5, <2>1, <2>2 DEF H, G
<1> QED
  BY <1>4, <1>5

\* What ComparisonsAgree says of one answer.
Agrees(name, a, b, answer) ==
    /\ Metric(name, b, a) = answer
    /\ name \in {"hamming", "similarity"} =>
          /\ answer.ok <=> Permitted(a, b, "bits")
          /\ answer.ok => LET different == Cardinality(DifferingBits(a, b)) IN
                IF name = "hamming" THEN answer = Value(different, 1)
                ELSE answer = Value(8 * a.size - different, 8 * a.size)
    /\ name = "l2" =>
          /\ answer.ok <=> \/ Permitted(a, b, "vector")
                           \/ Permitted(a, b, "vector16") /\ a.size % 2 = 0
          /\ answer.ok => (answer.num = 0 <=> \A k \in 0..a.size - 1 : a.data[k] = b.data[k])
    /\ name = "intersection" =>
          /\ answer.ok <=> Permitted(a, b, "histogram")
          /\ answer.num <= answer.den
          /\ answer.ok /\ a = b => answer.num = answer.den

LEMMA MetricsAgree ==
    ASSUME NEW name \in Metrics, NEW a \in AnyDigest, NEW b \in AnyDigest
    PROVE  Agrees(name, a, b, Metric(name, a, b))
<1>1. CASE name = "hamming"
  <2>1. Metric(name, a, b) = Hamming(a, b) /\ Metric(name, b, a) = Hamming(b, a)
    BY <1>1 DEF Metric
  <2> QED
    BY <1>1, <2>1, SimilarityIs DEF Agrees
<1>2. CASE name = "similarity"
  <2>1. Metric(name, a, b) = Similarity(a, b) /\ Metric(name, b, a) = Similarity(b, a)
    BY <1>2 DEF Metric
  <2> QED
    BY <1>2, <2>1, SimilarityIs DEF Agrees
<1>3. CASE name = "l2"
  <2>1. Metric(name, a, b) = Distance(a, b) /\ Metric(name, b, a) = Distance(b, a)
    BY <1>3 DEF Metric
  <2> QED
    BY <1>3, <2>1, DistanceIs DEF Agrees
<1>4. CASE name = "intersection"
  <2>1. Metric(name, a, b) = Intersection(a, b) /\ Metric(name, b, a) = Intersection(b, a)
    BY <1>4 DEF Metric
  <2> QED
    BY <1>4, <2>1, IntersectionIs DEF Agrees
<1> QED
  BY <1>1, <1>2, <1>3, <1>4 DEF Metrics

DigestsNext ==
    \/ \E name \in Metrics, a \in AnyDigest, b \in AnyDigest : Compare(name, a, b)
    \/ \E digest \in AnyDigest, room \in Nat : Write(digest, room)
    \/ \E text \in AnyText, out \in AnyDigest : Read(text, out)
    \/ \E hash \in AnyHash : WriteHash(hash) \/ DigestHash(hash)
    \/ \E digits \in Seq(-1..15) : ReadHash(digits)
    \/ Forget

DigestsSpec == call = NoCall /\ [][DigestsNext]_call

\* Of any two digests, whatever they say of themselves: every metric is symmetric and answers
\* exactly what is permitted, the words and the bytes left over count every bit once, the
\* distance is zero between equal features alone, and no histogram intersects more than itself.
THEOREM ComparisonsAlwaysAgree == DigestsSpec => []ComparisonsAgree
<1>1. call = NoCall => ComparisonsAgree
  BY DEF NoCall, ComparisonsAgree
<1>2. ComparisonsAgree /\ [DigestsNext]_call => ComparisonsAgree'
  <2> SUFFICES ASSUME ComparisonsAgree, [DigestsNext]_call PROVE ComparisonsAgree'
    OBVIOUS
  <2>1. ASSUME NEW name \in Metrics, NEW a \in AnyDigest, NEW b \in AnyDigest, Compare(name, a, b)
        PROVE  ComparisonsAgree'
    <3>1. call' = [what |-> "compare", given |-> [name |-> name, a |-> a, b |-> b], answer |-> Metric(name, a, b)]
      BY <2>1 DEF Compare, Answer
    <3>2. /\ call'.what = "compare" /\ call'.given.name = name /\ call'.given.a = a /\ call'.given.b = b
          /\ call'.answer = Metric(name, a, b)
      BY <3>1
    <3>3. Agrees(name, a, b, Metric(name, a, b))
      BY MetricsAgree
    <3>4. Agrees(call'.given.name, call'.given.a, call'.given.b, call'.answer)
      BY ONLY <3>2, <3>3
    <3> QED
      BY <3>4 DEF ComparisonsAgree, Agrees
  <2>2. CASE call'.what # "compare"
    BY <2>2 DEF ComparisonsAgree
  <2>3. CASE UNCHANGED call
    BY <2>3 DEF ComparisonsAgree
  <2>4. ASSUME NEW digest \in AnyDigest, NEW room \in Nat, Write(digest, room) PROVE call'.what # "compare"
    BY <2>4 DEF Write, Answer
  <2>5. ASSUME NEW text \in AnyText, NEW out \in AnyDigest, Read(text, out) PROVE call'.what # "compare"
    BY <2>5 DEF Read, Answer
  <2>6. ASSUME NEW hash \in AnyHash, WriteHash(hash) \/ DigestHash(hash) PROVE call'.what # "compare"
    BY <2>6 DEF WriteHash, DigestHash, Answer
  <2>7. ASSUME NEW digits \in Seq(-1..15), ReadHash(digits) PROVE call'.what # "compare"
    BY <2>7 DEF ReadHash, Answer
  <2>8. ASSUME Forget PROVE call'.what # "compare"
    BY <2>8 DEF Forget, NoCall
  <2> QED
    BY <2>1, <2>2, <2>3, <2>4, <2>5, <2>6, <2>7, <2>8 DEF DigestsNext
<1> QED
  BY <1>1, <1>2, PTL DEF DigestsSpec

\* Every digest, text and hash survives being written and read, in a buffer of the needed size,
\* and a text that is refused leaves the digest it was to be read into as it was.
THEOREM TextsRoundTrip == DigestsSpec => []TextRoundTrips
<1>1. call = NoCall => TextRoundTrips
  BY DEF NoCall, TextRoundTrips
<1>2. TextRoundTrips /\ [DigestsNext]_call => TextRoundTrips'
  <2> SUFFICES ASSUME TextRoundTrips, [DigestsNext]_call PROVE TextRoundTrips'
    OBVIOUS
  <2>1. ASSUME NEW digest \in AnyDigest, NEW room \in Nat, Write(digest, room) PROVE TextRoundTrips'
    <3>1. call' = [what |-> "to_hex", given |-> [digest |-> digest, room |-> room], answer |-> ToHex(digest, room)]
      BY <2>1 DEF Write, Answer
    <3>2. /\ call'.what = "to_hex" /\ call'.given.digest = digest /\ call'.given.room = room
          /\ call'.answer = ToHex(digest, room)
      BY <3>1
    <3>3. ToHex(digest, room).ok =>
             LET text == ToHex(digest, room).text  again == FromHex(text, digest) IN
             /\ again.ok /\ again.out.size = digest.size /\ again.out.kind = digest.kind
             /\ \A k \in DOMAIN digest.data : again.out.data[k] = (IF k < digest.size THEN digest.data[k] ELSE 0)
             /\ NameLength(digest.kind) + 1 + Len(text.digits) < room
      BY DigestReadBack
    <3> QED
      BY <3>2, <3>3 DEF TextRoundTrips
  <2>2. ASSUME NEW text \in AnyText, NEW out \in AnyDigest, Read(text, out) PROVE TextRoundTrips'
    <3>1. call' = [what |-> "from_hex", given |-> [text |-> text, out |-> out], answer |-> FromHex(text, out)]
      BY <2>2 DEF Read, Answer
    <3>2. /\ call'.what = "from_hex" /\ call'.given.text = text /\ call'.given.out = out
          /\ call'.answer = FromHex(text, out)
      BY <3>1
    <3>3. IF FromHex(text, out).ok
          THEN ToHex(FromHex(text, out).out, Needed(FromHex(text, out).out)) = [ok |-> TRUE, text |-> text]
          ELSE FromHex(text, out).out = out
      BY TextWrittenBack
    <3> QED
      BY <3>2, <3>3 DEF TextRoundTrips
  <2>3. ASSUME NEW hash \in AnyHash, WriteHash(hash) PROVE TextRoundTrips'
    <3>1. call' = [what |-> "hash_to_hex", given |-> hash, answer |-> HashToHex(hash)]
      BY <2>3 DEF WriteHash, Answer
    <3>2. HashFromHex(HashToHex(hash)) = hash
      BY HashReadBack
    <3>3. call'.what = "hash_to_hex" /\ call'.given = hash /\ call'.answer = HashToHex(hash)
      BY <3>1
    <3> QED
      BY <3>2, <3>3 DEF TextRoundTrips
  <2>4. ASSUME NEW hash \in AnyHash, DigestHash(hash) PROVE TextRoundTrips'
    <3>1. call' = [what |-> "hash_digest", given |-> hash, answer |-> HashDigest(hash)]
      BY <2>4 DEF DigestHash, Answer
    <3>2. TextOf(HashDigest(hash)) = [name |-> "bits", digits |-> HashToHex(hash)]
      BY SameDigits
    <3>3. call'.what = "hash_digest" /\ call'.given = hash /\ call'.answer = HashDigest(hash)
      BY <3>1
    <3> QED
      BY <3>2, <3>3 DEF TextRoundTrips
  <2>5. ASSUME NEW digits \in Seq(-1..15), ReadHash(digits) PROVE TextRoundTrips'
    <3>1. call' = [what |-> "hash_from_hex", given |-> digits, answer |-> HashFromHex(digits)]
      BY <2>5 DEF ReadHash, Answer
    <3>2. call'.what = "hash_from_hex" /\ call'.given = digits /\ call'.answer = HashFromHex(digits)
      BY <3>1
    <3>3. ASSUME HashFromHex(digits) # -1 PROVE HashToHex(HashFromHex(digits)) = digits
      <4>1. Len(digits) = 2 * WordBytes /\ WellFormed(digits)
        BY <3>3 DEF HashFromHex
      <4>2. DOMAIN digits = 1..2 * WordBytes /\ digits = [k \in 1..2 * WordBytes |-> digits[k]]
        BY <4>1
      <4>3. HashDigits(digits)
        BY <4>1, <4>2 DEF HashDigits, WellFormed
      <4> QED
        BY <4>3, HashWrittenBack
    <3> QED
      BY <3>2, <3>3 DEF TextRoundTrips
  <2>6. ASSUME NEW name \in Metrics, NEW a \in AnyDigest, NEW b \in AnyDigest, Compare(name, a, b)
        PROVE  TextRoundTrips'
    <3>1. call'.what = "compare"
      BY <2>6 DEF Compare, Answer
    <3> QED
      BY <3>1 DEF TextRoundTrips
  <2>7. CASE Forget
    BY <2>7 DEF Forget, NoCall, TextRoundTrips
  <2>8. CASE UNCHANGED call
    BY <2>8 DEF TextRoundTrips
  <2> QED
    BY <2>1, <2>2, <2>3, <2>4, <2>5, <2>6, <2>7, <2>8 DEF DigestsNext
<1> QED
  BY <1>1, <1>2, PTL DEF DigestsSpec

-----------------------------------------------------------------------------
\* ColorBins.
AnyColor == [r : 0..Level, g : 0..Level, b : 0..Level]

\* Which of so many equal parts of an axis a value is in.
LEMMA AxisBinIs ==
    ASSUME NEW values \in Nat \ {0}, NEW bins \in Nat \ {0}, NEW v \in 0..values - 1
    PROVE  /\ AxisBin(v, bins, values) \in 0..bins - 1
           /\ \A k \in Nat : InPart(v, k, bins, values) <=> k = AxisBin(v, bins, values)
<1> DEFINE p == v * bins  q == p \div values
<1>1. p \in Nat /\ bins * values \in Nat
  OBVIOUS
<1>2. p < bins * values
  <2>1. v + 1 <= values /\ v + 1 \in Nat
    OBVIOUS
  <2>2. (v + 1) * bins <= values * bins
    BY ONLY <2>1, Product, values \in Nat \ {0}, bins \in Nat \ {0}
  <2>3. (v + 1) * bins = p + bins /\ values * bins = bins * values
    OBVIOUS
  <2> HIDE DEF p
  <2> QED
    BY <1>1, <2>2, <2>3
<1> HIDE DEF p
<1>3. q \in Nat
  BY <1>1
<1>4. \A k \in Nat : k <= q <=> k * values <= p
  <2> SUFFICES ASSUME NEW k \in Nat PROVE k <= q <=> k * values <= p
    OBVIOUS
  <2> QED
    BY ONLY <1>1, QuotientBound, k \in Nat, values \in Nat \ {0}
<1> HIDE DEF q
<1>5. q < bins
  <2>1. ~(bins <= q)
    BY <1>1, <1>2, <1>4
  <2> QED
    BY <1>3, <2>1
<1>6. AxisBin(v, bins, values) = q
  BY <1>5 DEF AxisBin, q, p
<1>7. ASSUME NEW k \in Nat PROVE InPart(v, k, bins, values) <=> k = q
  <2>1. InPart(v, k, bins, values) <=> k * values <= p /\ p < (k + 1) * values
    BY DEF InPart, p
  <2>2. k + 1 \in Nat /\ k * values \in Nat /\ (k + 1) * values \in Nat
    OBVIOUS
  <2>3. InPart(v, k, bins, values) <=> k <= q /\ ~(k + 1 <= q)
    BY <1>1, <1>4, <2>1, <2>2
  <2> QED
    BY <1>3, <2>3
<1> QED
  BY <1>3, <1>5, <1>6, <1>7

\* The digits of a number in two places of which the lower has `base` values.
LEMMA LowAndHigh ==
    ASSUME NEW high \in Nat, NEW base \in Nat \ {0}, NEW low \in 0..base - 1
    PROVE  (high * base + low) \div base = high /\ (high * base + low) % base = low
<1> DEFINE n == high * base + low
<1>1. n \in Nat /\ n = base * high + low /\ high * base \in Nat /\ (high + 1) * base = high * base + base
  OBVIOUS
<1>2. n % base = low
  <2> HIDE DEF n
  <2> QED
    BY ONLY <1>1, OneRemainder, high \in Nat, base \in Nat \ {0}, low \in 0..base - 1, n \in Int
<1>3. n \div base \in Nat
  <2> HIDE DEF n
  <2> QED
    BY <1>1
<1>4. high <= n \div base
  <2>1. high * base <= n
    BY <1>1
  <2> QED
    BY ONLY <1>1, <2>1, QuotientBound, high \in Nat, base \in Nat \ {0}
<1>5. ~(high + 1 <= n \div base)
  <2>1. ~((high + 1) * base <= n) /\ high + 1 \in Nat
    BY <1>1
  <2> QED
    BY ONLY <1>1, <2>1, QuotientBound, base \in Nat \ {0}
<1> HIDE DEF n
<1>6. n \div base = high
  BY <1>3, <1>4, <1>5
<1> QED
  BY <1>2, <1>6 DEF n

\* The bins along the three axes, of a colour and of a bin.
RGBin(c) == AxisBin(RedGreen(c), BinsRG, RGValues)
BYBin(c) == AxisBin(BlueYellow(c), BinsBY, BYValues)
WBBin(c) == AxisBin(LightDark(c), BinsWB, WBValues)

LEMMA BinsOfColor ==
    ASSUME NEW c \in AnyColor
    PROVE  /\ RedGreen(c) \in 0..RGValues - 1 /\ BlueYellow(c) \in 0..BYValues - 1 /\ LightDark(c) \in 0..WBValues - 1
           /\ RGBin(c) \in 0..BinsRG - 1 /\ BYBin(c) \in 0..BinsBY - 1 /\ WBBin(c) \in 0..BinsWB - 1
           /\ \A k \in Nat : /\ InPart(RedGreen(c), k, BinsRG, RGValues) <=> k = RGBin(c)
                             /\ InPart(BlueYellow(c), k, BinsBY, BYValues) <=> k = BYBin(c)
                             /\ InPart(LightDark(c), k, BinsWB, WBValues) <=> k = WBBin(c)
<1>1. Level \in Nat \ {0} /\ BinsRG \in Nat \ {0} /\ BinsBY \in Nat \ {0} /\ BinsWB \in Nat \ {0}
  BY ColorAssumption
<1>2. c.r \in 0..Level /\ c.g \in 0..Level /\ c.b \in 0..Level
  BY DEF AnyColor
<1>3. RGValues \in Nat \ {0} /\ BYValues \in Nat \ {0} /\ WBValues \in Nat \ {0}
  BY <1>1 DEF RGValues, BYValues, WBValues
<1>4. RedGreen(c) \in 0..RGValues - 1 /\ BlueYellow(c) \in 0..BYValues - 1 /\ LightDark(c) \in 0..WBValues - 1
  BY <1>1, <1>2 DEF RGValues, BYValues, WBValues, RedGreen, BlueYellow, LightDark
<1>5. /\ RGBin(c) \in 0..BinsRG - 1
      /\ \A k \in Nat : InPart(RedGreen(c), k, BinsRG, RGValues) <=> k = RGBin(c)
  BY <1>1, <1>3, <1>4, AxisBinIs DEF RGBin
<1>6. /\ BYBin(c) \in 0..BinsBY - 1
      /\ \A k \in Nat : InPart(BlueYellow(c), k, BinsBY, BYValues) <=> k = BYBin(c)
  BY <1>1, <1>3, <1>4, AxisBinIs DEF BYBin
<1>7. /\ WBBin(c) \in 0..BinsWB - 1
      /\ \A k \in Nat : InPart(LightDark(c), k, BinsWB, WBValues) <=> k = WBBin(c)
  BY <1>1, <1>3, <1>4, AxisBinIs DEF WBBin
<1> QED
  BY <1>4, <1>5, <1>6, <1>7

\* Products of one bin less are below the products of all bins.
LEMMA BinsFit ==
    ASSUME NEW i \in 0..BinsRG - 1, NEW j \in 0..BinsBY - 1, NEW k \in 0..BinsWB - 1
    PROVE  /\ i * BinsBY * BinsWB \in 0..255 /\ j * BinsWB \in 0..255 /\ k \in 0..255
           /\ (i * BinsBY + j) * BinsWB + k \in 0..Bins - 1
           /\ (i * BinsBY + j) * BinsWB + k = i * BinsBY * BinsWB + j * BinsWB + k
           /\ BinsRG \in Nat \ {0} /\ BinsBY \in Nat \ {0} /\ BinsWB \in Nat \ {0} /\ BinsBY * BinsWB \in Nat \ {0}
           /\ Bins \in 1..256
<1>1. BinsRG \in Nat \ {0} /\ BinsBY \in Nat \ {0} /\ BinsWB \in Nat \ {0} /\ BinsRG * BinsBY * BinsWB <= 256
  BY ColorAssumption
<1> DEFINE P == BinsRG  Q == BinsBY  R == BinsWB  S == Q * R
<1>a. P \in Nat \ {0} /\ Q \in Nat \ {0} /\ R \in Nat \ {0}
  BY <1>1
<1> HIDE DEF P, Q, R
<1>2. S \in Nat \ {0} /\ P * Q * R = P * S
  BY <1>a
<1>3. i * Q * R = i * S /\ (i * Q + j) * R + k = i * S + j * R + k /\ j * R \in Nat /\ i * S \in Nat
  <2>1. i \in Nat /\ j \in Nat /\ k \in Nat
    BY <1>1
  <2> QED
    BY <1>a, <2>1
<1>4. (j + 1) * R <= Q * R /\ (j + 1) * R = j * R + R
  <2>1. j + 1 \in Nat /\ j + 1 <= Q /\ Q \in Nat /\ R \in Nat /\ j \in Nat
    BY <1>a DEF Q
  <2> QED
    BY ONLY <2>1, Product
<1> HIDE DEF S
<1>5. (i + 1) * S <= P * S /\ (i + 1) * S = i * S + S
  <2>1. i + 1 \in Nat /\ i + 1 <= P /\ P \in Nat /\ S \in Nat /\ i \in Nat
    BY <1>a, <1>2 DEF P
  <2> QED
    BY ONLY <2>1, Product
<1>6. 1 * S <= P * S /\ 1 * S = S
  <2>1. 1 <= P /\ P \in Nat /\ S \in Nat /\ 1 \in Nat
    BY <1>a, <1>2
  <2> QED
    BY ONLY <2>1, Product
<1>7. P * S <= 256 /\ S = Q * R
  BY <1>1, <1>2 DEF P, Q, R, S
<1>8. k \in 0..R - 1
  BY DEF R
<1> DEFINE x == i * S  y == j * R
<1>9. x \in Nat /\ y \in Nat /\ y + R <= S /\ x + S <= P * S
  BY <1>3, <1>4, <1>5, <1>7
<1>10. P * S \in Nat
  BY <1>a, <1>2
<1> HIDE DEF x, y
<1> DEFINE Z == P * S
<1> HIDE DEF Z
<1>z. Z = P * S
  BY DEF Z
<1>11. Z \in 1..256 /\ x + S <= Z
  <2>1. Z \in Nat /\ S <= Z /\ Z <= 256 /\ x + S <= Z /\ S \in Nat \ {0}
    BY ONLY <1>z, <1>2, <1>6, <1>7, <1>9, <1>10
  <2> QED
    BY ONLY <2>1
<1>12. x \in 0..255 /\ y \in 0..255 /\ k \in 0..255 /\ x + y + k \in 0..Z - 1
  BY <1>a, <1>2, <1>8, <1>9, <1>11
<1>13. Bins = Z
  BY <1>2 DEF Bins, P, Q, R, Z
<1> QED
  BY <1>a, <1>2, <1>3, <1>7, <1>11, <1>12, <1>13 DEF P, Q, R, x, y

\* The tables answer what is computed without them.
LEMMA LookupIs ==
    ASSUME NEW c \in AnyColor
    PROVE  Lookup(c) = HistogramBin(c)
<1> DEFINE i == RGBin(c)  j == BYBin(c)  k == WBBin(c)
<1>1. i \in 0..BinsRG - 1 /\ j \in 0..BinsBY - 1 /\ k \in 0..BinsWB - 1
  BY BinsOfColor
<1>2. RedGreen(c) \in 0..RGValues - 1 /\ BlueYellow(c) \in 0..BYValues - 1 /\ LightDark(c) \in 0..WBValues - 1
  BY BinsOfColor
<1>3. /\ Lookup(c) = ((i * BinsBY * BinsWB) % 256) + ((j * BinsWB) % 256) + (k % 256)
      /\ HistogramBin(c) = (i * BinsBY + j) * BinsWB + k
  BY <1>2 DEF Lookup, HistogramBin, TableRG, TableBY, TableWB, RGBin, BYBin, WBBin
<1> HIDE DEF i, j, k
<1>4. /\ i * BinsBY * BinsWB \in 0..255 /\ j * BinsWB \in 0..255 /\ k \in 0..255
      /\ (i * BinsBY + j) * BinsWB + k = i * BinsBY * BinsWB + j * BinsWB + k
  BY ONLY <1>1, BinsFit
<1> DEFINE x == i * BinsBY * BinsWB  y == j * BinsWB
<1>5. x \in 0..255 /\ y \in 0..255
  BY <1>4
<1>6. Lookup(c) = (x % 256) + (y % 256) + (k % 256) /\ HistogramBin(c) = x + y + k
  BY <1>3, <1>4
<1> HIDE DEF x, y
<1>7. x % 256 = x /\ y % 256 = y /\ k % 256 = k
  BY <1>4, <1>5
<1> QED
  BY <1>6, <1>7

LEMMA HigherDigits ==
    ASSUME NEW n \in Nat, NEW q \in Nat \ {0}, NEW r \in Nat \ {0}
    PROVE  (n \div r) \div q = n \div (q * r)
<1>1. r * q = q * r
  OBVIOUS
<1>2. (n \div r) \div q = n \div (r * q)
  BY DividedTwice
<1> QED
  BY ONLY <1>1, <1>2

\* A colour is in the bin it is counted in, and in no other.
LEMMA HoldsIs ==
    ASSUME NEW c \in AnyColor, NEW bin \in 0..Bins - 1
    PROVE  Holds(bin, c) <=> Lookup(c) = bin
<1> DEFINE i == RGBin(c)  j == BYBin(c)  k == WBBin(c)  Q == BinsBY  R == BinsWB
<1>1. i \in 0..BinsRG - 1 /\ j \in 0..Q - 1 /\ k \in 0..R - 1
  BY BinsOfColor
<1>2. Lookup(c) = (i * Q + j) * R + k
  BY LookupIs DEF HistogramBin, RGBin, BYBin, WBBin
<1>3. Q \in Nat \ {0} /\ R \in Nat \ {0} /\ Q * R \in Nat \ {0} /\ Bins \in 1..256
  <2> HIDE DEF i, j, k
  <2> QED
    BY <1>1, BinsFit
<1>4. bin \in Nat
  BY <1>3
<1> DEFINE a == bin \div (Q * R)  h == bin \div R  b == h % Q  d == bin % R
<1>5. h \in Nat /\ d \in 0..R - 1 /\ bin = h * R + d
  <2> HIDE DEF R
  <2> QED
    BY <1>3, <1>4
<1>6. a \in Nat /\ b \in Nat /\ d \in Nat /\ i \in Nat /\ j \in Nat /\ k \in Nat
  <2> DEFINE S == Q * R
  <2>1. S \in Nat \ {0}
    BY <1>3
  <2> HIDE DEF S
  <2>2. bin \div S \in Nat
    BY <1>4, <2>1
  <2> HIDE DEF h
  <2>3. b \in Nat
    BY <1>3, <1>5
  <2> QED
    BY <1>1, <1>5, <2>2, <2>3 DEF S
<1>7. Holds(bin, c) <=> a = i /\ b = j /\ d = k
  <2>1. Holds(bin, c) <=> /\ InPart(RedGreen(c), a, BinsRG, RGValues)
                          /\ InPart(BlueYellow(c), b, BinsBY, BYValues)
                          /\ InPart(LightDark(c), d, BinsWB, WBValues)
    BY DEF Holds
  <2> HIDE DEF a, b, d
  <2>2. /\ InPart(RedGreen(c), a, BinsRG, RGValues) <=> a = i
        /\ InPart(BlueYellow(c), b, BinsBY, BYValues) <=> b = j
        /\ InPart(LightDark(c), d, BinsWB, WBValues) <=> d = k
    BY <1>6, BinsOfColor
  <2> QED
    BY <2>1, <2>2
<1>8. h \div Q = a /\ h = (h \div Q) * Q + b
  <2>1. h \div Q = a
    <3> HIDE DEF Q, R
    <3>1. (bin \div R) \div Q = bin \div (Q * R)
      BY ONLY <1>3, <1>4, HigherDigits
    <3> QED
      BY ONLY <3>1 DEF h, a
  <2>2. h = (h \div Q) * Q + b
    <3> HIDE DEF h, Q
    <3> QED
      BY <1>3, <1>5
  <2> QED
    BY <2>1, <2>2
<1> HIDE DEF i, j, k, a
<1>9. ASSUME a = i, b = j, d = k PROVE bin = (i * Q + j) * R + k
  <2>1. h = a * Q + b /\ bin = h * R + d
    BY <1>5, <1>8
  <2> HIDE DEF h, b, d, Q, R
  <2> QED
    BY ONLY <1>9, <2>1
<1>10. ASSUME bin = (i * Q + j) * R + k PROVE a = i /\ b = j /\ d = k
  <2> DEFINE u == i * Q + j
  <2>1. u \in Nat /\ bin = u * R + k
    BY <1>3, <1>6, <1>10
  <2> HIDE DEF u, Q, R, h
  <2>2. (u * R + k) \div R = u /\ (u * R + k) % R = k
    BY ONLY <1>1, <1>3, <2>1, LowAndHigh
  <2>3. h = u /\ d = k
    BY ONLY <2>1, <2>2 DEF h
  <2>4. (i * Q + j) \div Q = i /\ (i * Q + j) % Q = j
    BY ONLY <1>1, <1>3, <1>6, LowAndHigh
  <2>5. u \div Q = i /\ u % Q = j
    BY ONLY <2>4 DEF u
  <2>6. a = i
    BY ONLY <1>8, <2>3, <2>5
  <2> QED
    BY ONLY <2>3, <2>5, <2>6
<1> QED
  BY <1>2, <1>7, <1>9, <1>10

Picture(pixels) == pixels \in Seq(AnyColor)

\* The pixels of a bin.
InBin(pixels, bin) == {i \in DOMAIN pixels : Lookup(pixels[i]) = bin}

LEMMA FinitePicture ==
    ASSUME NEW pixels, Picture(pixels)
    PROVE  /\ DOMAIN pixels = 1..Len(pixels) /\ Len(pixels) \in Nat /\ IsFiniteSet(DOMAIN pixels)
           /\ \A i \in DOMAIN pixels : pixels[i] \in AnyColor
           /\ \A bin : IsFiniteSet(InBin(pixels, bin)) /\ Cardinality(InBin(pixels, bin)) \in 0..Len(pixels)
<1>1. DOMAIN pixels = 1..Len(pixels) /\ Len(pixels) \in Nat /\ \A i \in DOMAIN pixels : pixels[i] \in AnyColor
  BY DEF Picture
<1>2. IsFiniteSet(1..Len(pixels)) /\ Cardinality(1..Len(pixels)) = Len(pixels)
  <2>1. 1 \in Int /\ Len(pixels) \in Int
    BY <1>1
  <2> QED
    BY <1>1, <2>1, FS_Interval
<1>3. ASSUME NEW bin
      PROVE  IsFiniteSet(InBin(pixels, bin)) /\ Cardinality(InBin(pixels, bin)) \in 0..Len(pixels)
  <2>1. InBin(pixels, bin) \subseteq 1..Len(pixels)
    BY <1>1 DEF InBin
  <2>2. IsFiniteSet(InBin(pixels, bin)) /\ Cardinality(InBin(pixels, bin)) <= Len(pixels)
    BY <1>2, <2>1, FS_Subset
  <2>3. Cardinality(InBin(pixels, bin)) \in Nat
    BY <2>2, FS_CardinalityType
  <2> QED
    BY <1>1, <2>2, <2>3
<1> QED
  BY <1>1, <1>2, <1>3

\* Every pixel is in a lane, whole groups and what is left over alike.
LEMMA InLane ==
    ASSUME NEW m \in Nat, NEW i \in Nat \ {0}
    PROVE  LaneOf(m, i) \in 0..Lanes - 1
<1>1. Lanes \in Nat \ {0}
  BY ColorAssumption
<1>2. (i - 1) % Lanes \in 0..Lanes - 1 /\ 0 \in 0..Lanes - 1
  BY <1>1
<1> QED
  BY <1>2 DEF LaneOf

\* The lanes together count every pixel once.
LEMMA LanesTogether ==
    ASSUME NEW pixels, Picture(pixels), NEW bin
    PROVE  LanesAdded(pixels, bin) = Cardinality(InBin(pixels, bin))
<1> DEFINE S == 0..Lanes - 1  T == InBin(pixels, bin)  p == [i \in T |-> LaneOf(Len(pixels), i)]
     g == [lane \in S |-> LaneCount(pixels, lane, bin)]
     Folds(h) == h = [s \in SUBSET S |-> IF s = {} THEN 0 ELSE LaneCount(pixels, Chosen(s), bin) + h[s \ {Chosen(s)}]]
<1>1. IsFiniteSet(S) /\ IsFiniteSet(T)
  <2>1. 0 \in Int /\ Lanes - 1 \in Int
    BY ColorAssumption
  <2>2. IsFiniteSet(S)
    BY <2>1, FS_Interval
  <2> QED
    BY <2>2, FinitePicture
<1>2. p \in [T -> S]
  <2>1. \A i \in T : i \in Nat \ {0}
    BY FinitePicture DEF InBin
  <2>2. \A i \in T : LaneOf(Len(pixels), i) \in S
    BY <2>1, FinitePicture, InLane
  <2> QED
    BY <2>2
<1>3. g = [lane \in S |-> Cardinality(Part(T, p, lane))]
  <2>1. ASSUME NEW lane \in S PROVE LaneCount(pixels, lane, bin) = Cardinality(Part(T, p, lane))
    <3>1. Part(T, p, lane) = {i \in DOMAIN pixels : LaneOf(Len(pixels), i) = lane /\ Lookup(pixels[i]) = bin}
      BY DEF Part, InBin
    <3> QED
      BY <3>1 DEF LaneCount
  <2> QED
    BY <2>1
<1>4. Summable(g, S) /\ Sums(g)[S] = Cardinality(T)
  <2> HIDE DEF S, T, p, g
  <2> QED
    BY <1>1, <1>2, <1>3, CountByParts
<1>5. DOMAIN g = S /\ \A s \in SUBSET S : s # {} => g[Chosen(s)] = LaneCount(pixels, Chosen(s), bin)
  BY ChosenIsIn
<1>6. LanesAdded(pixels, bin) = (CHOOSE h : Folds(h))[S]
  BY DEF LanesAdded, MapThenSumSet, MapThenFoldSet, Chosen
<1> HIDE DEF g, S, T
<1>7. \A h : Folds(h) <=> AddsUp(g, h)
  BY <1>5 DEF AddsUp
<1>8. Folds(Sums(g))
  BY <1>4, <1>7, SumsAddUp
<1> HIDE DEF Folds
<1>9. Folds(CHOOSE h : Folds(h))
  BY <1>8
<1>10. (CHOOSE h : Folds(h)) = Sums(g)
  BY <1>4, <1>7, <1>9, SumsAreOne
<1> QED
  BY <1>4, <1>6, <1>10 DEF T

\* The largest of finitely many numbers.
LEMMA LargestExists ==
    ASSUME NEW n \in Nat, NEW T, T \subseteq 0..n, T # {}
    PROVE  Max(T) \in T /\ \A y \in T : Max(T) >= y
<1> DEFINE U == {n - x : x \in T}
<1>1. U \subseteq Nat /\ U # {}
  <2>1. \A x \in T : n - x \in Nat
    OBVIOUS
  <2> QED
    BY <2>1
<1>2. PICK u \in U : \A y \in U : u <= y
  BY <1>1, LeastOne
<1>3. PICK x \in T : u = n - x
  BY <1>2
<1>4. \A y \in T : x >= y
  <2> SUFFICES ASSUME NEW y \in T PROVE x >= y
    OBVIOUS
  <2>1. n - y \in U
    OBVIOUS
  <2>2. n - x <= n - y
    BY <1>2, <1>3, <2>1
  <2>3. x \in Int /\ y \in Int
    OBVIOUS
  <2> QED
    BY <2>2, <2>3
<1> QED
  BY <1>3, <1>4 DEF Max

\* Division by a number to which half of it was added rounds to the nearest.
LEMMA RoundedToNearest ==
    ASSUME NEW N \in Nat, NEW max \in Nat \ {0}, NEW q, q = (N + max \div 2) \div max
    PROVE  2 * N < (2 * q + 1) * max /\ (2 * q - 1) * max <= 2 * N
<1> DEFINE h == max \div 2  o == N + h  r == o % max
<1>1. h \in Nat /\ (max = 2 * h \/ max = 2 * h + 1)
  OBVIOUS
<1> HIDE DEF h
<1>2. o \in Nat
  BY <1>1
<1>3. q = o \div max
  BY DEF h
<1> HIDE DEF o
<1>4. q \in Nat /\ r \in 0..max - 1 /\ o = max * q + r
  BY <1>2, <1>3
<1> HIDE DEF r
<1> DEFINE p == max * q
<1>5. p \in Nat /\ (2 * q + 1) * max = 2 * p + max /\ (2 * q - 1) * max = 2 * p - max
  BY <1>4
<1> HIDE DEF p
<1>6. N + h = p + r
  BY <1>4 DEF p, o
<1>7. 2 * N < 2 * p + max /\ 2 * p - max <= 2 * N
  BY ONLY <1>1, <1>4, <1>5, <1>6, N \in Nat, max \in Nat \ {0}
<1> QED
  BY ONLY <1>5, <1>7

LEMMA ColorHashIs ==
    ASSUME NEW pixels, Picture(pixels)
    PROVE  LET counted(bin) == Cardinality({i \in DOMAIN pixels : Holds(bin, pixels[i])})
               max == Max({counted(bin) : bin \in 0..Bins - 1})
           IN  \A bin \in 0..Bins - 1 :
                   /\ 2 * counted(bin) * Scale < (2 * ColorHash(pixels)[bin] + 1) * max \/ max = 0
                   /\ (2 * ColorHash(pixels)[bin] - 1) * max <= 2 * counted(bin) * Scale
<1> DEFINE B == 0..Bins - 1  n == Len(pixels)  counts == Counts(pixels)
     counted(bin) == Cardinality({i \in DOMAIN pixels : Holds(bin, pixels[i])})
     max == Max({counted(bin) : bin \in B})
<1>1. n \in Nat /\ Scale \in Nat /\ Bins \in 1..256
  <2>1. 0 \in 0..BinsRG - 1 /\ 0 \in 0..BinsBY - 1 /\ 0 \in 0..BinsWB - 1
    BY ColorAssumption
  <2>2. Bins \in 1..256
    BY ONLY <2>1, BinsFit
  <2> QED
    BY <2>2, ColorAssumption, FinitePicture
<1>2. ASSUME NEW bin \in B PROVE counted(bin) = counts[bin] /\ counted(bin) \in 0..n
  <2>1. {i \in DOMAIN pixels : Holds(bin, pixels[i])} = InBin(pixels, bin)
    BY FinitePicture, HoldsIs DEF InBin
  <2>2. counts[bin] = Cardinality(InBin(pixels, bin))
    BY LanesTogether DEF Counts
  <2> QED
    BY <2>1, <2>2, FinitePicture
<1> HIDE DEF counts, n
<1>3. {counted(bin) : bin \in B} = {counts[bin] : bin \in B}
  <2> HIDE DEF counted
  <2> QED
    BY <1>2
<1>4. max = Max({counts[bin] : bin \in B})
  BY <1>3
<1>5. max \in 0..n
  <2> DEFINE T == {counts[bin] : bin \in B}
  <2>1. T \subseteq 0..n /\ T # {}
    <3>1. 0 \in B
      BY <1>1
    <3> QED
      BY <1>2, <3>1
  <2> HIDE DEF T
  <2>2. Max(T) \in T
    BY ONLY <1>1, <2>1, LargestExists
  <2>3. Max(T) \in 0..n
    BY <2>1, <2>2
  <2> HIDE DEF max
  <2> QED
    BY <1>4, <2>3 DEF T
<1>6. ColorHash(pixels) = [bin \in B |-> IF max = 0 THEN 0 ELSE (counts[bin] * Scale + max \div 2) \div max]
  BY <1>4 DEF ColorHash, counts
<1> HIDE DEF max
<1>7. ASSUME NEW bin \in B
      PROVE  /\ 2 * counted(bin) * Scale < (2 * ColorHash(pixels)[bin] + 1) * max \/ max = 0
             /\ (2 * ColorHash(pixels)[bin] - 1) * max <= 2 * counted(bin) * Scale
  <2> DEFINE c == counted(bin)  q == ColorHash(pixels)[bin]  N == c * Scale
  <2>1. c \in Nat /\ c = counts[bin]
    BY <1>1, <1>2
  <2>2. N \in Nat /\ 2 * c * Scale = 2 * N
    <3> HIDE DEF c
    <3> QED
      BY <1>1, <2>1
  <2>3. q = IF max = 0 THEN 0 ELSE (counts[bin] * Scale + max \div 2) \div max
    BY <1>6
  <2> HIDE DEF q
  <2>4. q = IF max = 0 THEN 0 ELSE (N + max \div 2) \div max
    BY <2>1, <2>3
  <2> HIDE DEF N, c
  <2>5. CASE max = 0
    <3>1. (2 * q - 1) * max <= 2 * N
      BY <2>2, <2>4, <2>5
    <3> QED
      BY <2>2, <2>5, <3>1 DEF c, q
  <2>6. CASE max # 0
    <3>1. max \in Nat \ {0} /\ q = (N + max \div 2) \div max
      BY <1>1, <1>5, <2>4, <2>6
    <3>2. 2 * N < (2 * q + 1) * max /\ (2 * q - 1) * max <= 2 * N
      BY ONLY <2>2, <3>1, RoundedToNearest
    <3> QED
      BY <2>2, <3>2 DEF c, q
  <2> QED
    BY <2>5, <2>6
<1> QED
  BY <1>7 DEF max, B

ColorNext == (\E pixels \in Seq(AnyColor) : Count(pixels)) \/ Forget

ColorSpec == call = NoCall /\ [][ColorNext]_call

\* Of any picture: whatever the number of lanes and of bins along the axes, the tables answer
\* what is computed without them, and every pixel is counted once, in the bin that its colour is in.
THEOREM HistogramsCount == ColorSpec => []HistogramCounts
<1>1. call = NoCall => HistogramCounts
  BY DEF NoCall, HistogramCounts
<1>2. HistogramCounts /\ [ColorNext]_call => HistogramCounts'
  <2> SUFFICES ASSUME HistogramCounts, [ColorNext]_call PROVE HistogramCounts'
    OBVIOUS
  <2>1. ASSUME NEW pixels \in Seq(AnyColor), Count(pixels) PROVE HistogramCounts'
    <3>1. call' = [what |-> "color", given |-> pixels, answer |-> ColorHash(pixels)]
      BY <2>1 DEF Count, Answer
    <3>2. call'.what = "color" /\ call'.given = pixels /\ call'.answer = ColorHash(pixels)
      BY <3>1
    <3>3. Picture(pixels)
      BY DEF Picture
    <3>4. \A i \in DOMAIN pixels : Lookup(pixels[i]) = HistogramBin(pixels[i])
      BY <3>3, FinitePicture, LookupIs
    <3>5. LET counted(bin) == Cardinality({i \in DOMAIN pixels : Holds(bin, pixels[i])})
               max == Max({counted(bin) : bin \in 0..Bins - 1})
           IN  \A bin \in 0..Bins - 1 :
                   /\ 2 * counted(bin) * Scale < (2 * ColorHash(pixels)[bin] + 1) * max \/ max = 0
                   /\ (2 * ColorHash(pixels)[bin] - 1) * max <= 2 * counted(bin) * Scale
      BY <3>3, ColorHashIs
    <3> QED
      BY <3>2, <3>4, <3>5 DEF HistogramCounts
  <2>2. CASE Forget
    BY <2>2 DEF Forget, NoCall, HistogramCounts
  <2>3. CASE UNCHANGED call
    BY <2>3 DEF HistogramCounts
  <2> QED
    BY <2>1, <2>2, <2>3 DEF ColorNext
<1> QED
  BY <1>1, <1>2, PTL DEF ColorSpec

-----------------------------------------------------------------------------
\* Filters.  The samples of a position beyond an edge.
LEMMA NearestIsClamp ==
    ASSUME NEW v \in Int, NEW size \in Nat \ {0}
    PROVE  Nearest(v, size) = Clamp(v, size) /\ Clamp(v, size) \in 0..size - 1
<1> DEFINE c == Clamp(v, size)
     near(s) == \A o \in 0..size - 1 : Distant(s, v) <= Distant(o, v)
<1>1. c \in 0..size - 1 /\ near(c)
  BY DEF Clamp, Distant
<1>2. ASSUME NEW s \in 0..size - 1, near(s) PROVE s = c
  <2>1. Distant(s, v) <= Distant(c, v)
    BY <1>1, <1>2
  <2> QED
    BY <2>1 DEF Clamp, Distant
<1>3. Nearest(v, size) = CHOOSE s \in 0..size - 1 : near(s)
  BY DEF Nearest
<1> HIDE DEF c, near
<1>4. (CHOOSE s \in 0..size - 1 : near(s)) = c
  BY <1>1, <1>2
<1> QED
  BY <1>1, <1>3, <1>4 DEF c

LEMMA AcrossIs ==
    ASSUME NEW w \in Nat \ {0}, NEW r \in Nat \ {0}, NEW x \in 0..w - 1, NEW t \in 0..2 * r
    PROVE  Across(w, r)[x][t] = Nearest((x + t) - r, w)
<1>1. (x + t) - r \in Int /\ Strip \in Nat \ {0}
  BY FiltersAssumption
<1>2. Nearest((x + t) - r, w) = Clamp((x + t) - r, w)
  BY ONLY <1>1, NearestIsClamp, w \in Nat \ {0}
<1>3. CASE x < Lo(w, r) \/ x >= Hi(w, r)
  BY <1>2, <1>3 DEF Across, ClampedTaps
<1>4. CASE ~(x < Lo(w, r) \/ x >= Hi(w, r))
  <2>1. x >= r /\ x < w - r
    BY <1>4 DEF Lo, Hi
  <2> DEFINE i == (x - Lo(w, r)) % Strip
  <2>2. i \in 0..Strip - 1
    <3>1. x - Lo(w, r) \in Int
      BY DEF Lo
    <3> QED
      BY <1>1, <3>1
  <2>3. Across(w, r)[x] = StripTaps(x, w, r)
    BY <1>4 DEF Across
  <2>4. StripTaps(x, w, r)[t] = [k \in 0..(Strip + 2 * r) - 1 |-> ((x - i) - r) + k][t + i]
    BY DEF StripTaps
  <2> HIDE DEF i
  <2>5. t + i \in 0..(Strip + 2 * r) - 1
    BY <1>1, <2>2
  <2>6. StripTaps(x, w, r)[t] = (x + t) - r
    BY <1>1, <2>2, <2>4, <2>5
  <2>7. Clamp((x + t) - r, w) = (x + t) - r
    BY <2>1 DEF Clamp
  <2> QED
    BY <1>2, <2>3, <2>6, <2>7
<1> QED
  BY <1>3, <1>4

LEMMA DownIs ==
    ASSUME NEW w \in Nat \ {0}, NEW h \in Nat \ {0}, NEW r \in Nat \ {0}, NEW x \in 0..w - 1, NEW y \in 0..h - 1,
           NEW t \in 0..2 * r
    PROVE  DownTaps(x, y, w, h, r)[t] = Nearest((y + t) - r, h) * w + x
<1> DEFINE i == x % Strip  c == Clamp((y + t) - r, h)
<1>1. (y + t) - r \in Int /\ Strip \in Nat \ {0}
  BY FiltersAssumption
<1>2. Nearest((y + t) - r, h) = c /\ c \in 0..h - 1
  BY ONLY <1>1, NearestIsClamp, h \in Nat \ {0}
<1>3. i \in Int
  BY <1>1
<1>4. CASE ReachesIn(y, h, r)
  <2>1. DownTaps(x, y, w, h, r)[t] = ((y - r) * w + (x - i)) + (t * w + i)
    BY <1>4 DEF DownTaps
  <2>2. c = (y + t) - r
    BY <1>4 DEF ReachesIn, Clamp
  <2> HIDE DEF i, c
  <2>3. ((y - r) * w + (x - i)) + (t * w + i) = ((y + t) - r) * w + x
    <3> DEFINE a == y - r
    <3>1. a \in Int /\ (y + t) - r = a + t
      OBVIOUS
    <3> HIDE DEF a
    <3>2. (a + t) * w = a * w + t * w /\ a * w \in Int /\ t * w \in Int
      BY <3>1
    <3>3. (a * w + (x - i)) + (t * w + i) = (a + t) * w + x
      BY <1>3, <3>2
    <3> QED
      BY <3>1, <3>3 DEF a
  <2> QED
    BY ONLY <1>2, <2>1, <2>2, <2>3
<1>5. CASE ~ReachesIn(y, h, r)
  <2>1. DownTaps(x, y, w, h, r)[t] = (c * w + (x - i)) + i
    BY <1>5 DEF DownTaps, ClampedTaps
  <2> HIDE DEF i, c
  <2>2. (c * w + (x - i)) + i = c * w + x
    BY <1>2, <1>3
  <2> QED
    BY ONLY <1>2, <2>1, <2>2
<1> QED
  BY <1>4, <1>5

LEMMA BlurIs ==
    ASSUME NEW w \in Nat \ {0}, NEW h \in Nat \ {0}, NEW reach \in Int, NEW answer, NEW given,
           given = [w |-> w, h |-> h, radius |-> Radius(reach)],
           answer = [across |-> Across(w, Radius(reach)),
                     down   |-> [p \in (0..w - 1) \X (0..h - 1) |-> DownTaps(p[1], p[2], w, h, Radius(reach))]]
    PROVE  BlurAsDefined(given, answer)
<1> DEFINE r == Radius(reach)
<1>1. r \in Nat \ {0}
  BY FiltersAssumption DEF Radius
<1>2. given.w = w /\ given.h = h /\ given.radius = r /\ answer.across = Across(w, r)
  OBVIOUS
<1>3. \A x \in 0..w - 1, y \in 0..h - 1 : answer.down[<<x, y>>] = DownTaps(x, y, w, h, r)
  OBVIOUS
<1> HIDE DEF r
<1>4. ASSUME NEW x \in 0..w - 1, NEW t \in 0..2 * r
      PROVE  answer.across[x][t] = Nearest((x + t) - r, w)
  <2>1. Across(w, r)[x][t] = Nearest((x + t) - r, w)
    BY ONLY <1>1, AcrossIs, w \in Nat \ {0}, x \in 0..w - 1, t \in 0..2 * r
  <2> QED
    BY ONLY <1>2, <2>1
<1>5. ASSUME NEW x \in 0..w - 1, NEW t \in 0..2 * r, NEW y \in 0..h - 1
      PROVE  answer.down[<<x, y>>][t] = Nearest((y + t) - r, h) * w + x
  <2>1. DownTaps(x, y, w, h, r)[t] = Nearest((y + t) - r, h) * w + x
    BY ONLY <1>1, DownIs, w \in Nat \ {0}, h \in Nat \ {0}, x \in 0..w - 1, t \in 0..2 * r, y \in 0..h - 1
  <2>2. answer.down[<<x, y>>] = DownTaps(x, y, w, h, r)
    BY <1>3
  <2> QED
    BY ONLY <2>1, <2>2
<1>6. \A x \in 0..w - 1, t \in 0..2 * r :
        /\ answer.across[x][t] = Nearest((x + t) - r, w)
        /\ \A y \in 0..h - 1 : answer.down[<<x, y>>][t] = Nearest((y + t) - r, h) * w + x
  BY ONLY <1>4, <1>5
<1>7. given.w = w /\ given.h = h /\ given.radius = r
  BY ONLY <1>2
<1> QED
  BY ONLY <1>6, <1>7 DEF BlurAsDefined

-----------------------------------------------------------------------------
\* Weights that are parts of 128, as the configuration keeps them.
Weighted == {w \in [1..3 -> 0..128] : (w[1] + w[2]) + w[3] = 128}

\* A weighted sum of bytes, whose weights are parts of 128, fits into a lane of 16 bits,
\* and its quotient into a byte.
Weighs(s, x, u, y, v, z, w) == s = (x * u + y * v) + z * w
FitsLane(s) == s \in Nat /\ s < 256 * 128

LEMMA WeightedSum ==
    ASSUME NEW u \in 0..128, NEW v \in 0..128, NEW w \in 0..128, (u + v) + w = 128,
           NEW x \in 0..255, NEW y \in 0..255, NEW z \in 0..255,
           NEW s, Weighs(s, x, u, y, v, z, w)
    PROVE  FitsLane(s)
<1> DEFINE p == x * u  q == y * v  r == z * w
<1>1. ASSUME NEW a \in 0..128, NEW b \in 0..255 PROVE b * a \in Nat /\ b * a <= 255 * a
  <2>1. b \in Nat /\ 255 \in Nat /\ a \in Nat /\ b <= 255
    OBVIOUS
  <2> QED
    BY ONLY <2>1, Product
<1>2. p \in Nat /\ p <= 255 * u
  BY ONLY <1>1, u \in 0..128, x \in 0..255
<1>3. q \in Nat /\ q <= 255 * v
  BY ONLY <1>1, v \in 0..128, y \in 0..255
<1>4. r \in Nat /\ r <= 255 * w
  BY ONLY <1>1, w \in 0..128, z \in 0..255
<1>5. s = (p + q) + r
  BY DEF Weighs
<1> HIDE DEF p, q, r
<1>6. s \in Nat /\ s < 256 * 128
  BY ONLY <1>2, <1>3, <1>4, <1>5, u \in 0..128, v \in 0..128, w \in 0..128, (u + v) + w = 128
<1> QED
  BY ONLY <1>6 DEF FitsLane

LEMMA LaneOfSum ==
    ASSUME NEW s \in Nat, s < 256 * 128
    PROVE  s % 65536 = s /\ Shifted7(s) = s \div 128
<1> DEFINE n == 65536  q == s \div 128
<1>1. n \in Nat \ {0} /\ s < n
  OBVIOUS
<1> HIDE DEF n
<1>2. s % n = s
  BY <1>1, SmallRemainder
<1>3. q \in Nat /\ q < 256
  <2>1. 128 \in Nat \ {0} /\ 256 \in Nat
    OBVIOUS
  <2> HIDE DEF q
  <2>2. s \div 128 \in Nat /\ s \div 128 < 256
    BY <2>1, BelowProduct
  <2> QED
    BY <2>2 DEF q
<1> HIDE DEF q
<1>4. q % 256 = q
  BY <1>3
<1>5. Shifted7(s) = q % 256
  BY DEF q, Shifted7
<1> QED
  BY <1>2, <1>4, <1>5 DEF n, q

LEMMA GrayIs ==
    ASSUME NEW c \in [1..3 -> 0..255], NEW w \in Weighted, NEW sum,
           sum = (c[1] * w[1] + c[2] * w[2]) + c[3] * w[3]
    PROVE  /\ GrayInLane(c, w) = sum \div 128 /\ GrayAlone(c, w) = sum \div 128
           /\ 128 * (sum \div 128) <= sum /\ sum < 128 * ((sum \div 128) + 1)
<1>1. /\ c[1] \in 0..255 /\ c[2] \in 0..255 /\ c[3] \in 0..255
      /\ w[1] \in 0..128 /\ w[2] \in 0..128 /\ w[3] \in 0..128 /\ (w[1] + w[2]) + w[3] = 128
  BY DEF Weighted
<1>2. sum \in Nat /\ sum < 256 * 128
  <2> DEFINE x == c[1]  y == c[2]  z == c[3]  u == w[1]  v == w[2]  q == w[3]
  <2>1. /\ x \in 0..255 /\ y \in 0..255 /\ z \in 0..255
        /\ u \in 0..128 /\ v \in 0..128 /\ q \in 0..128 /\ (u + v) + q = 128
    BY ONLY <1>1
  <2>2. Weighs(sum, x, u, y, v, z, q)
    BY DEF Weighs
  <2> HIDE DEF x, y, z, u, v, q
  <2>3. FitsLane(sum)
    BY ONLY <2>1, <2>2, WeightedSum
  <2> QED
    BY ONLY <2>3 DEF FitsLane
<1>3. w[1] % 256 = w[1] /\ w[2] % 256 = w[2] /\ w[3] % 256 = w[3]
  BY <1>1
<1>4. GrayInLane(c, w) = Shifted7(sum % 65536) /\ GrayAlone(c, w) = Shifted7(sum)
  BY <1>3 DEF GrayInLane, GrayAlone
<1>5. sum % 65536 = sum /\ Shifted7(sum) = sum \div 128
  BY ONLY <1>2, LaneOfSum
<1>6. 128 * (sum \div 128) <= sum /\ sum < 128 * ((sum \div 128) + 1)
  BY ONLY <1>2
<1> QED
  BY ONLY <1>4, <1>5, <1>6

LEMMA GrayOfAll ==
    ASSUME NEW pixels \in Seq([1..3 -> 0..255]), NEW weights \in Weighted, NEW vectors \in BOOLEAN, NEW given, NEW answer,
           given = [pixels |-> pixels, weights |-> weights],
           answer = [i \in DOMAIN pixels |-> IF i <= InVectors(Cardinality(DOMAIN pixels), vectors)
                                             THEN GrayInLane(pixels[i], weights) ELSE GrayAlone(pixels[i], weights)]
    PROVE  GrayAsDefined(given, answer)
<1>1. given.pixels = pixels /\ given.weights = weights /\ DOMAIN answer = DOMAIN pixels
  OBVIOUS
<1>2. ASSUME NEW i \in DOMAIN pixels
      PROVE  LET c == pixels[i]
                 sum == (c[1] * weights[1] + c[2] * weights[2]) + c[3] * weights[3]
             IN  128 * answer[i] <= sum /\ sum < 128 * (answer[i] + 1)
  <2> DEFINE c == pixels[i]  sum == (c[1] * weights[1] + c[2] * weights[2]) + c[3] * weights[3]
  <2>1. c \in [1..3 -> 0..255]
    OBVIOUS
  <2>2. answer[i] \in {GrayInLane(c, weights), GrayAlone(c, weights)}
    OBVIOUS
  <2> HIDE DEF c
  <2>3. /\ GrayInLane(c, weights) = sum \div 128 /\ GrayAlone(c, weights) = sum \div 128
        /\ 128 * (sum \div 128) <= sum /\ sum < 128 * ((sum \div 128) + 1)
    BY <2>1, GrayIs
  <2> HIDE DEF sum
  <2>4. answer[i] = sum \div 128
    BY ONLY <2>2, <2>3
  <2>5. 128 * answer[i] <= sum /\ sum < 128 * (answer[i] + 1)
    BY ONLY <2>3, <2>4
  <2> QED
    BY <2>5 DEF sum, c
<1> QED
  BY <1>1, <1>2 DEF GrayAsDefined

-----------------------------------------------------------------------------
\* Equalisation.  A set that is counted in two parts.
LEMMA CountsJoin ==
    ASSUME NEW A, NEW B, IsFiniteSet(A), IsFiniteSet(B), A \cap B = {}, NEW U, U = A \cup B
    PROVE  Cardinality(U) = Cardinality(A) + Cardinality(B)
<1>0. Cardinality(A) \in Nat /\ Cardinality(B) \in Nat
  BY FS_CardinalityType
<1>1. Cardinality(A \cup B) = Cardinality(A) + Cardinality(B) - Cardinality(A \cap B)
  BY FS_Union, Zenon
<1>2. Cardinality(A \cap B) = 0
  BY FS_EmptySet
<1> QED
  BY <1>0, <1>1, <1>2

LEMMA SmallestExists ==
    ASSUME NEW T, T \subseteq Nat, T # {}
    PROVE  Min(T) \in T /\ \A y \in T : Min(T) <= y
<1>1. PICK x \in T : \A y \in T : x <= y
  BY LeastOne
<1> QED
  BY <1>1 DEF Min

\* Half of the divisor more is rounded to the nearest.
LEMMA HalfUp ==
    ASSUME NEW d \in Nat \ {0}, NEW a \in Nat, NEW q, q = (2 * a + d) \div (2 * d)
    PROVE  q \in Nat /\ 2 * (a - q * d) < d /\ 2 * (a - q * d) >= -d
<1> DEFINE o == 2 * a + d  m == 2 * d  r == o % m
<1>1. o \in Nat /\ m \in Nat \ {0}
  OBVIOUS
<1>0. q = o \div m
  OBVIOUS
<1> HIDE DEF o, m
<1>2. q \in Nat /\ r \in 0..m - 1 /\ o = m * q + r
  BY <1>0, <1>1
<1> HIDE DEF r
<1> DEFINE p == q * d
<1>3. p \in Int /\ m * q = 2 * p
  BY <1>2 DEF m
<1> HIDE DEF p
<1>4. 2 * a + d = 2 * p + r /\ r \in 0..2 * d - 1
  BY <1>2, <1>3 DEF o, m
<1>5. 2 * (a - p) < d /\ 2 * (a - p) >= -d
  BY ONLY <1>3, <1>4, d \in Nat \ {0}, a \in Nat
<1> QED
  BY ONLY <1>2, <1>5 DEF p

LEMMA EqualizeIs ==
    ASSUME NEW data \in Seq(0..255), NEW answer, answer = [i \in DOMAIN data |-> Tone(data, data[i])]
    PROVE  RankAsDefined(data, answer)
<1> DEFINE D == DOMAIN data  T == {data[i] : i \in D}  darkest == Min(T)
     above == {i \in D : data[i] > darkest}
     upTo(i) == Cardinality({j \in above : data[j] <= data[i]})
     twice(i) == 2 * (255 * upTo(i) - answer[i] * Cardinality(above))
<1>1. IsFiniteSet(D) /\ \A i \in D : data[i] \in Nat
  <2> DEFINE V == 0..255
  <2>0. V \subseteq Nat /\ data \in Seq(V)
    OBVIOUS
  <2> HIDE DEF V
  <2>1. D = 1..Len(data) /\ Len(data) \in Nat /\ \A i \in 1..Len(data) : data[i] \in Nat
    <3>1. DOMAIN data = 1..Len(data) /\ Len(data) \in Nat
      BY ONLY <2>0, LenProperties
    <3>2. \A i \in 1..Len(data) : data[i] \in V
      BY ONLY <2>0, ElementOfSeq
    <3> QED
      BY ONLY <2>0, <3>1, <3>2 DEF D
  <2>2. IsFiniteSet(1..Len(data))
    BY <2>1, FS_Interval
  <2> HIDE DEF D
  <2> QED
    BY ONLY <2>1, <2>2
<1> HIDE DEF D
<1>2. ASSUME NEW i \in D
      PROVE  IF above = {} THEN answer[i] = 0
             ELSE twice(i) < Cardinality(above) /\ twice(i) >= -Cardinality(above)
  <2> DEFINE A == {j \in D : data[j] <= darkest}  B == {j \in above : data[j] <= data[i]}
       C == {j \in D : data[j] <= data[i]}  d == Cardinality(above)  u == Cardinality(B)
  <2>1. darkest \in Nat /\ \A j \in D : darkest <= data[j]
    <3>1. T \subseteq Nat /\ T # {}
      BY <1>1
    <3>2. Min(T) \in T /\ \A y \in T : Min(T) <= y
      <4> HIDE DEF T
      <4> QED
        BY ONLY <3>1, SmallestExists
    <3> QED
      BY <1>1, <3>2
  <2> HIDE DEF darkest
  <2>2. IsFiniteSet(A) /\ IsFiniteSet(B) /\ IsFiniteSet(above)
    BY <1>1, FS_Subset
  <2>3. D = A \cup above /\ A \cap above = {}
    BY <1>1, <2>1
  <2>4. C = A \cup B /\ A \cap B = {}
    BY <1>1, <2>1
  <2>5. UpToTone(data, darkest) = Cardinality(A) /\ UpToTone(data, data[i]) = Cardinality(C)
    BY DEF UpToTone, D
  <2>6. answer[i] = Tone(data, data[i])
    BY DEF D
  <2>7. (above = {} <=> d = 0) /\ d \in Nat /\ u \in Nat /\ Cardinality(A) \in Nat
    BY <2>2, FS_EmptySet, FS_CardinalityType
  <2> HIDE DEF A, B, C, above
  <2>8. Cardinality(D) = Cardinality(A) + d /\ Cardinality(C) = Cardinality(A) + u
    BY <2>2, <2>3, <2>4, CountsJoin
  <2>9. Denom(data) = Cardinality(D) - UpToTone(data, darkest)
    BY DEF Denom, darkest, D
  <2>10. Tone(data, data[i]) =
             IF Denom(data) = 0 THEN 0
             ELSE (2 * 255 * (UpToTone(data, data[i]) - UpToTone(data, darkest)) + Denom(data)) \div (2 * Denom(data))
    BY DEF Tone, darkest, D
  <2>11. Denom(data) = d /\ UpToTone(data, data[i]) - UpToTone(data, darkest) = u
    BY <2>5, <2>7, <2>8, <2>9
  <2> DEFINE q == answer[i]
  <2> HIDE DEF d, u, q
  <2>12. q = IF d = 0 THEN 0 ELSE (2 * 255 * u + d) \div (2 * d)
    BY <2>6, <2>10, <2>11 DEF q
  <2>13. CASE d = 0
    BY <2>7, <2>12, <2>13 DEF q
  <2>14. CASE d # 0
    <3> DEFINE a == 255 * u
    <3>1. a \in Nat /\ d \in Nat \ {0} /\ 2 * a = 2 * 255 * u
      BY <2>7, <2>14
    <3> HIDE DEF a
    <3>2. q = (2 * a + d) \div (2 * d)
      BY <2>12, <2>14, <3>1
    <3>3. 2 * (a - q * d) < d /\ 2 * (a - q * d) >= -d
      BY ONLY <3>1, <3>2, HalfUp
    <3> QED
      BY <2>7, <2>14, <3>3 DEF a, d, u, q, B
  <2> QED
    BY <2>13, <2>14
<1>3. \A i \in D : IF above = {} THEN answer[i] = 0
                   ELSE twice(i) < Cardinality(above) /\ twice(i) >= -Cardinality(above)
  <2> HIDE DEF above, twice
  <2> QED
    BY <1>2
<1> QED
  BY <1>3 DEF RankAsDefined, D

-----------------------------------------------------------------------------
\* The pixels of a rectangle.
Rect(x0, x1, y0, y1) == (x0..x1 - 1) \X (y0..y1 - 1)

LEMMA RectsAreFinite ==
    ASSUME NEW x0 \in Int, NEW x1 \in Int, NEW y0 \in Int, NEW y1 \in Int
    PROVE  IsFiniteSet(Rect(x0, x1, y0, y1))
<1>1. x1 - 1 \in Int /\ y1 - 1 \in Int
  OBVIOUS
<1>2. IsFiniteSet(x0..x1 - 1) /\ IsFiniteSet(y0..y1 - 1)
  BY <1>1, FS_Interval
<1> QED
  BY <1>2, FS_Product DEF Rect

\* What an integral image has in each place.
Plane(pad) == Rect(0, pad, 0, pad)

\* The recursions of ph_mh_block_sums().
RowsAdd(f, padded, pad) ==
    f = [p \in (0..pad) \X (0..pad - 1) |->
            IF p[1] = 0 THEN 0 ELSE f[<<p[1] - 1, p[2]>>] + padded[<<p[1] - 1, p[2]>>]]
ColumnsAdd(g, f, pad) ==
    g = [p \in (0..pad) \X (0..pad) |->
            IF p[1] = 0 \/ p[2] = 0 THEN 0 ELSE g[<<p[1], p[2] - 1>>] + f[<<p[1], p[2] - 1>>]]

RowsAre(f, padded, pad) ==
    \A x \in 0..pad, y \in 0..pad - 1 : f[<<x, y>>] = Sums(padded)[Rect(0, x, y, y + 1)]

IntegralOf(g, padded, pad) ==
    \A x \in 0..pad, y \in 0..pad : g[<<x, y>>] = Sums(padded)[Rect(0, x, 0, y)]

AreJoined(padded, t, u) ==
    /\ Sums(padded)[t \cup u] = Sums(padded)[t] + Sums(padded)[u]
    /\ Sums(padded)[t] \in Int /\ Sums(padded)[u] \in Int

IsJoined(padded, t, p) == Sums(padded)[t \cup {p}] = Sums(padded)[t] + padded[p]

LEMMA PixelJoins ==
    ASSUME NEW pad \in Nat, NEW padded \in [Plane(pad) -> Int],
           NEW t \in SUBSET Plane(pad), NEW p \in Plane(pad), p \notin t
    PROVE  IsJoined(padded, t, p)
<1>1. Summable(padded, Plane(pad))
  BY RectsAreFinite DEF Summable, Plane
<1> DEFINE S == Plane(pad)
<1>2. Summable(padded, S) /\ t \in SUBSET S /\ p \in S
  BY <1>1
<1> HIDE DEF S
<1>3. Sums(padded)[t \cup {p}] = Sums(padded)[t] + padded[p]
  BY ONLY <1>2, PutIn, p \notin t
<1> QED
  BY ONLY <1>3 DEF IsJoined

LEMMA RectsJoin ==
    ASSUME NEW pad \in Nat, NEW padded \in [Plane(pad) -> Int],
           NEW t \in SUBSET Plane(pad), NEW u \in SUBSET Plane(pad), t \cap u = {}
    PROVE  AreJoined(padded, t, u)
<1>1. Summable(padded, Plane(pad))
  BY RectsAreFinite DEF Summable, Plane
<1> DEFINE S == Plane(pad)
<1>2. Summable(padded, S) /\ t \in SUBSET S /\ u \in SUBSET S
  BY <1>1
<1> HIDE DEF S
<1>3. Sums(padded)[t \cup u] = Sums(padded)[t] + Sums(padded)[u]
  BY ONLY <1>2, SumsJoin, t \cap u = {}
<1>4. Sums(padded)[t] \in Int
  BY ONLY <1>2, SumIsInt
<1>5. Sums(padded)[u] \in Int
  BY ONLY <1>2, SumIsInt
<1> QED
  BY ONLY <1>3, <1>4, <1>5 DEF AreJoined

LEMMA RowSumsAre ==
    ASSUME NEW pad \in Nat, NEW padded \in [Plane(pad) -> Int], NEW f,
           RowsAdd(f, padded, pad)
    PROVE  RowsAre(f, padded, pad)
<1> SUFFICES ASSUME NEW y \in 0..pad - 1
             PROVE  \A x \in 0..pad : f[<<x, y>>] = Sums(padded)[Rect(0, x, y, y + 1)]
  BY DEF RowsAre
<1> DEFINE P == {x \in 0..pad : f[<<x, y>>] = Sums(padded)[Rect(0, x, y, y + 1)]}
<1>1. Summable(padded, Plane(pad))
  BY RectsAreFinite DEF Summable, Plane
<1>2. \A x \in 0..pad : f[<<x, y>>] = IF x = 0 THEN 0 ELSE f[<<x - 1, y>>] + padded[<<x - 1, y>>]
  BY DEF RowsAdd
<1>3. 0 \in P
  <2>1. Rect(0, 0, y, y + 1) = {}
    BY DEF Rect
  <2>2. Sums(padded)[{}] = 0
    BY <1>1, SumIsInt
  <2>3. 0 \in 0..pad /\ f[<<0, y>>] = 0
    <3>1. 0 \in 0..pad
      OBVIOUS
    <3> QED
      BY ONLY <1>2, <3>1
  <2> QED
    BY <2>1, <2>2, <2>3
<1>4. \A x \in Below(pad) : x \in P => x + 1 \in P
  <2> SUFFICES ASSUME NEW x \in Below(pad), x \in P PROVE x + 1 \in P
    OBVIOUS
  <2>1. x \in 0..pad - 1 /\ x + 1 \in 0..pad /\ x + 1 # 0 /\ (x + 1) - 1 = x
    BY DEF Below
  <2>2. f[<<x + 1, y>>] = f[<<x, y>>] + padded[<<x, y>>]
    BY <1>2, <2>1
  <2> DEFINE t == Rect(0, x, y, y + 1)  u == Rect(0, x + 1, y, y + 1)
  <2>3. t \in SUBSET Plane(pad) /\ <<x, y>> \in Plane(pad) /\ <<x, y>> \notin t /\ u = t \cup {<<x, y>>}
    <3>1. x \in Int /\ y \in Int /\ 0 <= x /\ x <= pad - 1 /\ 0 <= y /\ y <= pad - 1
      BY <2>1
    <3>2. t \in SUBSET Plane(pad) /\ <<x, y>> \in Plane(pad) /\ <<x, y>> \notin t
      BY ONLY <3>1, pad \in Nat DEF Rect, Plane
    <3>3. 0..(x + 1) - 1 = (0..x - 1) \cup {x} /\ y..(y + 1) - 1 = {y}
      BY ONLY <3>1
    <3>4. u = t \cup {<<x, y>>}
      BY ONLY <3>3 DEF Rect
    <3> QED
      BY ONLY <3>2, <3>4
  <2> HIDE DEF t, u
  <2>4. Sums(padded)[t \cup {<<x, y>>}] = Sums(padded)[t] + padded[<<x, y>>]
    <3>1. IsJoined(padded, t, <<x, y>>)
      BY ONLY <2>3, PixelJoins, pad \in Nat, padded \in [Plane(pad) -> Int]
    <3> QED
      BY ONLY <3>1 DEF IsJoined
  <2>5. f[<<x, y>>] = Sums(padded)[t]
    BY DEF t
  <2> QED
    BY <2>1, <2>2, <2>3, <2>4, <2>5 DEF u
<1> HIDE DEF P
<1>5. \A x \in 0..pad : x \in P
  BY ONLY <1>3, <1>4, pad \in Nat, OneByOne
<1> QED
  BY <1>5 DEF P

LEMMA RowSumsExist ==
    ASSUME NEW pad \in Nat, NEW padded \in [Plane(pad) -> Int]
    PROVE  \E f : RowsAdd(f, padded, pad)
<1> DEFINE D == (0..pad) \X (0..pad - 1)
     f == [p \in D |-> Sums(padded)[Rect(0, p[1], p[2], p[2] + 1)]]
     e(p) == IF p[1] = 0 THEN 0 ELSE f[<<p[1] - 1, p[2]>>] + padded[<<p[1] - 1, p[2]>>]
<1>1. Summable(padded, Plane(pad))
  BY RectsAreFinite DEF Summable, Plane
<1>2. ASSUME NEW p \in D PROVE f[p] = e(p)
  <2> DEFINE x == p[1]  y == p[2]
  <2>1. x \in 0..pad /\ y \in 0..pad - 1
    OBVIOUS
  <2>2. f[p] = Sums(padded)[Rect(0, x, y, y + 1)]
    OBVIOUS
  <2>3. CASE x = 0
    <3>1. Rect(0, x, y, y + 1) = {}
      BY <2>1, <2>3 DEF Rect
    <3>2. Sums(padded)[{}] = 0
      BY <1>1, SumIsInt
    <3> QED
      BY <2>2, <2>3, <3>1, <3>2
  <2>4. CASE x # 0
    <3> DEFINE t == Rect(0, x - 1, y, y + 1)  u == Rect(0, x, y, y + 1)
    <3>1. f[<<x - 1, y>>] = Sums(padded)[t]
      <4>1. x - 1 \in 0..pad
        BY <2>1, <2>4
      <4> HIDE DEF x, y
      <4> QED
        BY <2>1, <4>1
    <3> HIDE DEF x, y, f
    <3>2. t \in SUBSET Plane(pad) /\ <<x - 1, y>> \in Plane(pad) /\ <<x - 1, y>> \notin t /\ u = t \cup {<<x - 1, y>>}
      BY <2>1, <2>4 DEF Rect, Plane
    <3> HIDE DEF t, u
    <3>3. Sums(padded)[t \cup {<<x - 1, y>>}] = Sums(padded)[t] + padded[<<x - 1, y>>]
      <4>1. IsJoined(padded, t, <<x - 1, y>>)
        BY ONLY <3>2, PixelJoins, pad \in Nat, padded \in [Plane(pad) -> Int]
      <4> QED
        BY ONLY <4>1 DEF IsJoined
    <3>4. f[p] = f[<<x - 1, y>>] + padded[<<x - 1, y>>]
      BY <2>2, <3>1, <3>2, <3>3 DEF u
    <3> QED
      BY <2>4, <3>4 DEF x, y
  <2> QED
    BY <2>3, <2>4
<1>3. f = [p \in D |-> f[p]]
  OBVIOUS
<1> HIDE DEF f
<1>4. f = [p \in D |-> e(p)]
  BY ONLY <1>2, <1>3
<1> QED
  BY <1>4 DEF RowsAdd

LEMMA IntegralSumsAre ==
    ASSUME NEW pad \in Nat, NEW padded \in [Plane(pad) -> Int], NEW f, NEW g,
           RowsAre(f, padded, pad),
           ColumnsAdd(g, f, pad)
    PROVE  IntegralOf(g, padded, pad)
<1> SUFFICES ASSUME NEW x \in 0..pad
             PROVE  \A y \in 0..pad : g[<<x, y>>] = Sums(padded)[Rect(0, x, 0, y)]
  BY DEF IntegralOf
<1> DEFINE P == {y \in 0..pad : g[<<x, y>>] = Sums(padded)[Rect(0, x, 0, y)]}
<1>1. Summable(padded, Plane(pad))
  BY RectsAreFinite DEF Summable, Plane
<1>2. \A y \in 0..pad : g[<<x, y>>] = IF x = 0 \/ y = 0 THEN 0 ELSE g[<<x, y - 1>>] + f[<<x, y - 1>>]
  BY DEF ColumnsAdd
<1>3. 0 \in P
  <2>1. Rect(0, x, 0, 0) = {}
    BY DEF Rect
  <2>2. Sums(padded)[{}] = 0
    BY <1>1, SumIsInt
  <2>3. 0 \in 0..pad /\ g[<<x, 0>>] = 0
    <3>1. 0 \in 0..pad
      OBVIOUS
    <3> QED
      BY ONLY <1>2, <3>1
  <2> QED
    BY <2>1, <2>2, <2>3
<1>4. \A y \in Below(pad) : y \in P => y + 1 \in P
  <2> SUFFICES ASSUME NEW y \in Below(pad), y \in P PROVE y + 1 \in P
    OBVIOUS
  <2>1. y \in 0..pad - 1 /\ y + 1 \in 0..pad /\ y + 1 # 0 /\ (y + 1) - 1 = y
    BY DEF Below
  <2> DEFINE t == Rect(0, x, 0, y)  u == Rect(0, x, y, y + 1)  v == Rect(0, x, 0, y + 1)
  <2>2. g[<<x, y>>] = Sums(padded)[t]
    OBVIOUS
  <2>3. CASE x = 0
    <3>1. v = {}
      BY <2>3 DEF Rect
    <3>2. Sums(padded)[{}] = 0
      BY <1>1, SumIsInt
    <3>3. g[<<x, y + 1>>] = 0
      BY <1>2, <2>1, <2>3
    <3> HIDE DEF t, u, v
    <3> QED
      BY <2>1, <3>1, <3>2, <3>3 DEF v
  <2>4. CASE x # 0
    <3>1. g[<<x, y + 1>>] = g[<<x, y>>] + f[<<x, y>>]
      BY <1>2, <2>1, <2>4
    <3>2. f[<<x, y>>] = Sums(padded)[u]
      BY <2>1 DEF RowsAre
    <3>3. t \in SUBSET Plane(pad) /\ u \in SUBSET Plane(pad) /\ t \cap u = {}
      <4>1. x \in Int /\ y \in Int /\ 0 <= x /\ x <= pad /\ 0 <= y /\ y <= pad - 1
        BY <2>1
      <4> QED
        BY ONLY <4>1, pad \in Nat DEF Rect, Plane
    <3>4. v = t \cup u
      <4>1. 0..(y + 1) - 1 = (0..y - 1) \cup (y..(y + 1) - 1)
        BY <2>1
      <4> QED
        BY ONLY <4>1 DEF Rect
    <3> HIDE DEF t, u, v
    <3>5. Sums(padded)[t \cup u] = Sums(padded)[t] + Sums(padded)[u]
      <4>1. AreJoined(padded, t, u)
        BY ONLY <3>3, RectsJoin, pad \in Nat, padded \in [Plane(pad) -> Int]
      <4> QED
        BY ONLY <4>1 DEF AreJoined
    <3>6. g[<<x, y + 1>>] = Sums(padded)[v]
      BY ONLY <2>2, <3>1, <3>2, <3>4, <3>5
    <3> QED
      BY <2>1, <3>6 DEF v
  <2> QED
    BY <2>3, <2>4
<1> HIDE DEF P
<1>5. \A y \in 0..pad : y \in P
  BY ONLY <1>3, <1>4, pad \in Nat, OneByOne
<1> QED
  BY <1>5 DEF P

LEMMA IntegralSumsExist ==
    ASSUME NEW pad \in Nat, NEW padded \in [Plane(pad) -> Int], NEW f,
           RowsAre(f, padded, pad)
    PROVE  \E g : ColumnsAdd(g, f, pad)
<1> DEFINE D == (0..pad) \X (0..pad)
     g == [p \in D |-> Sums(padded)[Rect(0, p[1], 0, p[2])]]
     e(p) == IF p[1] = 0 \/ p[2] = 0 THEN 0 ELSE g[<<p[1], p[2] - 1>>] + f[<<p[1], p[2] - 1>>]
<1>1. Summable(padded, Plane(pad))
  BY RectsAreFinite DEF Summable, Plane
<1>2. ASSUME NEW p \in D PROVE g[p] = e(p)
  <2> DEFINE x == p[1]  y == p[2]
  <2>1. x \in 0..pad /\ y \in 0..pad
    OBVIOUS
  <2>2. g[p] = Sums(padded)[Rect(0, x, 0, y)]
    OBVIOUS
  <2>3. CASE x = 0 \/ y = 0
    <3>1. Rect(0, x, 0, y) = {}
      BY <2>1, <2>3 DEF Rect
    <3>2. Sums(padded)[{}] = 0
      BY <1>1, SumIsInt
    <3> QED
      BY <2>2, <2>3, <3>1, <3>2
  <2>4. CASE ~(x = 0 \/ y = 0)
    <3> DEFINE t == Rect(0, x, 0, y - 1)  u == Rect(0, x, y - 1, y)  v == Rect(0, x, 0, y)
    <3>1. g[<<x, y - 1>>] = Sums(padded)[t]
      <4>1. y - 1 \in 0..pad
        BY <2>1, <2>4
      <4> HIDE DEF x, y
      <4> QED
        BY <2>1, <4>1
    <3> HIDE DEF x, y, g
    <3>2. f[<<x, y - 1>>] = Sums(padded)[u]
      <4>1. y - 1 \in 0..pad - 1 /\ (y - 1) + 1 = y
        BY <2>1, <2>4
      <4> QED
        BY <2>1, <4>1 DEF RowsAre
    <3>3. t \in SUBSET Plane(pad) /\ u \in SUBSET Plane(pad) /\ t \cap u = {}
      <4>1. x \in Int /\ y \in Int /\ 0 <= x /\ x <= pad /\ 1 <= y /\ y <= pad
        BY <2>1, <2>4
      <4> QED
        BY ONLY <4>1, pad \in Nat DEF Rect, Plane
    <3>4. v = t \cup u
      <4>1. 0..y - 1 = (0..(y - 1) - 1) \cup (y - 1..y - 1)
        BY <2>1, <2>4
      <4> QED
        BY ONLY <4>1 DEF Rect
    <3> HIDE DEF t, u, v
    <3>5. Sums(padded)[t \cup u] = Sums(padded)[t] + Sums(padded)[u]
      <4>1. AreJoined(padded, t, u)
        BY ONLY <3>3, RectsJoin, pad \in Nat, padded \in [Plane(pad) -> Int]
      <4> QED
        BY ONLY <4>1 DEF AreJoined
    <3>6. g[p] = g[<<x, y - 1>>] + f[<<x, y - 1>>]
      BY <2>2, <3>1, <3>2, <3>4, <3>5 DEF v
    <3> QED
      BY <2>4, <3>6 DEF x, y
  <2> QED
    BY <2>3, <2>4
<1>3. g = [p \in D |-> g[p]]
  OBVIOUS
<1> HIDE DEF g
<1>4. g = [p \in D |-> e(p)]
  BY ONLY <1>2, <1>3
<1> QED
  BY <1>4 DEF ColumnsAdd

LEMMA IntegralIs ==
    ASSUME NEW pad \in Nat, NEW padded \in [Plane(pad) -> Int]
    PROVE  IntegralOf(Integral(padded, pad), padded, pad)
<1> DEFINE rowSum == CHOOSE f : RowsAdd(f, padded, pad)  sums == CHOOSE g : ColumnsAdd(g, rowSum, pad)
<1>1. Integral(padded, pad) = sums
  BY DEF Integral, RowsAdd, ColumnsAdd
<1>2. RowsAdd(rowSum, padded, pad)
  BY RowSumsExist
<1> HIDE DEF rowSum
<1>3. RowsAre(rowSum, padded, pad)
  BY <1>2, RowSumsAre
<1>4. ColumnsAdd(sums, rowSum, pad)
  <2>1. \E g : ColumnsAdd(g, rowSum, pad)
    BY <1>3, IntegralSumsExist
  <2> QED
    BY <2>1
<1> HIDE DEF sums
<1>5. IntegralOf(sums, padded, pad)
  BY <1>3, <1>4, IntegralSumsAre
<1> QED
  BY <1>1, <1>5

\* The four lookups are the sum over the box.
LEMMA BoxIs ==
    ASSUME NEW pad \in Nat, NEW padded \in [Plane(pad) -> Int], NEW x \in Nat, NEW y \in Nat, NEW b \in Nat,
           x + b <= pad, y + b <= pad
    PROVE  Box(Integral(padded, pad), x, y, b) = Sums(padded)[Rect(x, x + b, y, y + b)]
<1> DEFINE t == Rect(0, x, 0, y)  r == Rect(x, x + b, 0, y)  l == Rect(0, x, y, y + b)  m == Rect(x, x + b, y, y + b)
     S(a) == Sums(padded)[a]
<1>1. Summable(padded, Plane(pad))
  BY RectsAreFinite DEF Summable, Plane
<1>2. t \in SUBSET Plane(pad) /\ r \in SUBSET Plane(pad) /\ l \in SUBSET Plane(pad) /\ m \in SUBSET Plane(pad)
  BY DEF Rect, Plane
<1>3. t \cap r = {} /\ t \cap l = {} /\ r \cap m = {} /\ (t \cup r) \cap (l \cup m) = {} /\ l \cap m = {}
  BY DEF Rect
<1>4. 0..(x + b) - 1 = (0..x - 1) \cup (x..(x + b) - 1) /\ 0..(y + b) - 1 = (0..y - 1) \cup (y..(y + b) - 1)
  BY SMT
<1>5. /\ Rect(0, x + b, 0, y) = t \cup r
      /\ Rect(0, x, 0, y + b) = t \cup l
      /\ Rect(0, x + b, 0, y + b) = (t \cup r) \cup (l \cup m)
  BY ONLY <1>4 DEF Rect
<1>6. /\ Integral(padded, pad)[<<x + b, y + b>>] = S(Rect(0, x + b, 0, y + b))
      /\ Integral(padded, pad)[<<x, y + b>>] = S(Rect(0, x, 0, y + b))
      /\ Integral(padded, pad)[<<x + b, y>>] = S(Rect(0, x + b, 0, y))
      /\ Integral(padded, pad)[<<x, y>>] = S(t)
  <2>1. x \in 0..pad /\ y \in 0..pad /\ x + b \in 0..pad /\ y + b \in 0..pad
    OBVIOUS
  <2>2. \A v \in 0..pad, w \in 0..pad : Integral(padded, pad)[<<v, w>>] = Sums(padded)[Rect(0, v, 0, w)]
    BY IntegralIs DEF IntegralOf
  <2> QED
    BY ONLY <2>1, <2>2
<1> HIDE DEF t, r, l, m
<1>7. AreJoined(padded, t, r)
  BY ONLY <1>2, <1>3, RectsJoin, pad \in Nat, padded \in [Plane(pad) -> Int]
<1>8. AreJoined(padded, t, l)
  BY ONLY <1>2, <1>3, RectsJoin, pad \in Nat, padded \in [Plane(pad) -> Int]
<1>9. AreJoined(padded, l, m)
  BY ONLY <1>2, <1>3, RectsJoin, pad \in Nat, padded \in [Plane(pad) -> Int]
<1>10. AreJoined(padded, t \cup r, l \cup m)
  <2>1. t \cup r \in SUBSET Plane(pad) /\ l \cup m \in SUBSET Plane(pad)
    BY <1>2
  <2> QED
    BY ONLY <1>3, <2>1, RectsJoin, pad \in Nat, padded \in [Plane(pad) -> Int]
<1>11. Box(Integral(padded, pad), x, y, b) =
           ((S((t \cup r) \cup (l \cup m)) - S(t \cup l)) - S(t \cup r)) + S(t)
  BY ONLY <1>5, <1>6 DEF Box
<1>12. ((S((t \cup r) \cup (l \cup m)) - S(t \cup l)) - S(t \cup r)) + S(t) = S(m)
  BY ONLY <1>7, <1>8, <1>9, <1>10 DEF AreJoined
<1> QED
  BY ONLY <1>11, <1>12 DEF S, m

\* The pixels of a block, each moved by a tap.
LEMMA BlockFits ==
    ASSUME NEW n \in Nat \ {0}, NEW half \in Nat, NEW b \in 0..Blocks - 1, NEW k \in 0..2 * half, NEW block,
           block = n \div Blocks
    PROVE  /\ block \in Nat /\ b * block \in Nat /\ (b + 1) * block = b * block + block
           /\ (b * block + k) + block <= n + 2 * half
<1>1. block \in Nat /\ Blocks \in Nat \ {0}
  BY FiltersAssumption
<1>2. block * Blocks <= n
  BY <1>1, QuotientBound
<1>3. b \in Nat /\ b + 1 \in Nat /\ b + 1 <= Blocks
  BY <1>1
<1>4. (b + 1) * block <= Blocks * block
  BY ONLY <1>1, <1>3, Product
<1>5. b * block \in Nat /\ (b + 1) * block = b * block + block /\ Blocks * block = block * Blocks
      /\ Blocks * block \in Int
  BY ONLY <1>1, <1>3
<1> DEFINE p == b * block  q == (b + 1) * block  r == Blocks * block  s == block * Blocks
<1>6. r \in Int /\ p \in Nat /\ q = p + block /\ r = s /\ s <= n /\ q <= r
  BY ONLY <1>2, <1>4, <1>5
<1> HIDE DEF p, q, r, s
<1>7. (p + k) + block <= n + 2 * half
  BY ONLY <1>1, <1>6, n \in Nat \ {0}, half \in Nat, k \in 0..2 * half
<1> QED
  BY ONLY <1>1, <1>5, <1>7 DEF p

LEMMA PaddedIs ==
    ASSUME NEW n \in Nat \ {0}, NEW half \in Nat, NEW image \in [(0..n - 1) \X (0..n - 1) -> Int],
           NEW x \in 0..(n + 2 * half) - 1, NEW y \in 0..(n + 2 * half) - 1
    PROVE  /\ Padded(image, n, half)[<<x, y>>] = image[<<Nearest(x - half, n), Nearest(y - half, n)>>]
           /\ Padded(image, n, half)[<<x, y>>] \in Int
<1>1. x - half \in Int /\ y - half \in Int
  OBVIOUS
<1>2. Nearest(x - half, n) = Clamp(x - half, n) /\ Clamp(x - half, n) \in 0..n - 1
  BY ONLY <1>1, NearestIsClamp, n \in Nat \ {0}
<1>3. Nearest(y - half, n) = Clamp(y - half, n) /\ Clamp(y - half, n) \in 0..n - 1
  BY ONLY <1>1, NearestIsClamp, n \in Nat \ {0}
<1>4. Padded(image, n, half)[<<x, y>>] = image[<<Clamp(x - half, n), Clamp(y - half, n)>>]
  BY DEF Padded
<1> QED
  BY <1>2, <1>3, <1>4

\* The sum over a rectangle is the sum over the same rectangle elsewhere of what it is moved to.
MovedBy(h, padded, x, y, b, k1, k2) ==
    h = [p \in Rect(x, x + b, y, y + b) |-> padded[<<p[1] + k1, p[2] + k2>>]]

SumMovedBy(h, padded, x, y, b, k1, k2) ==
    /\ Summable(h, Rect(x, x + b, y, y + b))
    /\ Sums(h)[Rect(x, x + b, y, y + b)] =
           Sums(padded)[Rect(x + k1, (x + k1) + b, y + k2, (y + k2) + b)]

LEMMA RectMoved ==
    ASSUME NEW pad \in Nat, NEW padded \in [Plane(pad) -> Int], NEW x \in Nat, NEW y \in Nat, NEW b \in Nat,
           NEW k1 \in Nat, NEW k2 \in Nat, (x + k1) + b <= pad, (y + k2) + b <= pad, NEW h,
           MovedBy(h, padded, x, y, b, k1, k2)
    PROVE  SumMovedBy(h, padded, x, y, b, k1, k2)
<1> DEFINE R == Rect(x, x + b, y, y + b)  S == Plane(pad)  U == Rect(x + k1, (x + k1) + b, y + k2, (y + k2) + b)
     turn == [p \in R |-> <<p[1] + k1, p[2] + k2>>]
<1>0. h = [p \in R |-> padded[<<p[1] + k1, p[2] + k2>>]]
  BY DEF MovedBy
<1>1. IsFiniteSet(R) /\ IsFiniteSet(S)
  BY RectsAreFinite DEF Plane
<1>2. \A p \in R : turn[p] \in S /\ turn[p] = <<p[1] + k1, p[2] + k2>>
  BY DEF Rect, Plane
<1>3. turn \in [R -> S]
  BY <1>2
<1>4. \A p, q \in R : turn[p] = turn[q] => p = q
  BY DEF Rect
<1>5. U = {turn[p] : p \in R}
  <2>1. ASSUME NEW q \in U PROVE q \in {turn[p] : p \in R}
    <3>1. <<q[1] - k1, q[2] - k2>> \in R
      BY DEF Rect
    <3>2. turn[<<q[1] - k1, q[2] - k2>>] = q
      BY <3>1 DEF Rect
    <3> QED
      BY <3>1, <3>2
  <2>2. ASSUME NEW p \in R PROVE turn[p] \in U
    BY DEF Rect
  <2> QED
    BY <2>1, <2>2
<1>6. h \in [R -> Int] /\ \A p \in R : h[p] = padded[turn[p]]
  <2>1. \A p \in R : h[p] = padded[turn[p]]
    BY <1>0, <1>2
  <2>2. \A p \in R : padded[turn[p]] \in Int
    BY <1>2
  <2> QED
    BY <1>0, <2>1, <2>2
<1> HIDE DEF R, S, U, turn
<1>7. Carries(turn, R, S, padded, h)
  BY <1>1, <1>3, <1>4, <1>6 DEF Carries, S
<1>8. Sums(h)[R] = Sums(padded)[{turn[p] : p \in R}]
  <2>1. R \in SUBSET R
    OBVIOUS
  <2> QED
    BY ONLY <1>7, <2>1, Carried
<1> QED
  BY <1>1, <1>5, <1>6, <1>8 DEF Summable, R, U, SumMovedBy

TapIs(image, n, half, b1, b2, k1, k2, block) ==
    Box(Integral(Padded(image, n, half), n + 2 * half), b1 * block + k1, b2 * block + k2, block) =
        MovedSum(image, n, block, <<b1, b2>>, <<k1 - half, k2 - half>>)

LEMMA BlockSumIs ==
    ASSUME NEW n \in Nat \ {0}, NEW half \in Nat, NEW image \in [(0..n - 1) \X (0..n - 1) -> Int],
           NEW b1 \in 0..Blocks - 1, NEW b2 \in 0..Blocks - 1, NEW k1 \in 0..2 * half, NEW k2 \in 0..2 * half,
           NEW block, block = n \div Blocks
    PROVE  TapIs(image, n, half, b1, b2, k1, k2, block)
<1> DEFINE wide == n + 2 * half  grid == Padded(image, n, half)  left == b1 * block  top == b2 * block
     R == Rect(left, left + block, top, top + block)
     term(p) == image[<<Nearest(p[1] + (k1 - half), n), Nearest(p[2] + (k2 - half), n)>>]
     moved == [p \in R |-> grid[<<p[1] + k1, p[2] + k2>>]]
     Folds(g) == g = [s \in SUBSET R |-> IF s = {} THEN 0 ELSE term(Chosen(s)) + g[s \ {Chosen(s)}]]
<1>1. /\ block \in Nat /\ left \in Nat /\ top \in Nat
      /\ (b1 + 1) * block = left + block /\ (b2 + 1) * block = top + block
      /\ (left + k1) + block <= wide /\ (top + k2) + block <= wide
  <2>1. /\ block \in Nat /\ left \in Nat /\ (b1 + 1) * block = left + block
        /\ (left + k1) + block <= n + 2 * half
    BY BlockFits
  <2>2. /\ top \in Nat /\ (b2 + 1) * block = top + block
        /\ (top + k2) + block <= n + 2 * half
    BY BlockFits
  <2> QED
    BY ONLY <2>1, <2>2
<1>2. wide \in Nat /\ k1 \in Nat /\ k2 \in Nat
  OBVIOUS
<1>3. grid \in [Plane(wide) -> Int]
  <2>1. Plane(wide) = (0..wide - 1) \X (0..wide - 1)
    BY DEF Plane, Rect
  <2>2. \A p \in Plane(wide) : grid[p] \in Int
    <3> SUFFICES ASSUME NEW v \in 0..wide - 1, NEW w \in 0..wide - 1 PROVE grid[<<v, w>>] \in Int
      BY <2>1
    <3> QED
      BY PaddedIs
  <2>3. grid = [p \in Plane(wide) |-> grid[p]]
    BY <2>1 DEF Padded
  <2> HIDE DEF grid
  <2> QED
    BY <2>2, <2>3
<1>4. \A p \in R : moved[p] = term(p)
  <2> SUFFICES ASSUME NEW p \in R PROVE moved[p] = term(p)
    OBVIOUS
  <2>1. moved[p] = grid[<<p[1] + k1, p[2] + k2>>]
    OBVIOUS
  <2> DEFINE v == p[1]  w == p[2]
  <2>2. v \in left..(left + block) - 1 /\ w \in top..(top + block) - 1
    BY DEF Rect
  <2> HIDE DEF v, w, left, top
  <2>3. /\ v + k1 \in 0..wide - 1 /\ w + k2 \in 0..wide - 1
        /\ (v + k1) - half = v + (k1 - half) /\ (w + k2) - half = w + (k2 - half)
    BY <1>1, <2>2
  <2>4. grid[<<v + k1, w + k2>>] = image[<<Nearest((v + k1) - half, n), Nearest((w + k2) - half, n)>>]
    BY <2>3, PaddedIs
  <2> HIDE DEF grid, moved
  <2> QED
    BY <2>1, <2>3, <2>4 DEF v, w
<1>5. MovedSum(image, n, block, <<b1, b2>>, <<k1 - half, k2 - half>>) = (CHOOSE g : Folds(g))[R]
  <2>1. R = (b1 * block..(b1 + 1) * block - 1) \X (b2 * block..(b2 + 1) * block - 1)
    BY <1>1 DEF Rect
  <2> HIDE DEF R
  <2> QED
    BY <2>1 DEF MovedSum, MapThenSumSet, MapThenFoldSet, Chosen
<1>14. MovedBy(moved, grid, left, top, block, k1, k2)
  BY DEF MovedBy
<1> HIDE DEF left, top, wide, grid
<1>6. /\ Summable(moved, R)
      /\ Sums(moved)[R] = Sums(grid)[Rect(left + k1, (left + k1) + block, top + k2, (top + k2) + block)]
  <2> HIDE DEF moved
  <2>1. SumMovedBy(moved, grid, left, top, block, k1, k2)
    BY ONLY <1>1, <1>2, <1>3, <1>14, RectMoved
  <2> QED
    BY ONLY <2>1 DEF SumMovedBy, R
<1>7. Box(Integral(grid, wide), left + k1, top + k2, block) =
          Sums(grid)[Rect(left + k1, (left + k1) + block, top + k2, (top + k2) + block)]
  <2>1. left + k1 \in Nat /\ top + k2 \in Nat
    BY <1>1, <1>2
  <2> QED
    BY ONLY <1>1, <1>2, <1>3, <2>1, BoxIs
<1>8. DOMAIN moved = R /\ \A s \in SUBSET R : s # {} => moved[Chosen(s)] = term(Chosen(s))
  <2>1. DOMAIN moved = R
    OBVIOUS
  <2> HIDE DEF moved, R, term
  <2> QED
    BY <1>4, <2>1, ChosenIsIn
<1> HIDE DEF moved, R, term
<1>9. \A g : Folds(g) <=> AddsUp(moved, g)
  BY <1>8 DEF AddsUp
<1>10. Folds(Sums(moved))
  BY <1>6, <1>9, SumsAddUp
<1> HIDE DEF Folds
<1>11. Folds(CHOOSE g : Folds(g))
  BY <1>10
<1>12. (CHOOSE g : Folds(g)) = Sums(moved)
  BY <1>6, <1>9, <1>11, SumsAreOne
<1>13. Box(Integral(grid, wide), left + k1, top + k2, block) = MovedSum(image, n, block, <<b1, b2>>, <<k1 - half, k2 - half>>)
  BY ONLY <1>5, <1>6, <1>7, <1>12
<1> QED
  BY ONLY <1>13 DEF left, top, wide, grid, TapIs

LEMMA BlocksAre ==
    ASSUME NEW n \in Nat \ {0}, NEW side \in Nat, side % 2 = 1,
           NEW image \in [(0..n - 1) \X (0..n - 1) -> Int], NEW given, NEW answer,
           given = [image |-> image, n |-> n, side |-> side], answer = BlockSums(image, n, side)
    PROVE  BlocksAsDefined(given, answer)
<1> DEFINE reach == side \div 2  size == n \div Blocks
     sums == Integral(Padded(image, n, reach), n + 2 * reach)
<1>1. reach \in Nat /\ side = 2 * reach + 1
  OBVIOUS
<1> HIDE DEF reach
<1>2. given.image = image /\ given.n = n /\ given.side = side
  OBVIOUS
<1>3. answer = [b \in (0..Blocks - 1) \X (0..Blocks - 1) |->
                   [k \in (0..side - 1) \X (0..side - 1) |->
                       Box(sums, b[1] * size + k[1], b[2] * size + k[2], size)]]
  BY DEF BlockSums, reach
<1> HIDE DEF sums
<1>4. ASSUME NEW b \in DOMAIN answer, NEW k \in DOMAIN answer[b]
      PROVE  answer[b][k] = MovedSum(image, n, size, b, <<k[1] - reach, k[2] - reach>>)
  <2>1. b \in (0..Blocks - 1) \X (0..Blocks - 1)
    BY <1>3
  <2>2. answer[b] = [l \in (0..side - 1) \X (0..side - 1) |->
                       Box(sums, b[1] * size + l[1], b[2] * size + l[2], size)]
    BY <1>3, <2>1
  <2>3. k \in (0..side - 1) \X (0..side - 1)
    BY <2>2
  <2>4. answer[b][k] = Box(sums, b[1] * size + k[1], b[2] * size + k[2], size)
    BY <2>2, <2>3
  <2> DEFINE bx == b[1]  by == b[2]  kx == k[1]  ky == k[2]
  <2>5. bx \in 0..Blocks - 1 /\ by \in 0..Blocks - 1 /\ b = <<bx, by>>
    BY <2>1
  <2>6. kx \in 0..2 * reach /\ ky \in 0..2 * reach
    BY <1>1, <2>3
  <2> HIDE DEF bx, by, kx, ky, size
  <2>7. size = n \div Blocks
    BY DEF size
  <2>8. Box(sums, bx * size + kx, by * size + ky, size) =
            MovedSum(image, n, size, <<bx, by>>, <<kx - reach, ky - reach>>)
    <3>1. n \in Nat \ {0} /\ reach \in Nat /\ image \in [(0..n - 1) \X (0..n - 1) -> Int]
      BY <1>1
    <3>2. TapIs(image, n, reach, bx, by, kx, ky, size)
      BY ONLY <2>5, <2>6, <2>7, <3>1, BlockSumIs
    <3> QED
      BY <3>2 DEF sums, TapIs
  <2> QED
    BY ONLY <2>4, <2>5, <2>8 DEF bx, by, kx, ky
<1>5. \A b \in DOMAIN answer : \A k \in DOMAIN answer[b] :
          answer[b][k] = MovedSum(given.image, given.n, given.n \div Blocks, b,
                                  <<k[1] - given.side \div 2, k[2] - given.side \div 2>>)
  <2> SUFFICES ASSUME NEW b \in DOMAIN answer, NEW k \in DOMAIN answer[b]
               PROVE  answer[b][k] = MovedSum(image, n, size, b, <<k[1] - reach, k[2] - reach>>)
    BY <1>2 DEF reach
  <2> QED
    BY <1>4
<1> QED
  BY <1>5 DEF BlocksAsDefined

-----------------------------------------------------------------------------
\* An image of any size blurred with any radius, any bytes equalised, the blocks of any square
\* image summed for a kernel with a middle, and any pixels turned gray.
FiltersNext ==
    \/ \E w \in Nat \ {0}, h \in Nat \ {0}, reach \in Int : Blur(w, h, reach)
    \/ \E data \in Seq(0..255) : Equalize(data)
    \/ \E n \in Nat \ {0}, side \in {s \in Nat : s % 2 = 1} :
          \E image \in [(0..n - 1) \X (0..n - 1) -> 0..255] : SumBlocks(image, n, side)
    \/ \E pixels \in Seq([1..3 -> 0..255]), weights \in Weighted, vectors \in BOOLEAN :
          ToGray(pixels, weights, vectors)
    \/ Forget

FiltersSpec == call = NoCall /\ [][FiltersNext]_call

\* What is computed in strips, from integral images, cumulative histograms and in vector lanes is
\* what the plain definitions give, in images of any size and for every radius and kernel.
THEOREM FiltersAlwaysAsDefined == FiltersSpec => []FiltersAsDefined
<1>1. call = NoCall => FiltersAsDefined
  BY DEF NoCall, FiltersAsDefined
<1>2. FiltersAsDefined /\ [FiltersNext]_call => FiltersAsDefined'
  <2> SUFFICES ASSUME FiltersAsDefined, [FiltersNext]_call PROVE FiltersAsDefined'
    OBVIOUS
  <2>1. ASSUME NEW w \in Nat \ {0}, NEW h \in Nat \ {0}, NEW reach \in Int, Blur(w, h, reach)
        PROVE  FiltersAsDefined'
    <3> DEFINE given == [w |-> w, h |-> h, radius |-> Radius(reach)]
               answer == [across |-> Across(w, Radius(reach)),
                          down   |-> [p \in (0..w - 1) \X (0..h - 1) |-> DownTaps(p[1], p[2], w, h, Radius(reach))]]
    <3>1. call' = [what |-> "blur", given |-> given, answer |-> answer]
      BY <2>1 DEF Blur, Answer
    <3>2. BlurAsDefined(given, answer)
      BY BlurIs
    <3> HIDE DEF given, answer
    <3>3. call'.what = "blur" /\ call'.given = given /\ call'.answer = answer
      BY <3>1
    <3> QED
      BY <3>2, <3>3 DEF FiltersAsDefined
  <2>2. ASSUME NEW data \in Seq(0..255), Equalize(data) PROVE FiltersAsDefined'
    <3> DEFINE answer == [i \in DOMAIN data |-> Tone(data, data[i])]
    <3>1. call' = [what |-> "equalize", given |-> data, answer |-> answer]
      BY <2>2 DEF Equalize, Answer
    <3>2. RankAsDefined(data, answer)
      BY EqualizeIs
    <3> HIDE DEF answer
    <3>3. call'.what = "equalize" /\ call'.given = data /\ call'.answer = answer
      BY <3>1
    <3> QED
      BY <3>2, <3>3 DEF FiltersAsDefined
  <2>3. ASSUME NEW n \in Nat \ {0}, NEW side \in {s \in Nat : s % 2 = 1},
               NEW image \in [(0..n - 1) \X (0..n - 1) -> 0..255], SumBlocks(image, n, side)
        PROVE  FiltersAsDefined'
    <3> DEFINE given == [image |-> image, n |-> n, side |-> side]  answer == BlockSums(image, n, side)
    <3>1. call' = [what |-> "blocks", given |-> given, answer |-> answer]
      BY <2>3 DEF SumBlocks, Answer
    <3>2. BlocksAsDefined(given, answer)
      <4>1. image \in [(0..n - 1) \X (0..n - 1) -> Int] /\ side \in Nat /\ side % 2 = 1
        OBVIOUS
      <4> QED
        BY <4>1, BlocksAre
    <3> HIDE DEF given, answer
    <3>3. call'.what = "blocks" /\ call'.given = given /\ call'.answer = answer
      BY <3>1
    <3> QED
      BY <3>2, <3>3 DEF FiltersAsDefined
  <2>4. ASSUME NEW pixels \in Seq([1..3 -> 0..255]), NEW weights \in Weighted, NEW vectors \in BOOLEAN,
               ToGray(pixels, weights, vectors)
        PROVE  FiltersAsDefined'
    <3> DEFINE given == [pixels |-> pixels, weights |-> weights]
               answer == [i \in DOMAIN pixels |-> IF i <= InVectors(Cardinality(DOMAIN pixels), vectors)
                                                  THEN GrayInLane(pixels[i], weights) ELSE GrayAlone(pixels[i], weights)]
    <3>1. call' = [what |-> "gray", given |-> given, answer |-> answer]
      BY <2>4 DEF ToGray, Answer
    <3>2. GrayAsDefined(given, answer)
      BY GrayOfAll
    <3> HIDE DEF given, answer
    <3>3. call'.what = "gray" /\ call'.given = given /\ call'.answer = answer
      BY <3>1
    <3> QED
      BY <3>2, <3>3 DEF FiltersAsDefined
  <2>5. CASE Forget
    BY <2>5 DEF Forget, NoCall, FiltersAsDefined
  <2>6. CASE UNCHANGED call
    BY <2>6 DEF FiltersAsDefined
  <2> QED
    BY <2>1, <2>2, <2>3, <2>4, <2>5, <2>6 DEF FiltersNext
<1> QED
  BY <1>1, <1>2, PTL DEF FiltersSpec

-----------------------------------------------------------------------------
\* AreaMean.
\* What two intervals have in common, the one of pixel i and the one of cell k.
Common(i, k, s, d) == Smaller(i * d + d, k * s + s) - Larger(i * d, k * s)
Positive(n) == IF n > 0 THEN n ELSE 0

LEMMA SharedIs ==
    ASSUME NEW s \in Nat \ {0}, NEW d \in Nat \ {0}, NEW i \in 0..s - 1, NEW k \in 0..d - 1
    PROVE  Shared(i, k, s, d) = Positive(Common(i, k, s, d)) /\ Shared(i, k, s, d) \in Nat
<1> DEFINE p == i * d  q == k * s  m == s * d
     lo == Larger(p, q)  hi == Smaller(p + d, q + s)
     U == {u \in 0..m - 1 : u \div d = i /\ u \div s = k}
<1>1. p \in Nat /\ q \in Nat /\ m \in Nat
  OBVIOUS
<1>2. p + d <= m
  <2>1. i + 1 \in Nat /\ i + 1 <= s
    OBVIOUS
  <2>2. (i + 1) * d <= s * d
    BY ONLY <2>1, Product, s \in Nat \ {0}, d \in Nat \ {0}
  <2>3. (i + 1) * d = i * d + d
    OBVIOUS
  <2> QED
    BY <2>2, <2>3
<1>3. \A u \in 0..m - 1 : u \div d = i <=> (p <= u /\ u < p + d)
  BY QuotientIs
<1>4. \A u \in 0..m - 1 : u \div s = k <=> (q <= u /\ u < q + s)
  BY QuotientIs
<1>5. Shared(i, k, s, d) = Cardinality(U)
  BY DEF Shared
<1> HIDE DEF p, q, m
<1>6. U = lo..hi - 1
  <2>1. U = {u \in 0..m - 1 : p <= u /\ u < p + d /\ q <= u /\ u < q + s}
    BY <1>3, <1>4
  <2>2. {u \in 0..m - 1 : p <= u /\ u < p + d /\ q <= u /\ u < q + s} = lo..hi - 1
    BY ONLY <1>1, <1>2, s \in Nat \ {0}, d \in Nat \ {0} DEF Larger, Smaller
  <2> QED
    BY ONLY <2>1, <2>2
<1>7. lo \in Int /\ hi \in Int /\ hi - 1 \in Int
  BY <1>1 DEF Larger, Smaller
<1> HIDE DEF U, lo, hi
<1>8. Cardinality(lo..hi - 1) = IF lo > hi - 1 THEN 0 ELSE (hi - 1) - lo + 1
  BY ONLY <1>7, FS_Interval, Zenon
<1>9. Cardinality(U) = Positive(hi - lo) /\ Positive(hi - lo) \in Nat
  BY <1>6, <1>7, <1>8 DEF Positive
<1>10. Common(i, k, s, d) = hi - lo
  BY DEF Common, hi, lo, p, q
<1> QED
  BY <1>5, <1>9, <1>10

LEMMA WrapIs == ASSUME NEW n \in Nat, n <= SizeMax PROVE Wrap(n) = n
<1>1. SizeMax + 1 \in Nat \ {0} /\ n < SizeMax + 1
  BY SizeAssumption
<1>2. n % (SizeMax + 1) = n
  BY ONLY <1>1, SmallRemainder, n \in Nat
<1> QED
  BY <1>2 DEF Wrap

\* The span of a cell, without the wrapping.
ExactSpan(k, s, d, f, l) ==
    /\ f \in Nat /\ l \in Nat /\ f <= l /\ l <= s - 1
    /\ f * d <= k * s /\ k * s < f * d + d
    /\ l * d < k * s + s /\ k * s + s <= l * d + d
    /\ Span(k, s, d) = IF f = l THEN [first |-> f, last |-> f, wFirst |-> s, wLast |-> 0]
                       ELSE [first |-> f, last |-> l, wFirst |-> (f * d + d) - k * s, wLast |-> (k * s + s) - l * d]

LEMMA SpanIs ==
    ASSUME NEW s \in Nat \ {0}, NEW d \in Nat \ {0}, NEW k \in 0..d - 1, s * d <= SizeMax
    PROVE  \E f, l : ExactSpan(k, s, d, f, l)
<1> DEFINE lo == k * s  hi == k * s + s  m == s * d  f == lo \div d  l == (hi - 1) \div d
     fd == f * d  ld == l * d
<1>1. lo \in Nat /\ hi \in Nat \ {0} /\ hi = lo + s /\ m \in Nat /\ (k + 1) * s = hi
  OBVIOUS
<1>2. hi <= m
  <2>1. k + 1 \in Nat /\ k + 1 <= d
    OBVIOUS
  <2>2. (k + 1) * s <= d * s
    BY ONLY <2>1, Product, s \in Nat \ {0}, d \in Nat \ {0}
  <2>3. d * s = s * d
    OBVIOUS
  <2> QED
    BY <1>1, <2>2, <2>3
<1>3. m <= SizeMax /\ SizeMax \in Nat
  BY SizeAssumption
<1> HIDE DEF lo, hi, m
<1>4. Wrap(lo) = lo /\ Wrap(hi) = hi /\ Wrap(hi - 1) = hi - 1
  <2>1. lo \in Nat /\ lo <= SizeMax /\ hi \in Nat /\ hi <= SizeMax /\ hi - 1 \in Nat /\ hi - 1 <= SizeMax
    BY <1>1, <1>2, <1>3
  <2> QED
    BY ONLY <2>1, WrapIs
<1>5. f \in Nat /\ l \in Nat
  BY <1>1
<1>6. fd <= lo /\ lo < fd + d
  BY <1>1, <1>5, QuotientIs
<1>7. ld <= hi - 1 /\ hi - 1 < ld + d
  BY <1>1, <1>5, QuotientIs
<1> HIDE DEF f, l
<1>8. fd \in Nat /\ ld \in Nat
  BY <1>5
<1>9. ASSUME NEW a \in Nat, NEW b \in Nat, a < b PROVE a * d + d <= b * d /\ a * d \in Nat /\ b * d \in Nat
  <2>1. a + 1 \in Nat /\ a + 1 <= b
    BY <1>9
  <2>2. (a + 1) * d <= b * d
    BY ONLY <2>1, Product, b \in Nat, d \in Nat \ {0}
  <2> QED
    BY <2>2
<1>10. f <= l
  <2>1. ASSUME l < f PROVE FALSE
    <3>1. ld + d <= fd
      BY ONLY <1>5, <1>9, <2>1 DEF ld, fd
    <3> HIDE DEF ld, fd
    <3> QED
      BY <1>1, <1>6, <1>7, <1>8, <3>1
  <2> QED
    BY <1>5, <2>1
<1>11. l <= s - 1
  <2>1. ASSUME s - 1 < l PROVE FALSE
    <3>1. s \in Nat /\ s <= l
      BY <1>5, <2>1
    <3>2. s * d <= l * d
      BY ONLY <1>5, <3>1, Product, d \in Nat \ {0}
    <3>3. m <= ld
      BY <3>2 DEF m
    <3> HIDE DEF ld
    <3> QED
      BY <1>1, <1>2, <1>7, <1>8, <3>3
  <2> QED
    BY <1>5, <2>1
<1>12. Span(k, s, d) = IF f = l THEN [first |-> f, last |-> f, wFirst |-> s, wLast |-> 0]
                       ELSE [first |-> f, last |-> l, wFirst |-> (fd + d) - lo, wLast |-> hi - ld]
  <2> DEFINE f1 == Wrap(k * s) \div d  l1 == Wrap(Wrap((k + 1) * s) - 1) \div d
  <2>1. f1 = f /\ l1 = l /\ Wrap(k * s) = lo /\ Wrap((k + 1) * s) = hi
    BY <1>1, <1>4 DEF f, l, lo
  <2>2. Span(k, s, d) = IF f1 = l1 THEN [first |-> f1, last |-> l1, wFirst |-> s, wLast |-> 0]
                        ELSE [first |-> f1, last |-> l1, wFirst |-> Wrap((f1 + 1) * d - Wrap(k * s)),
                              wLast |-> Wrap(Wrap((k + 1) * s) - l1 * d)]
    BY DEF Span
  <2> HIDE DEF f1, l1
  <2>3. (f + 1) * d = fd + d /\ l * d = ld
    BY <1>5
  <2>4. ASSUME f # l PROVE Wrap((fd + d) - lo) = (fd + d) - lo /\ Wrap(hi - ld) = hi - ld
    <3>1. f < l
      BY <1>5, <1>10, <2>4
    <3>2. fd + d <= ld
      BY ONLY <1>5, <1>9, <3>1 DEF ld, fd
    <3> HIDE DEF ld, fd
    <3>3. /\ (fd + d) - lo \in Nat /\ (fd + d) - lo <= SizeMax
          /\ hi - ld \in Nat /\ hi - ld <= SizeMax
      BY <1>1, <1>2, <1>3, <1>6, <1>7, <1>8, <3>2
    <3> QED
      BY ONLY <3>3, WrapIs
  <2> HIDE DEF fd, ld
  <2> QED
    BY ONLY <2>1, <2>2, <2>3, <2>4
<1>13. ld < hi /\ hi <= ld + d
  <2> HIDE DEF ld
  <2> QED
    BY <1>1, <1>7, <1>8
<1>14. ExactSpan(k, s, d, f, l)
  BY ONLY <1>5, <1>6, <1>10, <1>11, <1>12, <1>13 DEF ExactSpan, lo, hi, fd, ld
<1> QED
  BY <1>14

\* What a pixel shares with a cell, told from the span.
InSpan(x, k, s, d, f, l) ==
    IF x < f \/ x > l THEN 0 ELSE IF f = l THEN s
    ELSE IF x = f THEN (f * d + d) - k * s ELSE IF x = l THEN (k * s + s) - l * d ELSE d

LEMMA ShareInSpan ==
    ASSUME NEW s \in Nat \ {0}, NEW d \in Nat \ {0}, NEW k \in 0..d - 1, NEW f, NEW l, ExactSpan(k, s, d, f, l),
           NEW x \in 0..s - 1
    PROVE  Shared(x, k, s, d) = InSpan(x, k, s, d, f, l)
<1> DEFINE lo == k * s  hi == lo + s  fd == f * d  ld == l * d  xd == x * d
<1>1. /\ f \in Nat /\ l \in Nat /\ f <= l /\ l <= s - 1
      /\ fd <= lo /\ lo < fd + d /\ ld < hi /\ hi <= ld + d
  BY DEF ExactSpan
<1>2. lo \in Nat /\ fd \in Nat /\ ld \in Nat /\ xd \in Nat /\ x \in Nat
  BY <1>1
<1>3. ASSUME NEW a \in Nat, NEW b \in Nat, a < b PROVE a * d + d <= b * d
  <2>1. a + 1 \in Nat /\ a + 1 <= b
    BY <1>3
  <2>2. (a + 1) * d <= b * d
    BY ONLY <2>1, Product, b \in Nat, d \in Nat \ {0}
  <2> QED
    BY <2>2
<1>4. x < f => xd + d <= fd
  BY ONLY <1>1, <1>2, <1>3
<1>5. l < x => ld + d <= xd
  BY ONLY <1>1, <1>2, <1>3
<1>6. f < x => fd + d <= xd
  BY ONLY <1>1, <1>2, <1>3
<1>7. x < l => xd + d <= ld
  BY ONLY <1>1, <1>2, <1>3
<1>8. f < l => fd + d <= ld
  BY ONLY <1>1, <1>3
<1>9. x = f => xd = fd
  OBVIOUS
<1>10. x = l => xd = ld
  OBVIOUS
<1>11. Shared(x, k, s, d) = Positive(Smaller(xd + d, lo + s) - Larger(xd, lo))
  BY SharedIs DEF Common
<1> HIDE DEF lo, fd, ld, xd
<1>12. Positive(Smaller(xd + d, lo + s) - Larger(xd, lo)) =
           IF x < f \/ x > l THEN 0 ELSE IF f = l THEN s
           ELSE IF x = f THEN (fd + d) - lo ELSE IF x = l THEN (lo + s) - ld ELSE d
  BY ONLY <1>1, <1>2, <1>4, <1>5, <1>6, <1>7, <1>8, <1>9, <1>10, s \in Nat \ {0}, d \in Nat \ {0}
     DEF Positive, Smaller, Larger, hi
<1> QED
  BY ONLY <1>11, <1>12 DEF InSpan, lo, fd, ld, xd

-----------------------------------------------------------------------------
\* What Added() adds up.
LEMMA AddedIs ==
    ASSUME NEW S, NEW f, Summable(f, S)
    PROVE  Added(f) = Sums(f)[S]
<1>1. DOMAIN f = S
  BY DEF Summable
<1> QED
  BY <1>1 DEF Added, MapThenSumSet, MapThenFoldSet, Sums, AddsUp, Chosen

-----------------------------------------------------------------------------
Positions(image) == (0..image.width - 1) \X (0..image.height - 1)

IsGray(image) ==
    /\ image.width \in Nat \ {0} /\ image.height \in Nat \ {0}
    /\ image.pixel \in [Positions(image) -> Nat]

\* The shares of a row, and their sum.
RowShares(image, y, c, dw) ==
    [x \in 0..image.width - 1 |-> Shared(x, c, image.width, dw) * image.pixel[<<x, y>>]]

RowIs(image, y, c, dw) ==
    /\ Summable(RowShares(image, y, c, dw), 0..image.width - 1)
    /\ RowSum(image, y, c, dw) = Sums(RowShares(image, y, c, dw))[0..image.width - 1]

LEMMA RowSumIs ==
    ASSUME NEW image, IsGray(image), NEW y \in 0..image.height - 1, NEW dw \in Nat \ {0}, NEW c \in 0..dw - 1,
           image.width * dw <= SizeMax
    PROVE  RowIs(image, y, c, dw)
<1> DEFINE W == image.width  X == 0..W - 1  h == RowShares(image, y, c, dw)  p(x) == image.pixel[<<x, y>>]
<1>1. W \in Nat \ {0} /\ \A x \in X : p(x) \in Nat
  BY DEF IsGray, Positions
<1>2. PICK f, l : ExactSpan(c, W, dw, f, l)
  BY ONLY <1>1, SpanIs, dw \in Nat \ {0}, c \in 0..dw - 1, image.width * dw <= SizeMax
<1>3. f \in Nat /\ l \in Nat /\ f <= l /\ l <= W - 1
  BY <1>2 DEF ExactSpan
<1>4. IsFiniteSet(X)
  <2>1. 0 \in Int /\ W - 1 \in Int
    BY <1>1
  <2> QED
    BY <2>1, FS_Interval
<1>5. ASSUME NEW x \in X
      PROVE  /\ Shared(x, c, W, dw) = InSpan(x, c, W, dw, f, l) /\ Shared(x, c, W, dw) \in Nat
             /\ h[x] = Shared(x, c, W, dw) * p(x) /\ h[x] \in Nat
  <2>1. Shared(x, c, W, dw) = InSpan(x, c, W, dw, f, l)
    BY <1>1, <1>2, ShareInSpan
  <2>2. Shared(x, c, W, dw) \in Nat
    BY <1>1, SharedIs
  <2>3. h[x] = Shared(x, c, W, dw) * p(x)
    BY DEF RowShares
  <2>4. h[x] \in Nat
    <3> DEFINE a == Shared(x, c, W, dw)  b == p(x)
    <3>1. a \in Nat /\ b \in Nat /\ h[x] = a * b
      BY <1>1, <2>2, <2>3
    <3> HIDE DEF a, b, h
    <3> QED
      BY <3>1
  <2> QED
    BY ONLY <2>1, <2>2, <2>3, <2>4
<1>6. Summable(h, X)
  <2>1. h = [x \in X |-> h[x]]
    BY DEF RowShares
  <2> HIDE DEF h, X
  <2>2. ASSUME NEW x \in X PROVE h[x] \in Int
    <3>1. h[x] \in Nat
      BY <1>5
    <3> QED
      BY ONLY <3>1
  <2>3. h \in [X -> Int]
    BY <2>1, <2>2
  <2> QED
    BY <1>4, <2>3 DEF Summable
<1>7. Sums(h)[X] = Sums(h)[f..l]
  <2>1. f..l \in SUBSET X /\ X \in SUBSET X
    BY <1>1, <1>3
  <2>2. ASSUME NEW x \in X \ (f..l) PROVE h[x] = 0
    <3>1. x < f \/ x > l
      BY <1>3
    <3>2. x \in X
      OBVIOUS
    <3>3. Shared(x, c, W, dw) = InSpan(x, c, W, dw, f, l) /\ h[x] = Shared(x, c, W, dw) * p(x)
      BY ONLY <1>5, <3>2
    <3>4. InSpan(x, c, W, dw, f, l) = 0
      BY ONLY <3>1 DEF InSpan
    <3>5. p(x) \in Nat
      BY ONLY <1>1, <3>2
    <3> QED
      BY ONLY <3>3, <3>4, <3>5
  <2>3. f..l \in SUBSET X /\ \A x \in X \ (f..l) : h[x] = 0
    BY ONLY <2>1, <2>2
  <2> DEFINE u == f..l
  <2> HIDE DEF h, X, u
  <2>4. Sums(h)[X] = Sums(h)[u] /\ Sums(h)[u] \in Int
    BY ONLY <1>6, <2>1, <2>3, SumsTrimmed DEF u
  <2> QED
    BY ONLY <2>4 DEF u
<1>8. Span(c, W, dw) = IF f = l THEN [first |-> f, last |-> f, wFirst |-> W, wLast |-> 0]
                       ELSE [first |-> f, last |-> l, wFirst |-> (f * dw + dw) - c * W,
                             wLast |-> (c * W + W) - l * dw]
  BY <1>2 DEF ExactSpan
<1>9. CASE f = l
  <2>1. f \in X /\ f..l = {f}
    BY <1>1, <1>3, <1>9
  <2>2. Sums(h)[{f}] = h[f]
    <3> HIDE DEF h, X
    <3> QED
      BY <1>6, <2>1, SumOfOne
  <2>3. Shared(f, c, W, dw) = W
    <3>1. Shared(f, c, W, dw) = InSpan(f, c, W, dw, f, l)
      BY ONLY <1>5, <2>1
    <3>2. ~(f < f \/ f > l)
      BY ONLY <1>3
    <3> QED
      BY ONLY <1>9, <3>1, <3>2 DEF InSpan
  <2>4. h[f] = W * p(f) /\ h[f] \in Nat
    BY <1>5, <2>1, <2>3
  <2>5. RowSum(image, y, c, dw) = W * p(f)
    <3>1. LET sp == Span(c, W, dw) IN sp.first = f /\ sp.last = f /\ sp.wFirst = W
      BY <1>8, <1>9
    <3>2. RowSum(image, y, c, dw) = W * p(f) + 0
      BY <1>3, <3>1 DEF RowSum
    <3> DEFINE v == W * p(f)
    <3>3. v \in Nat
      BY <2>4
    <3> HIDE DEF v
    <3> QED
      BY <3>2, <3>3 DEF v
  <2> QED
    BY <1>6, <1>7, <2>1, <2>2, <2>4, <2>5 DEF RowIs
<1>10. CASE f # l
  <2> DEFINE M == f + 1..l - 1  pf == [x \in M |-> p(x)]  hm == [x \in M |-> dw * pf[x]]
  <2>1. f < l /\ f \in X /\ l \in X /\ M \in SUBSET X /\ f \notin M /\ l \notin M \cup {f} /\ f..l = (M \cup {f}) \cup {l}
    BY <1>1, <1>3, <1>10
  <2>2. Summable(pf, M)
    <3>1. IsFiniteSet(M)
      BY <1>4, <2>1, FS_Subset
    <3> QED
      BY <1>1, <2>1, <3>1 DEF Summable
  <2>3. Added(pf) = Sums(pf)[M] /\ Sums(pf)[M] \in Int
    <3> HIDE DEF pf, M
    <3> QED
      BY <2>2, AddedIs, SumIsInt
  <2>4. Summable(hm, M) /\ Sums(hm)[M] = dw * Sums(pf)[M]
    <3>1. M \in SUBSET M /\ dw \in Int
      OBVIOUS
    <3> HIDE DEF pf, M
    <3> QED
      BY <2>2, <3>1, SumsScaled
  <2>5. ASSUME NEW x \in M PROVE h[x] = hm[x]
    <3>1. x \in X /\ ~(x < f \/ x > l) /\ x # f /\ x # l
      BY <1>1, <1>3, <2>1
    <3>2. Shared(x, c, W, dw) = dw
      BY <1>5, <1>10, <3>1 DEF InSpan
    <3> QED
      BY <1>5, <3>1, <3>2
  <2>6. Sums(h)[M] = Sums(hm)[M]
    <3>1. M \subseteq M
      OBVIOUS
    <3> HIDE DEF h, hm, M, X
    <3> QED
      BY <1>6, <2>1, <2>4, <2>5, <3>1, SumsAgree
  <2>7. Sums(h)[f..l] = (Sums(h)[M] + h[f]) + h[l]
    <3> DEFINE t == M \cup {f}
    <3>1. t \in SUBSET X /\ l \notin t
      BY <2>1
    <3> HIDE DEF h, M, X
    <3>2. Sums(h)[M \cup {f}] = Sums(h)[M] + h[f]
      BY <1>6, <2>1, PutIn
    <3> HIDE DEF t
    <3>3. Sums(h)[t \cup {l}] = Sums(h)[t] + h[l]
      BY <1>6, <2>1, <3>1, PutIn
    <3> QED
      BY <2>1, <3>2, <3>3 DEF t
  <2>8. h[f] = ((f * dw + dw) - c * W) * p(f) /\ h[f] \in Nat
    <3>1. Shared(f, c, W, dw) = (f * dw + dw) - c * W
      <4>1. Shared(f, c, W, dw) = InSpan(f, c, W, dw, f, l)
        BY ONLY <1>5, <2>1
      <4>2. ~(f < f \/ f > l)
        BY ONLY <1>3
      <4> QED
        BY ONLY <1>10, <4>1, <4>2 DEF InSpan
    <3> QED
      BY <1>5, <2>1, <3>1
  <2>9. h[l] = ((c * W + W) - l * dw) * p(l) /\ h[l] \in Nat
    <3>1. Shared(l, c, W, dw) = (c * W + W) - l * dw
      <4>1. Shared(l, c, W, dw) = InSpan(l, c, W, dw, f, l)
        BY ONLY <1>5, <2>1
      <4>2. ~(l < f \/ l > l)
        BY ONLY <1>3
      <4> QED
        BY ONLY <1>10, <4>1, <4>2 DEF InSpan
    <3> QED
      BY <1>5, <2>1, <3>1
  <2>10. RowSum(image, y, c, dw) = h[f] + (dw * Sums(pf)[M] + h[l])
    <3>1. LET sp == Span(c, W, dw) IN
          sp.first = f /\ sp.last = l /\ sp.wFirst = (f * dw + dw) - c * W /\ sp.wLast = (c * W + W) - l * dw
      BY <1>8, <1>10
    <3> DEFINE wf == (f * dw + dw) - c * W  wl == (c * W + W) - l * dw
    <3>2. RowSum(image, y, c, dw) = wf * p(f) + (dw * Added(pf) + wl * p(l))
      <4> HIDE DEF wf, wl
      <4> QED
        BY <2>1, <3>1 DEF RowSum, wf, wl
    <3>3. h[f] = wf * p(f) /\ h[l] = wl * p(l)
      BY <2>8, <2>9
    <3> HIDE DEF wf, wl, h, pf, M
    <3> QED
      BY ONLY <2>3, <3>2, <3>3
  <2> DEFINE a == h[f]  b == h[l]  e == Sums(pf)[M]
  <2>11. a \in Nat /\ b \in Nat /\ dw * e \in Int
    <3>1. e \in Int
      BY <2>3
    <3> HIDE DEF e
    <3> QED
      BY <2>8, <2>9, <3>1
  <2>12. Sums(h)[X] = (dw * e + a) + b
    BY <1>7, <2>4, <2>6, <2>7
  <2>13. RowSum(image, y, c, dw) = a + (dw * e + b)
    BY <2>10
  <2> DEFINE z == dw * e
  <2> HIDE DEF a, b, e, h, X, z
  <2>14. RowSum(image, y, c, dw) = Sums(h)[X]
    BY ONLY <2>11, <2>12, <2>13 DEF z
  <2> QED
    BY <1>6, <2>14 DEF RowIs, h, X
<1> QED
  BY <1>9, <1>10

-----------------------------------------------------------------------------
\* A row counts for the cells it shares something with, and by what it shares.
RowTaken(image, y, r, dh) ==
    LET share == Shared(y, r, image.height, dh) IN
    /\ share \in Nat
    /\ r \in Overlaps(image, y, dh) <=> share > 0
    /\ share > 0 => RowWeight(image, y, r, dh) = share

LEMMA RowTakenIs ==
    ASSUME NEW image, image.height \in Nat \ {0}, NEW dh \in Nat \ {0}, image.height * dh <= SizeMax,
           NEW y \in 0..image.height - 1, NEW r \in 0..dh - 1
    PROVE  RowTaken(image, y, r, dh)
<1> DEFINE H == image.height  m == H * dh  a == y * dh  b == r * H  share == Shared(y, r, H, dh)
     a1 == a + dh  b1 == b + H
<1>1. H \in Nat \ {0} /\ y \in Nat /\ r \in Nat /\ y + 1 <= H /\ r + 1 <= dh
  OBVIOUS
<1>2. a \in Nat /\ b \in Nat /\ m \in Nat /\ a1 = (y + 1) * dh /\ b1 = (r + 1) * H
  OBVIOUS
<1>3. a1 <= m
  <2>1. y + 1 \in Nat
    BY <1>1
  <2>2. (y + 1) * dh <= H * dh
    BY ONLY <1>1, <2>1, Product, dh \in Nat \ {0}
  <2> QED
    BY <1>2, <2>2
<1>4. b1 <= m
  <2>1. r + 1 \in Nat
    BY <1>1
  <2>2. (r + 1) * H <= dh * H
    BY ONLY <1>1, <2>1, Product, dh \in Nat \ {0}
  <2>3. dh * H = H * dh
    OBVIOUS
  <2> QED
    BY <1>2, <2>2, <2>3
<1>5. m <= SizeMax
  OBVIOUS
<1>6. share = Positive(Smaller(a + dh, b + H) - Larger(a, b)) /\ share \in Nat
  BY SharedIs DEF Common
<1>7. r <= (a1 - 1) \div H <=> b <= a1 - 1
  <2> HIDE DEF a
  <2>1. a1 - 1 \in Nat
    BY <1>2
  <2> HIDE DEF a1
  <2> QED
    BY <1>1, <2>1, QuotientBound
<1>8. r + 1 <= a \div H <=> b1 <= a
  <2>1. r + 1 \in Nat
    BY <1>1
  <2> HIDE DEF a
  <2>2. r + 1 <= a \div H <=> (r + 1) * H <= a
    BY ONLY <1>1, <1>2, <2>1, QuotientBound
  <2> QED
    BY <1>2, <2>2
<1> HIDE DEF m
<1>9. Wrap(a) = a /\ Wrap((y + 1) * dh) = a1 /\ Wrap((r + 1) * H) = b1 /\ Wrap(b) = b /\ Wrap(a1 - 1) = a1 - 1
  <2> HIDE DEF a, b
  <2>1. a \in Nat /\ a <= SizeMax /\ b \in Nat /\ b <= SizeMax /\ a1 \in Nat /\ a1 <= SizeMax
        /\ b1 \in Nat /\ b1 <= SizeMax /\ a1 - 1 \in Nat /\ a1 - 1 <= SizeMax
    BY <1>1, <1>2, <1>3, <1>4, <1>5, SizeAssumption
  <2> QED
    BY ONLY <1>2, <2>1, WrapIs
<1>10. Overlaps(image, y, dh) = a \div H..(a1 - 1) \div H
  BY ONLY <1>9 DEF Overlaps, a, H
<1>11. a \div H \in Nat /\ (a1 - 1) \div H \in Nat
  <2> HIDE DEF a
  <2> QED
    BY <1>1, <1>2
<1>12. RowWeight(image, y, r, dh) = Wrap(Smaller(a1, b1) - Larger(a, b))
  BY ONLY <1>9 DEF RowWeight, a, b, H
<1> DEFINE q == a \div H  q1 == (a1 - 1) \div H
<1> HIDE DEF H, a, b, share, q, q1
<1>13. r \in Overlaps(image, y, dh) <=> share > 0
  <2>1. r \in q..q1 <=> (q <= r /\ r <= q1)
    BY ONLY <1>1, <1>11 DEF q, q1
  <2>2. q <= r <=> a < b1
    BY ONLY <1>1, <1>2, <1>8, <1>11 DEF q
  <2>3. share > 0 <=> (a < b1 /\ b < a1)
    BY ONLY <1>1, <1>2, <1>6, dh \in Nat \ {0} DEF Positive, Smaller, Larger, a1, b1
  <2>4. r <= q1 <=> b < a1
    BY ONLY <1>1, <1>2, <1>7, dh \in Nat \ {0} DEF q1
  <2> QED
    BY ONLY <1>10, <2>1, <2>2, <2>3, <2>4 DEF q, q1
<1>14. ASSUME share > 0 PROVE RowWeight(image, y, r, dh) = share
  <2>1. share = Smaller(a1, b1) - Larger(a, b)
    BY ONLY <1>1, <1>2, <1>6, <1>14, dh \in Nat \ {0} DEF Positive, Smaller, Larger
  <2>2. share <= SizeMax
    <3>1. Smaller(a1, b1) <= a1 /\ Larger(a, b) >= 0 /\ Smaller(a1, b1) \in Nat /\ Larger(a, b) \in Nat
      BY ONLY <1>1, <1>2, dh \in Nat \ {0} DEF Smaller, Larger
    <3>2. a1 \in Nat
      BY ONLY <1>2, dh \in Nat \ {0}
    <3> QED
      BY ONLY <1>2, <1>3, <1>5, <2>1, <3>1, <3>2, SizeAssumption
  <2>3. Wrap(share) = share
    BY ONLY <1>6, <2>2, WrapIs
  <2> QED
    BY ONLY <1>12, <2>1, <2>3
<1> QED
  BY <1>6, <1>13, <1>14 DEF RowTaken, share, H

-----------------------------------------------------------------------------
\* The pixels of an image, each by what it shares with a cell.
CellShares(image, c, r, dw, dh) ==
    [at \in Positions(image) |->
        (Shared(at[1], c, image.width, dw) * Shared(at[2], r, image.height, dh)) * image.pixel[at]]

CellSumIs(image, c, r, dw, dh) ==
    /\ OnPairs(CellShares(image, c, r, dw, dh), 0..image.width - 1, 0..image.height - 1)
    /\ AreaSums(image, dw, dh)[<<c, r>>] = Sums(CellShares(image, c, r, dw, dh))[Positions(image)]

LEMMA WeightsOnPairs ==
    ASSUME NEW image, IsGray(image), NEW dw \in Nat \ {0}, NEW dh \in Nat \ {0},
           NEW c \in 0..dw - 1, NEW r \in 0..dh - 1
    PROVE  OnPairs(CellShares(image, c, r, dw, dh), 0..image.width - 1, 0..image.height - 1)
           /\ CellShares(image, c, r, dw, dh) \in [Positions(image) -> Nat]
<1> DEFINE X == 0..image.width - 1  Y == 0..image.height - 1
<1>1. image.width \in Nat \ {0} /\ image.height \in Nat \ {0} /\ image.pixel \in [X \X Y -> Nat]
  BY DEF IsGray, Positions
<1>2. IsFiniteSet(X) /\ IsFiniteSet(Y)
  <2>1. 0 \in Int /\ image.width - 1 \in Int /\ image.height - 1 \in Int
    BY <1>1
  <2> QED
    BY <2>1, FS_Interval
<1>3. ASSUME NEW at \in X \X Y
      PROVE  (Shared(at[1], c, image.width, dw) * Shared(at[2], r, image.height, dh)) * image.pixel[at] \in Nat
  <2> DEFINE sx == Shared(at[1], c, image.width, dw)  sy == Shared(at[2], r, image.height, dh)  v == image.pixel[at]
  <2>1. at[1] \in X /\ at[2] \in Y
    OBVIOUS
  <2>2. sx \in Nat /\ sy \in Nat
    BY <1>1, <2>1, SharedIs
  <2>3. v \in Nat
    BY <1>1
  <2> HIDE DEF sx, sy, v
  <2>4. sx * sy \in Nat
    BY <2>2
  <2> DEFINE s == sx * sy
  <2> HIDE DEF s
  <2>5. s * v \in Nat
    BY <2>3, <2>4 DEF s
  <2> QED
    BY <2>5 DEF s, sx, sy, v
<1>4. CellShares(image, c, r, dw, dh) \in [X \X Y -> Nat]
  BY <1>3 DEF CellShares, Positions
<1> QED
  BY <1>2, <1>4 DEF OnPairs, Positions

LEMMA CellSum ==
    ASSUME NEW image, IsGray(image), NEW dw \in Nat \ {0}, NEW dh \in Nat \ {0},
           NEW c \in 0..dw - 1, NEW r \in 0..dh - 1,
           image.width * dw <= SizeMax, image.height * dh <= SizeMax
    PROVE  CellSumIs(image, c, r, dw, dh)
<1> DEFINE X == 0..image.width - 1  Y == 0..image.height - 1  f == CellShares(image, c, r, dw, dh)
     g == RowTotals(f, X, Y)  rows == {y \in Y : r \in Overlaps(image, y, dh)}
     h == [y \in rows |-> RowWeight(image, y, r, dh) * RowSum(image, y, c, dw)]
<1>1. image.width \in Nat \ {0} /\ image.height \in Nat \ {0} /\ image.pixel \in [X \X Y -> Nat]
  BY DEF IsGray, Positions
<1>2. OnPairs(f, X, Y)
  BY WeightsOnPairs
<1>3. SameTotal(g, Y, f, X \X Y)
  <2> HIDE DEF X, Y, f
  <2> QED
    BY <1>2, ByRows
<1>4. ASSUME NEW y \in Y PROVE g[y] = Shared(y, r, image.height, dh) * RowSum(image, y, c, dw) /\ g[y] \in Int
  <2> DEFINE k == Shared(y, r, image.height, dh)  u == RowShares(image, y, c, dw)  e == RowAt(f, X, y)
  <2>1. RowIs(image, y, c, dw)
    BY RowSumIs
  <2>2. Summable(u, X) /\ RowSum(image, y, c, dw) = Sums(u)[X]
    BY <2>1 DEF RowIs
  <2>3. k \in Int
    <3>1. image.height \in Nat \ {0}
      BY <1>1
    <3>2. Shared(y, r, image.height, dh) \in Nat
      BY ONLY <3>1, SharedIs, dh \in Nat \ {0}, y \in Y, r \in 0..dh - 1
    <3> QED
      BY ONLY <3>2
  <2>4. e = [x \in X |-> k * u[x]]
    <3>1. ASSUME NEW x \in X
          PROVE  f[<<x, y>>] = k * u[x]
      <4> DEFINE sx == Shared(x, c, image.width, dw)  v == image.pixel[<<x, y>>]
      <4>1. sx \in Nat /\ v \in Nat
        BY <1>1, SharedIs
      <4>2. f[<<x, y>>] = (sx * k) * v /\ u[x] = sx * v
        BY DEF CellShares, Positions, RowShares
      <4> HIDE DEF sx, v, k, f, u
      <4>3. (sx * k) * v = k * (sx * v)
        BY ONLY <2>3, <4>1
      <4> QED
        BY <4>2, <4>3
    <3> QED
      BY <3>1 DEF RowAt
  <2>5. X \in SUBSET X
    OBVIOUS
  <2> HIDE DEF X, u, k, e
  <2>6. Sums(e)[X] = k * Sums(u)[X]
    BY ONLY <2>2, <2>3, <2>4, <2>5, SumsScaled
  <2>7. Sums(u)[X] \in Int
    BY ONLY <2>2, <2>5, SumIsInt
  <2>8. g[y] = Sums(e)[X]
    BY DEF RowTotals, e
  <2> DEFINE s == Sums(u)[X]
  <2>9. s \in Int /\ g[y] = k * s
    BY <2>6, <2>7, <2>8
  <2> HIDE DEF s, g
  <2>10. k * s \in Int
    BY ONLY <2>3, <2>9
  <2> QED
    BY <2>2, <2>9, <2>10 DEF s, k
<1>5. ASSUME NEW y \in Y PROVE RowTaken(image, y, r, dh)
  BY <1>1, RowTakenIs
<1>6. Summable(g, Y)
  BY <1>3 DEF SameTotal
<1>7. rows \in SUBSET Y /\ Y \in SUBSET Y
  OBVIOUS
<1>8. ASSUME NEW y \in Y \ rows PROVE g[y] = 0
  <2> DEFINE k == Shared(y, r, image.height, dh)  s == RowSum(image, y, c, dw)
  <2>1. y \in Y /\ r \notin Overlaps(image, y, dh)
    OBVIOUS
  <2>2. k = 0
    BY <1>5, <2>1 DEF RowTaken
  <2>3. g[y] = k * s
    BY <1>4, <2>1
  <2>4. s \in Int
    <3>1. RowIs(image, y, c, dw)
      BY <2>1, RowSumIs
    <3>2. X \in SUBSET X
      OBVIOUS
    <3> QED
      BY <3>1, <3>2, SumIsInt DEF RowIs
  <2> HIDE DEF k, s, g
  <2> QED
    BY <2>2, <2>3, <2>4
<1>9. ASSUME NEW y \in rows PROVE h[y] = g[y] /\ h[y] \in Int
  <2>1. y \in Y /\ r \in Overlaps(image, y, dh)
    OBVIOUS
  <2>2. RowWeight(image, y, r, dh) = Shared(y, r, image.height, dh)
    BY <1>5, <2>1 DEF RowTaken
  <2>3. g[y] = Shared(y, r, image.height, dh) * RowSum(image, y, c, dw) /\ g[y] \in Int
    BY <1>4, <2>1
  <2>4. h[y] = RowWeight(image, y, r, dh) * RowSum(image, y, c, dw)
    OBVIOUS
  <2> QED
    BY ONLY <2>2, <2>3, <2>4
<1>10. Summable(h, rows)
  <2>1. IsFiniteSet(rows)
    <3>1. IsFiniteSet(Y)
      BY <1>2 DEF OnPairs
    <3> QED
      BY <1>7, <3>1, FS_Subset
  <2>2. h \in [rows -> Int]
    BY <1>9
  <2> QED
    BY <2>1, <2>2 DEF Summable
<1>11. AreaSums(image, dw, dh)[<<c, r>>] = Added(h)
  BY DEF AreaSums
<1> HIDE DEF h, g, rows, Y
<1>12. Added(h) = Sums(h)[rows]
  BY <1>10, AddedIs
<1>13. Sums(h)[rows] = Sums(g)[rows]
  <2>1. rows \in SUBSET rows /\ rows \subseteq Y
    BY <1>7
  <2> QED
    BY ONLY <1>6, <1>9, <1>10, <2>1, SumsAgree
<1>14. Sums(g)[Y] = Sums(g)[rows]
  <2>1. \A y \in Y \ rows : g[y] = 0
    BY <1>8
  <2>2. rows \in SUBSET Y
    BY <1>7
  <2>3. Sums(g)[Y] = Sums(g)[rows] /\ Sums(g)[rows] \in Int
    BY ONLY <1>6, <1>7, <2>1, SumsTrimmed
  <2> QED
    BY <2>3
<1> QED
  BY <1>2, <1>3, <1>11, <1>12, <1>13, <1>14 DEF SameTotal, CellSumIs, Positions, Y

-----------------------------------------------------------------------------
LEMMA LengthScaled ==
    ASSUME NEW k \in Nat \ {0}, NEW a \in Nat, NEW b \in Nat, NEW e \in Nat, NEW g \in Nat
    PROVE  Positive(Smaller(k * e, k * g) - Larger(k * a, k * b)) = k * Positive(Smaller(e, g) - Larger(a, b))
<1>1. ASSUME NEW x \in Nat, NEW y \in Nat, x <= y PROVE k * x <= k * y
  <2>1. x * k <= y * k
    BY ONLY <1>1, Product, k \in Nat \ {0}
  <2> QED
    BY <2>1
<1> DEFINE ka == k * a  kb == k * b  ke == k * e  kg == k * g
<1>2. ka \in Nat /\ kb \in Nat /\ ke \in Nat /\ kg \in Nat
  OBVIOUS
<1>3. (a <= b => ka <= kb) /\ (b <= a => kb <= ka) /\ (e <= g => ke <= kg) /\ (g <= e => kg <= ke)
  BY <1>1
<1> DEFINE x == Smaller(e, g)  y == Larger(a, b)  kx == k * x  ky == k * y
<1>4. x \in Nat /\ y \in Nat
  BY DEF Smaller, Larger
<1>5. Smaller(ke, kg) = kx
  <2>1. CASE e < g
    <3>1. x = e
      BY <2>1 DEF Smaller
    <3>2. ke <= kg
      BY <1>3, <2>1
    <3>3. kx = ke
      BY <3>1
    <3> HIDE DEF ke, kg, kx
    <3> QED
      BY <1>2, <3>2, <3>3 DEF Smaller
  <2>2. CASE ~(e < g)
    <3>1. x = g
      BY <2>2 DEF Smaller
    <3>2. kg <= ke
      BY <1>3, <2>2
    <3>3. kx = kg
      BY <3>1
    <3> HIDE DEF ke, kg, kx
    <3> QED
      BY <1>2, <3>2, <3>3 DEF Smaller
  <2> QED
    BY <2>1, <2>2
<1>6. Larger(ka, kb) = ky
  <2>1. CASE a > b
    <3>1. y = a
      BY <2>1 DEF Larger
    <3>2. kb <= ka
      BY <1>3, <2>1
    <3>3. ky = ka
      BY <3>1
    <3> HIDE DEF ka, kb, ky
    <3> QED
      BY <1>2, <3>2, <3>3 DEF Larger
  <2>2. CASE ~(a > b)
    <3>1. y = b
      BY <2>2 DEF Larger
    <3>2. ka <= kb
      BY <1>3, <2>2
    <3>3. ky = kb
      BY <3>1
    <3> HIDE DEF ka, kb, ky
    <3> QED
      BY <1>2, <3>2, <3>3 DEF Larger
  <2> QED
    BY <2>1, <2>2
<1> HIDE DEF x, y
<1>7. Positive(kx - ky) = k * Positive(x - y)
  <2>1. CASE x <= y
    <3>1. kx <= ky /\ kx \in Nat /\ ky \in Nat
      BY <1>1, <1>4, <2>1
    <3>2. Positive(x - y) = 0
      BY <1>4, <2>1 DEF Positive
    <3> HIDE DEF kx, ky
    <3>3. Positive(kx - ky) = 0
      BY <3>1 DEF Positive
    <3> QED
      BY <3>2, <3>3
  <2>2. CASE x > y
    <3>1. PICK z \in Nat \ {0} : z = x - y
      <4>1. x - y \in Nat \ {0}
        BY <1>4, <2>2
      <4> QED
        BY <4>1
    <3>2. kx - ky = k * z /\ k * z > 0
      <4>1. x = y + z
        BY <1>4, <3>1
      <4>2. k * (y + z) = k * y + k * z /\ k * z \in Nat \ {0} /\ k * y \in Nat
        BY <1>4
      <4> QED
        BY <4>1, <4>2
    <3>3. Positive(x - y) = z
      BY <3>1 DEF Positive
    <3> QED
      BY <3>2, <3>3 DEF Positive
  <2> QED
    BY <1>4, <2>1, <2>2
<1> QED
  BY <1>5, <1>6, <1>7 DEF x, y

-----------------------------------------------------------------------------
\* A cell that is k finer ones shares with a pixel what they do together, to scale.
Finer(c, k) == c * k..(c + 1) * k - 1

SharesOver(i, P, s, d) == [g \in P |-> Shared(i, g, s, d)]

SharesJoined(i, c, k, s, n) ==
    LET P == Finer(c, k) IN
    /\ P \subseteq 0..n * k - 1
    /\ Summable(SharesOver(i, P, s, n * k), P)
    /\ Sums(SharesOver(i, P, s, n * k))[P] = k * Shared(i, c, s, n)

LEMMA SharesJoin ==
    ASSUME NEW s \in Nat \ {0}, NEW n \in Nat \ {0}, NEW k \in Nat \ {0}, NEW i \in 0..s - 1, NEW c \in 0..n - 1
    PROVE  SharesJoined(i, c, k, s, n)
<1> DEFINE d == n * k  m == s * d  lo == c * k  hi == (c + 1) * k  P == Finer(c, k)
     a == i * n  b == c * s  A == lo * s  B == hi * s  C == i * d
     T == {u \in 0..m - 1 : u \div d = i /\ u \div s \in P}
     p == [u \in T |-> u \div s]  g == SharesOver(i, P, s, d)
<1>1. d \in Nat \ {0} /\ m \in Nat /\ lo \in Nat /\ hi = lo + k /\ hi \in Nat /\ P = lo..hi - 1
  BY DEF Finer
<1>2. hi <= d
  <2>1. c + 1 \in Nat /\ c + 1 <= n
    OBVIOUS
  <2> QED
    BY ONLY <2>1, Product, n \in Nat \ {0}, k \in Nat \ {0}
<1>3. P \subseteq 0..d - 1 /\ IsFiniteSet(P)
  <2> HIDE DEF d, lo, hi, P
  <2>1. lo \in Int /\ hi - 1 \in Int
    BY <1>1
  <2>2. IsFiniteSet(lo..hi - 1)
    BY ONLY <2>1, FS_Interval
  <2> QED
    BY <1>1, <1>2, <2>2
<1>4. A = k * b /\ B = k * (b + s) /\ C = k * a /\ C + d = k * (a + n) /\ a \in Nat /\ b \in Nat
  <2>1. A = k * b
    OBVIOUS
  <2>2. B = k * (b + s)
    OBVIOUS
  <2>3. C = k * a
    OBVIOUS
  <2>4. C + d = k * (a + n)
    OBVIOUS
  <2> QED
    BY <2>1, <2>2, <2>3, <2>4
<1>5. C + d <= m
  <2>1. i + 1 \in Nat /\ i + 1 <= s
    OBVIOUS
  <2> HIDE DEF d
  <2>2. (i + 1) * d <= s * d
    BY ONLY <1>1, <2>1, Product, s \in Nat \ {0}
  <2>3. (i + 1) * d = i * d + d
    BY <1>1
  <2> QED
    BY <2>2, <2>3
<1>6. A \in Nat /\ B \in Nat /\ C \in Nat
  BY <1>4
<1> HIDE DEF d, m, lo, hi, P, A, B, C
<1>7. \A u \in 0..m - 1 : u \div d = i <=> (C <= u /\ u < C + d)
  BY <1>1, QuotientIs DEF C
<1>8. ASSUME NEW u \in 0..m - 1 PROVE u \div s \in P <=> (A <= u /\ u < B)
  <2>1. u \in Nat /\ u \div s \in Nat
    BY <1>1
  <2>2. lo <= u \div s <=> A <= u
    BY ONLY <1>1, <2>1, QuotientBound, s \in Nat \ {0} DEF A
  <2>3. hi <= u \div s <=> B <= u
    BY ONLY <1>1, <2>1, QuotientBound, s \in Nat \ {0} DEF B
  <2> DEFINE q == u \div s
  <2> HIDE DEF q
  <2>4. q \in P <=> (lo <= q /\ ~(hi <= q))
    BY <1>1, <2>1 DEF q
  <2> QED
    BY <1>6, <2>1, <2>2, <2>3, <2>4 DEF q
<1> DEFINE from == Larger(C, A)  to == Smaller(C + d, B)
<1>9. T = from..to - 1
  <2>1. T = {u \in 0..m - 1 : C <= u /\ u < C + d /\ A <= u /\ u < B}
    BY <1>7, <1>8
  <2>2. {u \in 0..m - 1 : C <= u /\ u < C + d /\ A <= u /\ u < B} = from..to - 1
    BY ONLY <1>1, <1>5, <1>6 DEF Larger, Smaller
  <2> QED
    BY ONLY <2>1, <2>2
<1>10. from \in Int /\ to \in Int /\ to - 1 \in Int
  BY <1>1, <1>6 DEF Larger, Smaller
<1> HIDE DEF T, from, to
<1>11. IsFiniteSet(from..to - 1) /\ Cardinality(from..to - 1) = IF from > to - 1 THEN 0 ELSE (to - 1) - from + 1
  BY ONLY <1>10, FS_Interval, Zenon
<1>12. IsFiniteSet(T) /\ Cardinality(T) = Positive(to - from)
  BY <1>9, <1>10, <1>11 DEF Positive
<1>13. Positive(to - from) = k * Positive(Smaller(a + n, b + s) - Larger(a, b))
  <2> DEFINE x == a + n  y == b + s
  <2>1. x \in Nat /\ y \in Nat
    BY <1>4
  <2>2. from = Larger(k * a, k * b) /\ to = Smaller(k * x, k * y)
    BY <1>4 DEF from, to
  <2> HIDE DEF x, y, a, b
  <2>3. Positive(Smaller(k * x, k * y) - Larger(k * a, k * b)) = k * Positive(Smaller(x, y) - Larger(a, b))
    BY ONLY <1>4, <2>1, LengthScaled, k \in Nat \ {0}
  <2> QED
    BY ONLY <2>2, <2>3 DEF x, y
<1>14. Shared(i, c, s, n) = Positive(Smaller(a + n, b + s) - Larger(a, b))
  BY SharedIs DEF Common
<1>15. p \in [T -> P]
  BY DEF T
<1>16. g = [h \in P |-> Cardinality(Part(T, p, h))]
  <2>1. ASSUME NEW h \in P PROVE Shared(i, h, s, d) = Cardinality(Part(T, p, h))
    <3>1. Part(T, p, h) = {u \in 0..m - 1 : u \div d = i /\ u \div s = h}
      BY DEF Part, T
    <3> QED
      BY <3>1 DEF Shared, m
  <2> QED
    BY <2>1 DEF SharesOver
<1> HIDE DEF p, g
<1>17. Summable(g, P) /\ Sums(g)[P] = Cardinality(T)
  BY ONLY <1>3, <1>12, <1>15, <1>16, CountByParts
<1> QED
  BY <1>3, <1>12, <1>13, <1>14, <1>17 DEF SharesJoined, g, d, P

-----------------------------------------------------------------------------
\* The sum over the fine cells of a coarse one, pixel by pixel.
FineCells(c, r, kx, ky) == Finer(c, kx) \X Finer(r, ky)

FineWeights(image, C, d) ==
    [t \in C \X Positions(image) |-> CellShares(image, t[1][1], t[1][2], d, d)[t[2]]]

LEMMA FineWeightsOnPairs ==
    ASSUME NEW image, IsGray(image), NEW d \in Nat \ {0}, NEW C, C \subseteq (0..d - 1) \X (0..d - 1), IsFiniteSet(C)
    PROVE  OnPairs(FineWeights(image, C, d), C, Positions(image))
<1> DEFINE T == Positions(image)  e == FineWeights(image, C, d)
<1>1. ASSUME NEW cell \in C
      PROVE  CellShares(image, cell[1], cell[2], d, d) \in [T -> Nat] /\ IsFiniteSet(T)
  <2>1. cell[1] \in 0..d - 1 /\ cell[2] \in 0..d - 1
    OBVIOUS
  <2>2. CellShares(image, cell[1], cell[2], d, d) \in [T -> Nat]
    BY <2>1, WeightsOnPairs
  <2>3. IsFiniteSet(T)
    BY <2>1, WeightsOnPairs, FS_Product DEF OnPairs, Positions
  <2> QED
    BY <2>2, <2>3
<1>2. IsFiniteSet(T)
  <2>1. image.width \in Nat /\ image.height \in Nat
    BY DEF IsGray
  <2>2. IsFiniteSet(0..image.width - 1) /\ IsFiniteSet(0..image.height - 1)
    <3>1. 0 \in Int /\ image.width - 1 \in Int /\ image.height - 1 \in Int
      BY <2>1
    <3> QED
      BY <3>1, FS_Interval
  <2> QED
    BY <2>2, FS_Product DEF Positions
<1> HIDE DEF T
<1>3. e \in [C \X T -> Int]
  <2>1. ASSUME NEW t \in C \X T PROVE CellShares(image, t[1][1], t[1][2], d, d)[t[2]] \in Int
    <3>1. t[1] \in C /\ t[2] \in T
      OBVIOUS
    <3>2. CellShares(image, t[1][1], t[1][2], d, d) \in [T -> Nat]
      BY <1>1, <3>1
    <3> QED
      BY <3>1, <3>2
  <2> QED
    BY <2>1 DEF FineWeights, T
<1> QED
  BY <1>2, <1>3 DEF OnPairs, T

\* What a pixel counts for in a coarse cell, from what it does in the finer ones.
PixelToScale(image, at, c, r, dw, dh, kx, ky, d) ==
    LET C == FineCells(c, r, kx, ky) IN
    Sums(RowAt(FineWeights(image, C, d), C, at))[C] = (kx * ky) * CellShares(image, c, r, dw, dh)[at]

LEMMA PixelScaled ==
    ASSUME NEW image, IsGray(image), NEW dw \in Nat \ {0}, NEW dh \in Nat \ {0}, NEW kx \in Nat \ {0},
           NEW ky \in Nat \ {0}, NEW d, d = dw * kx, d = dh * ky, NEW c \in 0..dw - 1, NEW r \in 0..dh - 1,
           NEW at \in Positions(image)
    PROVE  PixelToScale(image, at, c, r, dw, dh, kx, ky, d)
<1> DEFINE P == Finer(c, kx)  Q == Finer(r, ky)  C == P \X Q  W == image.width  H == image.height
     u == SharesOver(at[1], P, W, d)  w == SharesOver(at[2], Q, H, d)  v == image.pixel[at]
     sx == Shared(at[1], c, W, dw)  sy == Shared(at[2], r, H, dh)
     f == PairProducts(u, P, w, Q)  h == RowAt(FineWeights(image, C, d), C, at)
<1>1. at[1] \in 0..W - 1 /\ at[2] \in 0..H - 1 /\ v \in Nat /\ W \in Nat \ {0} /\ H \in Nat \ {0}
  BY DEF IsGray, Positions
<1>2. sx \in Nat /\ sy \in Nat
  BY <1>1, SharedIs
<1>3. Summable(u, P) /\ Sums(u)[P] = kx * sx
  <2>1. SharesJoined(at[1], c, kx, W, dw)
    BY ONLY <1>1, SharesJoin, dw \in Nat \ {0}, kx \in Nat \ {0}, c \in 0..dw - 1
  <2> QED
    BY <2>1 DEF SharesJoined
<1>4. Summable(w, Q) /\ Sums(w)[Q] = ky * sy
  <2>1. SharesJoined(at[2], r, ky, H, dh)
    BY ONLY <1>1, SharesJoin, dh \in Nat \ {0}, ky \in Nat \ {0}, r \in 0..dh - 1
  <2> QED
    BY <2>1 DEF SharesJoined
<1>5. Summable(f, C) /\ Sums(f)[C] = (kx * sx) * (ky * sy)
  <2>1. ProductsAddUp(u, P, w, Q)
    <3> HIDE DEF u, w, P, Q
    <3> QED
      BY ONLY <1>3, <1>4, SumOfProducts
  <2> QED
    BY <1>3, <1>4, <2>1 DEF ProductsAddUp
<1>6. h = [cell \in C |-> v * f[cell]]
  <2>1. ASSUME NEW cell \in C
        PROVE  FineWeights(image, C, d)[<<cell, at>>] = v * f[cell]
    <3> DEFINE ux == u[cell[1]]  wy == w[cell[2]]
    <3>1. ux = Shared(at[1], cell[1], W, d) /\ wy = Shared(at[2], cell[2], H, d) /\ cell[1] \in P /\ cell[2] \in Q
      BY DEF SharesOver
    <3>2. ux \in Int /\ wy \in Int
      BY <1>3, <1>4, <3>1 DEF Summable
    <3>3. f[cell] = ux * wy
      BY DEF PairProducts
    <3>4. FineWeights(image, C, d)[<<cell, at>>] = (ux * wy) * v
      BY <3>1 DEF FineWeights, CellShares
    <3> HIDE DEF ux, wy, v, f
    <3>5. (ux * wy) * v = v * (ux * wy)
      <4> DEFINE z == ux * wy
      <4>1. z \in Int
        BY <3>2
      <4> HIDE DEF z
      <4>2. z * v = v * z
        BY <1>1, <4>1
      <4> QED
        BY <4>2 DEF z
    <3> QED
      BY <3>3, <3>4, <3>5
  <2> QED
    BY <2>1 DEF RowAt
<1>7. C \in SUBSET C /\ v \in Int
  BY <1>1
<1> HIDE DEF f, h, v, C
<1>8. Sums(h)[C] = v * Sums(f)[C]
  BY ONLY <1>5, <1>6, <1>7, SumsScaled
<1> HIDE DEF sx, sy
<1>9. v * ((kx * sx) * (ky * sy)) = (kx * ky) * ((sx * sy) * v)
  BY ONLY <1>1, <1>2, kx \in Nat \ {0}, ky \in Nat \ {0}
<1>10. CellShares(image, c, r, dw, dh)[at] = (sx * sy) * v
  BY DEF CellShares, sx, sy, v
<1> QED
  BY <1>5, <1>8, <1>9, <1>10 DEF PixelToScale, FineCells, C, h

\* Where a fine cell is one of a whole grid of them.
SumToScale(image, c, r, dw, dh, kx, ky, d) ==
    LET C == FineCells(c, r, kx, ky)
        f == [cell \in C |-> AreaSums(image, d, d)[cell]]
    IN  Added(f) = (kx * ky) * Sums(CellShares(image, c, r, dw, dh))[Positions(image)]

LEMMA GridSum ==
    ASSUME NEW image, IsGray(image), NEW dw \in Nat \ {0}, NEW dh \in Nat \ {0}, NEW kx \in Nat \ {0},
           NEW ky \in Nat \ {0}, NEW d \in Nat \ {0}, d = dw * kx, d = dh * ky,
           NEW c \in 0..dw - 1, NEW r \in 0..dh - 1,
           image.width * d <= SizeMax, image.height * d <= SizeMax
    PROVE  SumToScale(image, c, r, dw, dh, kx, ky, d)
<1> DEFINE P == Finer(c, kx)  Q == Finer(r, ky)  C == P \X Q  T == Positions(image)
     f == [cell \in C |-> AreaSums(image, d, d)[cell]]  e == FineWeights(image, C, d)
     col == ColumnTotals(e, C, T)  row == RowTotals(e, C, T)  z == CellShares(image, c, r, dw, dh)
<1>1. image.width \in Nat \ {0} /\ image.height \in Nat \ {0} /\ 0 \in 0..image.width - 1 /\ 0 \in 0..image.height - 1
  BY DEF IsGray
<1>2. P \subseteq 0..d - 1 /\ IsFiniteSet(P)
  <2>1. SharesJoined(0, c, kx, image.width, dw)
    BY ONLY <1>1, SharesJoin, dw \in Nat \ {0}, kx \in Nat \ {0}, c \in 0..dw - 1
  <2> QED
    BY <2>1 DEF SharesJoined, Summable
<1>3. Q \subseteq 0..d - 1 /\ IsFiniteSet(Q)
  <2>1. SharesJoined(0, r, ky, image.height, dh)
    BY ONLY <1>1, SharesJoin, dh \in Nat \ {0}, ky \in Nat \ {0}, r \in 0..dh - 1
  <2> QED
    BY <2>1 DEF SharesJoined, Summable
<1>4. C \subseteq (0..d - 1) \X (0..d - 1) /\ IsFiniteSet(C)
  <2>1. IsFiniteSet(C)
    BY <1>2, <1>3, FS_Product
  <2> HIDE DEF P, Q
  <2> QED
    BY <1>2, <1>3, <2>1
<1>5. OnPairs(e, C, T)
  <2> HIDE DEF C
  <2> QED
    BY <1>4, FineWeightsOnPairs
<1>6. SameTotal(col, C, e, C \X T) /\ SameTotal(row, T, e, C \X T)
  <2> HIDE DEF e, C, T
  <2> QED
    BY <1>5, ByRows, ByColumns
<1>7. f = col
  <2>1. ASSUME NEW cell \in C PROVE AreaSums(image, d, d)[cell] = Sums(ColumnAt(e, T, cell))[T]
    <3> DEFINE gc == cell[1]  gr == cell[2]
    <3>1. gc \in 0..d - 1 /\ gr \in 0..d - 1 /\ cell = <<gc, gr>>
      BY <1>4
    <3>2. CellSumIs(image, gc, gr, d, d)
      BY ONLY <3>1, CellSum, IsGray(image), d \in Nat \ {0}, image.width * d <= SizeMax, image.height * d <= SizeMax
    <3>3. ColumnAt(e, T, cell) = CellShares(image, gc, gr, d, d)
      <4>1. ColumnAt(e, T, cell) = [at \in T |-> CellShares(image, gc, gr, d, d)[at]]
        BY DEF ColumnAt, FineWeights
      <4> QED
        BY <4>1 DEF CellShares
    <3> QED
      BY <3>1, <3>2, <3>3 DEF CellSumIs
  <2> QED
    BY <2>1 DEF ColumnTotals
<1> DEFINE k == kx * ky
<1>8. row = [at \in T |-> k * z[at]]
  <2>1. ASSUME NEW at \in T PROVE Sums(RowAt(e, C, at))[C] = k * z[at]
    <3>1. PixelToScale(image, at, c, r, dw, dh, kx, ky, d)
      BY PixelScaled
    <3> QED
      BY <3>1 DEF PixelToScale, FineCells
  <2> QED
    BY <2>1 DEF RowTotals
<1>9. Summable(z, T)
  <2>1. z \in [T -> Nat] /\ OnPairs(z, 0..image.width - 1, 0..image.height - 1)
    BY WeightsOnPairs
  <2> QED
    BY <2>1, PairsSum DEF Positions
<1>10. k \in Int /\ T \in SUBSET T
  OBVIOUS
<1> HIDE DEF k, T, row, z, f, col, C
<1>11. Sums(row)[T] = k * Sums(z)[T]
  BY ONLY <1>8, <1>9, <1>10, SumsScaled
<1>12. Added(f) = Sums(col)[C]
  <2>1. Summable(f, C)
    BY <1>6, <1>7 DEF SameTotal
  <2> QED
    BY <1>7, <2>1, AddedIs
<1> QED
  BY <1>6, <1>11, <1>12 DEF SameTotal, SumToScale, FineCells, k, T, z, f, C

-----------------------------------------------------------------------------
\* The exact sum of a cell is the one by shares.
ExactIs(image, c, r, dw, dh) ==
    LET z == Sums(CellShares(image, c, r, dw, dh))[Positions(image)] IN
    z \in Nat /\ ExactSum(image, <<c, r>>, dw, dh) = z

LEMMA ExactSumIs ==
    ASSUME NEW image, IsGray(image), NEW dw \in Nat \ {0}, NEW dh \in Nat \ {0},
           NEW c \in 0..dw - 1, NEW r \in 0..dh - 1
    PROVE  ExactIs(image, c, r, dw, dh)
<1> DEFINE T == Positions(image)  z == CellShares(image, c, r, dw, dh)
<1>1. DOMAIN image.pixel = T
  BY DEF IsGray
<1>2. z \in [T -> Nat] /\ OnPairs(z, 0..image.width - 1, 0..image.height - 1)
  BY WeightsOnPairs
<1>3. Summable(z, T)
  BY <1>2, PairsSum DEF Positions
<1>4. ExactSum(image, <<c, r>>, dw, dh) = Added(z)
  BY <1>1 DEF ExactSum, CellShares
<1>5. Added(z) = Sums(z)[T]
  <2> HIDE DEF z, T
  <2> QED
    BY <1>3, AddedIs
<1>6. Sums(z)[T] \in Nat
  <2>1. T \in SUBSET T /\ \A at \in T : z[at] >= 0
    BY <1>2
  <2> HIDE DEF z, T
  <2>2. Sums(z)[T] \in Int /\ Sums(z)[T] >= 0
    BY ONLY <1>3, <2>1, SumIsInt, SumOfNothing
  <2> QED
    BY <2>2
<1> QED
  BY <1>4, <1>5, <1>6 DEF ExactIs

\* Rounded over the area that the sum was taken over, which may be to a scale.
Rounded(sum, area, q) == 2 * sum >= (2 * q - 1) * area /\ 2 * sum < (2 * q + 1) * area

LEMMA RoundedToScale ==
    ASSUME NEW a \in Nat, NEW area \in Nat \ {0}, NEW k \in Nat \ {0}, NEW q, q = AreaRound(k * a, area * k)
    PROVE  Rounded(a, area, q)
<1> DEFINE ka == k * a  d == area * k
<1>1. ka \in Nat /\ d \in Nat \ {0} /\ q = (2 * ka + d) \div (2 * d)
  BY DEF AreaRound
<1> HIDE DEF ka, d
<1>2. q \in Nat /\ 2 * (ka - q * d) < d /\ 2 * (ka - q * d) >= -d
  BY ONLY <1>1, HalfUp
<1> DEFINE e == 2 * (a - q * area)
<1>3. e \in Int
  BY <1>2
<1>4. k * e = 2 * (ka - q * d) /\ d = k * area
  BY <1>2 DEF ka, d
<1> HIDE DEF e
<1>5. ASSUME area <= e PROVE FALSE
  <2>1. e \in Nat
    BY <1>3, <1>5
  <2>2. area * k <= e * k
    BY ONLY <1>5, <2>1, Product, area \in Nat \ {0}, k \in Nat \ {0}
  <2>3. k * e = e * k /\ k * e \in Nat /\ area * k = d
    BY <2>1 DEF d
  <2> DEFINE ke == k * e
  <2> HIDE DEF ke
  <2> QED
    BY <1>1, <1>2, <1>4, <2>2, <2>3 DEF ke
<1>6. ASSUME e < -area PROVE FALSE
  <2>1. -e \in Nat /\ area + 1 <= -e
    BY <1>3, <1>6
  <2>2. (area + 1) * k <= (-e) * k
    BY ONLY <2>1, Product, area \in Nat \ {0}, k \in Nat \ {0}
  <2>3. (area + 1) * k = d + k /\ (-e) * k = -(k * e) /\ k * e \in Int
    BY <1>3 DEF d
  <2> DEFINE ke == k * e
  <2> HIDE DEF ke
  <2> QED
    BY <1>1, <1>2, <1>4, <2>2, <2>3 DEF ke
<1>7. e < area /\ e >= -area
  BY <1>3, <1>5, <1>6
<1> DEFINE p == q * area
<1>8. p \in Nat /\ (2 * q - 1) * area = 2 * p - area /\ (2 * q + 1) * area = 2 * p + area
  BY <1>2
<1>9. e = 2 * (a - p)
  BY DEF e
<1> HIDE DEF p
<1> QED
  BY <1>7, <1>8, <1>9 DEF Rounded

-----------------------------------------------------------------------------
IsArea(given) ==
    IsGray(given.image) /\ given.dw \in Nat \ {0} /\ given.dh \in Nat \ {0}

Cells(given) == (0..given.dw - 1) \X (0..given.dh - 1)

LEMMA DirectIs ==
    ASSUME NEW given, IsArea(given), ~UsesGrid(given.image, given.dw, given.dh), Representable(given),
           NEW c \in 0..given.dw - 1, NEW r \in 0..given.dh - 1
    PROVE  Rounded(ExactSum(given.image, <<c, r>>, given.dw, given.dh), given.image.width * given.image.height,
                   AreaDownscale(given.image, given.dw, given.dh)[<<c, r>>])
<1> DEFINE image == given.image  dw == given.dw  dh == given.dh  area == image.width * image.height
     a == ExactSum(image, <<c, r>>, dw, dh)  q == AreaDownscale(image, dw, dh)[<<c, r>>]
<1>1. IsGray(image) /\ dw \in Nat \ {0} /\ dh \in Nat \ {0} /\ c \in 0..dw - 1 /\ r \in 0..dh - 1
  BY DEF IsArea
<1>2. image.width * dw <= SizeMax /\ image.height * dh <= SizeMax
  BY DEF Representable
<1>3. area \in Nat \ {0}
  BY DEF IsGray, IsArea
<1>4. CellSumIs(image, c, r, dw, dh) /\ ExactIs(image, c, r, dw, dh)
  <2> HIDE DEF image, dw, dh
  <2> QED
    BY ONLY <1>1, <1>2, CellSum, ExactSumIs
<1>5. AreaSums(image, dw, dh)[<<c, r>>] = a /\ a \in Nat
  BY <1>4 DEF CellSumIs, ExactIs
<1>6. q = AreaRound(AreaSums(image, dw, dh)[<<c, r>>], area)
  <2>1. AreaDownscale(image, dw, dh) = Direct(image, dw, dh)
    BY DEF AreaDownscale
  <2>2. <<c, r>> \in DOMAIN AreaSums(image, dw, dh)
    BY DEF AreaSums
  <2> QED
    BY <2>1, <2>2 DEF Direct
<1> HIDE DEF a, q, area
<1>7. q = AreaRound(1 * a, area * 1)
  BY <1>3, <1>5, <1>6
<1>8. Rounded(a, area, q)
  <2>1. 1 \in Nat \ {0}
    OBVIOUS
  <2> QED
    BY ONLY <1>3, <1>5, <1>7, <2>1, RoundedToScale
<1> QED
  BY <1>8 DEF a, area, q

LEMMA FromGridIs ==
    ASSUME NEW given, IsArea(given), UsesGrid(given.image, given.dw, given.dh), Representable(given),
           NEW c \in 0..given.dw - 1, NEW r \in 0..given.dh - 1
    PROVE  Rounded(ExactSum(given.image, <<c, r>>, given.dw, given.dh), given.image.width * given.image.height,
                   AreaDownscale(given.image, given.dw, given.dh)[<<c, r>>])
<1> DEFINE image == given.image  dw == given.dw  dh == given.dh  area == image.width * image.height
     a == ExactSum(image, <<c, r>>, dw, dh)  q == AreaDownscale(image, dw, dh)[<<c, r>>]
     kx == Grid \div dw  ky == Grid \div dh  k == kx * ky
     C == FineCells(c, r, kx, ky)  f == [cell \in C |-> AreaSums(image, Grid, Grid)[cell]]
<1>1. IsGray(image) /\ dw \in Nat \ {0} /\ dh \in Nat \ {0} /\ c \in 0..dw - 1 /\ r \in 0..dh - 1
  BY DEF IsArea
<1>2. image.width * Grid <= SizeMax /\ image.height * Grid <= SizeMax
  BY DEF Representable
<1>3. area \in Nat \ {0} /\ image.width \in Nat \ {0} /\ image.height \in Nat \ {0}
  BY DEF IsGray, IsArea
<1>4. Grid \in Nat \ {0}
  BY GridAssumption
<1>5. ASSUME NEW n \in Nat \ {0}, Grid % n = 0 PROVE Grid = n * (Grid \div n) /\ Grid \div n \in Nat \ {0}
  <2> DEFINE o == Grid \div n  m == Grid % n
  <2>1. o \in Nat /\ Grid = n * o + m
    BY <1>4
  <2> HIDE DEF o, m
  <2>2. m = 0
    BY <1>5 DEF m
  <2>3. Grid = n * o
    BY <2>1, <2>2
  <2>4. o # 0
    BY <1>4, <2>3
  <2> QED
    BY <2>1, <2>3, <2>4 DEF o
<1>6. Grid = dw * kx /\ kx \in Nat \ {0} /\ Grid = dh * ky /\ ky \in Nat \ {0}
  <2>1. Grid % dw = 0 /\ Grid % dh = 0
    BY DEF UsesGrid
  <2> QED
    BY ONLY <1>1, <1>5, <2>1
<1>7. SumToScale(image, c, r, dw, dh, kx, ky, Grid) /\ ExactIs(image, c, r, dw, dh)
  <2> HIDE DEF image, dw, dh, kx, ky
  <2> QED
    BY ONLY <1>1, <1>2, <1>4, <1>6, GridSum, ExactSumIs
<1>8. Added(f) = k * a /\ a \in Nat
  BY <1>7 DEF SumToScale, ExactIs
<1>9. q = AreaRound(Added(f), DenOfGrid(image, kx, ky))
  <2>1. AreaDownscale(image, dw, dh) = FromGrid(image, dw, dh)
    BY DEF AreaDownscale
  <2>2. <<c, r>> \in (0..dw - 1) \X (0..dh - 1)
    OBVIOUS
  <2> QED
    BY <2>1, <2>2 DEF FromGrid, FineCells, Finer
<1>10. DenOfGrid(image, kx, ky) = area * k
  <2> HIDE DEF kx, ky
  <2> QED
    BY ONLY <1>3, <1>6 DEF DenOfGrid, area, k
<1>11. k \in Nat \ {0}
  <2> HIDE DEF kx, ky
  <2> QED
    BY ONLY <1>6 DEF k
<1> HIDE DEF a, q, area, k, f
<1>12. Rounded(a, area, q)
  <2>1. q = AreaRound(k * a, area * k)
    BY <1>8, <1>9, <1>10
  <2> QED
    BY ONLY <1>3, <1>8, <1>11, <2>1, RoundedToScale
<1> QED
  BY <1>12 DEF a, area, q

LEMMA DownscaleIsMean ==
    ASSUME NEW given, IsArea(given), Representable(given), NEW answer,
           answer = AreaDownscale(given.image, given.dw, given.dh)
    PROVE  IsMean(given, answer)
<1>1. DOMAIN answer = Cells(given)
  BY DEF AreaDownscale, FromGrid, Direct, AreaSums, Cells
<1>2. ASSUME NEW cell \in Cells(given)
      PROVE  Rounded(ExactSum(given.image, cell, given.dw, given.dh), given.image.width * given.image.height, answer[cell])
  <2>1. PICK c \in 0..given.dw - 1, r \in 0..given.dh - 1 : cell = <<c, r>>
    BY DEF Cells
  <2> QED
    BY <2>1, DirectIs, FromGridIs
<1> QED
  BY <1>1, <1>2 DEF IsMean, Rounded

-----------------------------------------------------------------------------
\* One call after another, of an image of any size and a grid of any.
AreaNext ==
    \/ \E w, h, dw, dh \in Nat \ {0} : \E pixel \in [(0..w - 1) \X (0..h - 1) -> 0..255] :
          Downscale([width |-> w, height |-> h, pixel |-> pixel], dw, dh)
    \/ Forget

AreaSpec == call = NoCall /\ [][AreaNext]_call

\* Whatever the image and the grid, and whether the cells are summed for this size or
\* read from the sums of the fine grid: every cell of ph_area_downscale() holds the exact
\* mean of the area under it, rounded half up, if the positions along an axis are size_t
\* values.
THEOREM MeansAreAlwaysExact == AreaSpec => []MeansAreExact
<1>1. call = NoCall => MeansAreExact
  BY DEF NoCall, MeansAreExact
<1>2. MeansAreExact /\ [AreaNext]_call => MeansAreExact'
  <2> SUFFICES ASSUME MeansAreExact, [AreaNext]_call PROVE MeansAreExact'
    OBVIOUS
  <2>1. ASSUME NEW w \in Nat \ {0}, NEW h \in Nat \ {0}, NEW dw \in Nat \ {0}, NEW dh \in Nat \ {0},
               NEW pixel \in [(0..w - 1) \X (0..h - 1) -> 0..255],
               Downscale([width |-> w, height |-> h, pixel |-> pixel], dw, dh)
        PROVE  MeansAreExact'
    <3> DEFINE image == [width |-> w, height |-> h, pixel |-> pixel]
               given == [image |-> image, dw |-> dw, dh |-> dh]  answer == AreaDownscale(image, dw, dh)
    <3>1. call' = [what |-> "area", given |-> given, answer |-> answer]
      BY <2>1 DEF Downscale, Answer
    <3>2. IsArea(given)
      <4>1. pixel \in [(0..w - 1) \X (0..h - 1) -> Nat]
        OBVIOUS
      <4> QED
        BY <4>1 DEF IsArea, IsGray, Positions
    <3>3. Representable(given) => IsMean(given, answer)
      <4>1. answer = AreaDownscale(given.image, given.dw, given.dh)
        OBVIOUS
      <4> HIDE DEF given, answer
      <4> QED
        BY <3>2, <4>1, DownscaleIsMean
    <3> HIDE DEF given, answer
    <3>4. call'.what = "area" /\ call'.given = given /\ call'.answer = answer
      BY <3>1
    <3> QED
      BY <3>3, <3>4 DEF MeansAreExact
  <2>2. CASE Forget
    BY <2>2 DEF Forget, NoCall, MeansAreExact
  <2>3. CASE UNCHANGED call
    BY <2>3 DEF MeansAreExact
  <2> QED
    BY <2>1, <2>2, <2>3 DEF AreaNext
<1> QED
  BY <1>1, <1>2, PTL DEF AreaSpec

-----------------------------------------------------------------------------
\* Exif.  The directory: an entry is looked at if it is stated and there.
IsTiff(tiff) ==
    /\ tiff.length \in Nat /\ tiff.offset \in Nat /\ tiff.stated \in Nat
    /\ \E n \in Nat : DOMAIN tiff.entries = 1..n
    /\ HasDirectory(tiff) => \A k \in 1..Entries(tiff) : k \in DOMAIN tiff.entries

LEMMA EntriesAre ==
    ASSUME NEW tiff, IsTiff(tiff), HasDirectory(tiff), NEW k \in Nat \ {0}
    PROVE  k \in 1..Entries(tiff) <=> (k <= tiff.stated /\ tiff.offset + 2 + EntrySize * k <= tiff.length)
<1> DEFINE room == tiff.length - tiff.offset - 2  s == tiff.stated  there == room \div 12
<1>1. room \in Nat /\ s \in Nat /\ there \in Nat /\ tiff.length \in Nat /\ tiff.offset \in Nat
  BY DEF IsTiff, HasDirectory
<1> HIDE DEF room
<1>2. k <= there <=> k * 12 <= room
  BY <1>1, QuotientBound
<1>3. s <= there <=> s * 12 <= room
  BY <1>1, QuotientBound
<1>4. Entries(tiff) = IF s * 12 > room THEN there ELSE s
  BY DEF Entries, EntriesThere, EntrySize, room
<1> HIDE DEF there, s
<1>5. k \in 1..Entries(tiff) <=> (k <= s /\ k * 12 <= room)
  BY ONLY <1>1, <1>2, <1>3, <1>4, k \in Nat \ {0}
<1>6. k * 12 <= room <=> tiff.offset + 2 + EntrySize * k <= tiff.length
  BY <1>1 DEF room, EntrySize
<1> QED
  BY <1>5, <1>6 DEF s

TiffIsRight(tiff) ==
    LET value == TagValue(tiff) IN TiffOrientation(tiff) = (IF value \in 1..8 THEN value ELSE 1)

LEMMA TiffIs == ASSUME NEW tiff, IsTiff(tiff) PROVE TiffIsRight(tiff)
<1> DEFINE D == DOMAIN tiff.entries  found == {k \in 1..Entries(tiff) : Conforms(tiff.entries[k])}
     There(k) == /\ Conforms(tiff.entries[k]) /\ (\A j \in 1..k - 1 : ~Conforms(tiff.entries[j]))
                 /\ k <= tiff.stated /\ tiff.offset + 2 + EntrySize * k <= tiff.length
<1>1. TagValue(tiff) = IF HasDirectory(tiff) /\ \E k \in D : There(k)
                       THEN tiff.entries[CHOOSE k \in D : There(k)].value ELSE 1
  BY DEF TagValue, First
<1>2. CASE ~HasDirectory(tiff)
  BY <1>1, <1>2 DEF TiffIsRight, TiffOrientation
<1>3. CASE HasDirectory(tiff)
  <2>1. PICK n \in Nat : D = 1..n
    BY DEF IsTiff
  <2>2. \A k \in 1..Entries(tiff) : k \in D
    BY <1>3 DEF IsTiff
  <2>3. \A k \in D : k \in 1..Entries(tiff) <=> (k <= tiff.stated /\ tiff.offset + 2 + EntrySize * k <= tiff.length)
    <3>1. \A k \in D : k \in Nat \ {0}
      BY <2>1
    <3> QED
      BY ONLY <1>3, <3>1, EntriesAre, IsTiff(tiff)
  <2>4. CASE found = {}
    <3>1. ~(\E k \in D : There(k))
      BY <2>3, <2>4
    <3>2. TiffOrientation(tiff) = 1
      BY <1>3, <2>4 DEF TiffOrientation
    <3>3. TagValue(tiff) = 1
      BY <1>1, <3>1
    <3> QED
      BY <3>2, <3>3 DEF TiffIsRight
  <2>5. CASE found # {}
    <3> DEFINE least == Min(found)
    <3>1. found \subseteq Nat
      BY <2>1, <2>2
    <3>2. least \in found /\ \A y \in found : least <= y
      <4> HIDE DEF found
      <4> QED
        BY <2>5, <3>1, SmallestExists
    <3> HIDE DEF least
    <3>3. least \in D /\ least \in 1..Entries(tiff) /\ Conforms(tiff.entries[least]) /\ least \in Nat
      BY <2>2, <3>1, <3>2
    <3>4. \A j \in 1..least - 1 : ~Conforms(tiff.entries[j])
      <4> SUFFICES ASSUME NEW j \in 1..least - 1, Conforms(tiff.entries[j]) PROVE FALSE
        OBVIOUS
      <4>1. j \in D /\ j < least
        BY <2>1, <3>3
      <4>2. j \in 1..Entries(tiff)
        <5>1. j \in Nat \ {0} /\ j <= tiff.stated /\ tiff.offset + 2 + EntrySize * j <= tiff.length
          <6>1. least <= tiff.stated /\ tiff.offset + 2 + EntrySize * least <= tiff.length
            BY <2>3, <3>3
          <6>2. tiff.stated \in Nat /\ tiff.offset \in Nat /\ tiff.length \in Nat
            BY DEF IsTiff
          <6>3. j \in Nat \ {0}
            BY <2>1, <4>1
          <6>4. 12 * j <= 12 * least
            BY ONLY <3>3, <4>1, <6>3
          <6> QED
            BY ONLY <3>3, <4>1, <6>1, <6>2, <6>3, <6>4 DEF EntrySize
        <5> QED
          BY <2>3, <4>1, <5>1
      <4>3. j \in found
        BY <4>2
      <4> QED
        BY <3>2, <3>3, <4>1, <4>3
    <3>5. There(least)
      BY <2>3, <3>3, <3>4
    <3>6. ASSUME NEW k \in D, There(k) PROVE k = least
      <4>1. k \in Nat \ {0} /\ least \in Nat \ {0}
        BY <2>1, <3>3
      <4>2. ~(k < least)
        BY <3>4, <3>6, <4>1
      <4>3. ~(least < k)
        BY <3>3, <3>6, <4>1
      <4> QED
        BY <4>1, <4>2, <4>3
    <3> HIDE DEF There
    <3>7. (CHOOSE k \in D : There(k)) = least
      BY <3>3, <3>5, <3>6
    <3>8. TagValue(tiff) = tiff.entries[least].value
      BY <1>1, <1>3, <3>3, <3>5, <3>7
    <3>9. TiffOrientation(tiff) = LET value == tiff.entries[least].value IN IF value \in 1..8 THEN value ELSE 1
      BY <1>3, <2>5 DEF TiffOrientation, least
    <3> QED
      BY <3>8, <3>9 DEF TiffIsRight
  <2> QED
    BY <2>4, <2>5
<1> QED
  BY <1>2, <1>3

-----------------------------------------------------------------------------
\* Where things stand that follow one another.
Follow(f, m, base, w) == (m > 0 => f[1] = base) /\ \A k \in 1..m - 1 : f[k + 1] = f[k] + w[k]

LEMMA FollowExists ==
    ASSUME NEW m \in Nat, NEW base \in Nat, NEW w \in [1..m -> Nat]
    PROVE  \E f \in [1..m -> Nat] : Follow(f, m, base, w)
<1> DEFINE D == 1..m  step == [k \in D |-> [g \in [D -> Nat] |-> IF k = 1 THEN base ELSE g[k - 1] + w[k - 1]]]
     q == [k \in D |-> k]
<1>1. step \in [D -> [[D -> Nat] -> Nat]]
  OBVIOUS
<1>2. \A k \in D : \A g, h \in [D -> Nat] : (\A j \in D : q[j] < q[k] => g[j] = h[j]) => step[k][g] = step[k][h]
  OBVIOUS
<1>3. PICK f \in [D -> Nat] : f = [k \in D |-> step[k][f]]
  <2>1. q \in [D -> 0..m]
    OBVIOUS
  <2> HIDE DEF D, step, q
  <2>2. Recursive(D, Nat, q, step)
    BY <1>1, <1>2 DEF Recursive
  <2> QED
    BY <2>1, <2>2, RecursionExists
<1>4. \A k \in D : f[k] = IF k = 1 THEN base ELSE f[k - 1] + w[k - 1]
  BY <1>3
<1>5. Follow(f, m, base, w)
  BY <1>4 DEF Follow
<1> QED
  BY <1>5

\* It is enough that each place follows from a number before it.
LEMMA FollowTyped ==
    ASSUME NEW m \in Nat, NEW base \in Nat, NEW w \in [1..m -> Nat], NEW f,
           m > 0 => f[1] = base, \A k \in 1..m - 1 : f[k] \in Nat => f[k + 1] = f[k] + w[k]
    PROVE  Follow(f, m, base, w) /\ \A k \in 1..m : f[k] \in Nat
<1> DEFINE D == 1..m  q == [k \in D |-> k]  S == {k \in D : f[k] \in Nat}
<1>1. \A k \in D : k \in S
  <2>1. q \in [D -> Nat]
    OBVIOUS
  <2>2. ASSUME NEW k \in D, \A j \in D : q[j] < q[k] => j \in S PROVE k \in S
    <3>1. CASE k = 1
      BY <3>1
    <3>2. CASE k # 1
      <4>1. k - 1 \in 1..m - 1 /\ k - 1 \in D /\ (k - 1) + 1 = k
        BY <3>2
      <4>2. f[k - 1] \in Nat
        BY <2>2, <4>1
      <4>3. f[k] = f[k - 1] + w[k - 1]
        BY <4>1, <4>2
      <4> QED
        BY <4>1, <4>2, <4>3
    <3> QED
      BY <3>1, <3>2
  <2> HIDE DEF D, S, q
  <2> QED
    BY <2>1, <2>2, Inductively
<1> QED
  BY <1>1 DEF Follow

LEMMA FollowGrows ==
    ASSUME NEW m \in Nat, NEW base, NEW w \in [1..m -> Nat], NEW f, Follow(f, m, base, w),
           \A k \in 1..m : f[k] \in Nat
    PROVE  \A j, k \in 1..m : j < k => f[j] + w[j] <= f[k]
<1> SUFFICES ASSUME NEW j \in 1..m PROVE \A k \in 1..m : j < k => f[j] + w[j] <= f[k]
  OBVIOUS
<1> DEFINE D == 1..m  q == [k \in D |-> k]  S == {k \in D : j < k => f[j] + w[j] <= f[k]}
<1>1. \A k \in D : k \in S
  <2>1. q \in [D -> Nat]
    OBVIOUS
  <2>2. ASSUME NEW k \in D, \A i \in D : q[i] < q[k] => i \in S PROVE k \in S
    <3>1. CASE k <= j
      BY <3>1
    <3>2. CASE k = j + 1
      <4>1. f[j + 1] = f[j] + w[j]
        BY <3>2 DEF Follow
      <4> QED
        BY <3>2, <4>1
    <3>3. CASE j + 1 < k
      <4>1. k - 1 \in 1..m - 1 /\ k - 1 \in D /\ (k - 1) + 1 = k /\ j < k - 1
        BY <3>3
      <4>2. f[j] + w[j] <= f[k - 1]
        BY <2>2, <4>1
      <4>3. f[k] = f[k - 1] + w[k - 1]
        BY <4>1 DEF Follow
      <4>4. f[j] \in Nat /\ w[j] \in Nat /\ f[k - 1] \in Nat /\ w[k - 1] \in Nat /\ f[k] \in Nat
        BY <4>1
      <4> DEFINE a == f[j]  b == w[j]  c == f[k - 1]  d == w[k - 1]  e == f[k]
      <4>5. a + b <= e
        <5> HIDE DEF a, b, c, d, e
        <5> QED
          BY <4>2, <4>3, <4>4 DEF a, b, c, d, e
      <4> QED
        BY <4>5
    <3> QED
      BY <3>1, <3>2, <3>3
  <2> HIDE DEF D, S, q
  <2> QED
    BY <2>1, <2>2, Inductively
<1> QED
  BY <1>1

-----------------------------------------------------------------------------
\* The chunks: one walk for both containers, that ends at what is in `stops` and else
\* advances by adv[k].
IsChunked(file) ==
    file.chunks \in Seq([type : STRING, length : Nat, marked : BOOLEAN]) /\ file.bytes \in Nat

LEMMA ChunksAre ==
    ASSUME NEW file, IsChunked(file)
    PROVE  /\ Len(file.chunks) \in Nat /\ DOMAIN file.chunks = 1..Len(file.chunks) /\ file.bytes \in Nat
           /\ \A k \in 1..Len(file.chunks) : file.chunks[k].length \in Nat
<1> DEFINE c == file.chunks
<1>1. c \in Seq([type : STRING, length : Nat, marked : BOOLEAN]) /\ file.bytes \in Nat
  BY DEF IsChunked
<1> HIDE DEF c
<1>2. Len(c) \in Nat /\ DOMAIN c = 1..Len(c)
  BY <1>1, LenProperties
<1>3. \A k \in 1..Len(c) : c[k] \in [type : STRING, length : Nat, marked : BOOLEAN]
  BY <1>1, ElementOfSeq
<1>4. \A k \in 1..Len(c) : c[k].length \in Nat
  BY <1>3
<1> QED
  BY <1>1, <1>2, <1>4 DEF c

Reached(file) == (1..Len(file.chunks) + 1) \X Nat

ChunkStep(file, wanted, stops, adv, at, f) ==
    IF at[1] > Len(file.chunks) \/ at[2] + 8 > file.bytes THEN NoBlock
    ELSE IF file.chunks[at[1]].length > file.bytes - (at[2] + 8) THEN NoBlock
    ELSE IF file.chunks[at[1]].type = wanted THEN Unmarked(file.chunks[at[1]], at[2] + 8)
    ELSE IF at \in stops THEN NoBlock ELSE f[<<at[1] + 1, at[2] + adv[at[1]]>>]

Somewhere == [start : Int, length : Int]

CanWalk(file, wanted, stops, adv) ==
    \E f \in [Reached(file) -> Somewhere] :
        f = [at \in Reached(file) |-> ChunkStep(file, wanted, stops, adv, at, f)]

LEMMA ChunkWalkExists ==
    ASSUME NEW file, IsChunked(file), NEW adv \in [1..Len(file.chunks) + 1 -> Nat], NEW wanted, NEW stops
    PROVE  CanWalk(file, wanted, stops, adv)
<1> DEFINE N == Len(file.chunks)  D == Reached(file)  V == Somewhere
     Body(at, f) == ChunkStep(file, wanted, stops, adv, at, f)
     step == [at \in D |-> [f \in [D -> V] |-> Body(at, f)]]
     m == [at \in D |-> (N + 1) - at[1]]
<1>1. N \in Nat /\ \A k \in 1..N : file.chunks[k].length \in Nat
  BY ChunksAre
<1>2. MarkLength \in Nat
  BY ExifAssumption, LenProperties DEF MarkLength
<1>3. ASSUME NEW at \in D
      PROVE  /\ at[1] \in 1..N + 1 /\ at[2] \in Nat
             /\ at[1] <= N => /\ <<at[1] + 1, at[2] + adv[at[1]]>> \in D
                              /\ m[<<at[1] + 1, at[2] + adv[at[1]]>>] < m[at]
  <2>1. at[1] \in 1..N + 1 /\ at[2] \in Nat
    BY DEF Reached
  <2>2. ASSUME at[1] <= N
        PROVE  <<at[1] + 1, at[2] + adv[at[1]]>> \in D /\ m[<<at[1] + 1, at[2] + adv[at[1]]>>] < m[at]
    <3> DEFINE to == <<at[1] + 1, at[2] + adv[at[1]]>>
    <3>1. adv[at[1]] \in Nat
      BY <2>1
    <3>2. to \in D /\ to[1] = at[1] + 1
      BY <1>1, <2>1, <2>2, <3>1 DEF Reached
    <3>3. m[to] = (N + 1) - to[1] /\ m[at] = (N + 1) - at[1]
      BY <3>2
    <3> HIDE DEF to, m
    <3>4. m[to] < m[at]
      BY <1>1, <2>1, <3>2, <3>3
    <3> QED
      BY <3>2, <3>4 DEF to
  <2> QED
    BY ONLY <2>1, <2>2
<1>4. step \in [D -> [[D -> V] -> V]]
  <2>1. ASSUME NEW at \in D, NEW f \in [D -> V] PROVE Body(at, f) \in V
    <3>1. at[1] \in 1..N + 1 /\ at[2] \in Nat
      BY <1>3
    <3>2. at[1] <= N => f[<<at[1] + 1, at[2] + adv[at[1]]>>] \in V
      BY <1>3
    <3>3. NoBlock \in V
      BY DEF NoBlock, Somewhere
    <3>4. at[1] <= N => Unmarked(file.chunks[at[1]], at[2] + 8) \in V
      <4> SUFFICES ASSUME at[1] <= N PROVE Unmarked(file.chunks[at[1]], at[2] + 8) \in V
        OBVIOUS
      <4> DEFINE c == file.chunks[at[1]]  i == at[2] + 8
      <4>1. c.length \in Nat /\ i \in Nat
        BY <1>1, <3>1
      <4> HIDE DEF c, i
      <4>2. Unmarked(c, i) \in Somewhere
        BY <1>2, <4>1 DEF Unmarked, Somewhere
      <4> QED
        BY <4>2 DEF c, i
    <3>5. ~(at[1] > N) => at[1] <= N
      BY <1>1, <3>1
    <3> HIDE DEF V, D
    <3> QED
      BY <3>2, <3>3, <3>4, <3>5 DEF ChunkStep
  <2> HIDE DEF Body, D, V
  <2> QED
    BY <2>1
<1>5. ASSUME NEW at \in D, NEW g \in [D -> V], NEW h \in [D -> V], \A o \in D : m[o] < m[at] => g[o] = h[o]
      PROVE  Body(at, g) = Body(at, h)
  <2>1. at[1] <= N => g[<<at[1] + 1, at[2] + adv[at[1]]>>] = h[<<at[1] + 1, at[2] + adv[at[1]]>>]
    <3> HIDE DEF m, D, V
    <3> QED
      BY <1>3, <1>5
  <2>2. at[1] \in 1..N + 1
    BY <1>3
  <2>3. ~(at[1] > N) => at[1] <= N
    BY <1>1, <2>2
  <2> QED
    BY <2>1, <2>3 DEF ChunkStep
<1>6. m \in [D -> 0..N]
  <2>1. ASSUME NEW at \in D PROVE (N + 1) - at[1] \in 0..N
    <3>1. at[1] \in 1..N + 1
      BY <1>3
    <3> QED
      BY <1>1, <3>1
  <2> HIDE DEF D
  <2> QED
    BY <2>1
<1>7. \E f \in [D -> V] : f = [at \in D |-> step[at][f]]
  <2>1. V # {}
    <3>1. NoBlock \in V
      BY DEF NoBlock, Somewhere
    <3> QED
      BY <3>1
  <2>2. \A at \in D : \A g, h \in [D -> V] : (\A o \in D : m[o] < m[at] => g[o] = h[o]) => step[at][g] = step[at][h]
    <3>1. \A at \in D : \A g \in [D -> V] : step[at][g] = Body(at, g)
      BY DEF Body
    <3> HIDE DEF step, m, Body, D, V
    <3> QED
      BY <1>5, <3>1
  <2> HIDE DEF D, V, step, m, N
  <2>3. Recursive(D, V, m, step)
    BY <1>4, <2>1, <2>2 DEF Recursive
  <2> QED
    BY <1>1, <1>6, <2>3, RecursionExists
<1>8. \A at \in D : \A f \in [D -> V] : step[at][f] = Body(at, f)
  BY DEF Body
<1> HIDE DEF step, Body, D, V
<1> QED
  BY <1>7, <1>8 DEF Body, D, V, CanWalk

-----------------------------------------------------------------------------
\* What the walk must agree on with where the payloads start.
AgreesWith(file, start, wanted, closing, stops, adv, s) ==
    LET N == Len(file.chunks) IN
    /\ s \in [1..N + 1 -> Nat] /\ Follow(s, N + 1, s[1], adv) /\ adv \in [1..N + 1 -> Nat]
    /\ \A k \in 1..N : start[k] = s[k] + 8 /\ adv[k] >= 8 + file.chunks[k].length
    /\ wanted \notin closing
    /\ \A k \in 1..N :
          IF <<k, s[k]>> \in stops
          THEN \/ file.chunks[k].type \in closing
               \/ \A j \in k + 1..N : start[j] + file.chunks[j].length > file.bytes
          ELSE file.chunks[k].type \notin closing

WholeAt(file, start, wanted, closing, k) ==
    /\ file.chunks[k].type = wanted /\ \A j \in 1..k - 1 : file.chunks[j].type # wanted
    /\ start[k] + file.chunks[k].length <= file.bytes
    /\ \A j \in 1..k : file.chunks[j].type \notin closing

LEMMA ChunkBlockIs ==
    ASSUME NEW file, IsChunked(file), NEW start, NEW wanted, NEW closing
    PROVE  /\ (\A k \in 1..Len(file.chunks) : ~WholeAt(file, start, wanted, closing, k))
                  => ChunkBlock(file, start, wanted, closing) = NoBlock
           /\ \A k \in 1..Len(file.chunks) : WholeAt(file, start, wanted, closing, k)
                  => ChunkBlock(file, start, wanted, closing) = Unmarked(file.chunks[k], start[k])
<1> DEFINE N == Len(file.chunks)  W(k) == WholeAt(file, start, wanted, closing, k)
<1>1. N \in Nat /\ DOMAIN file.chunks = 1..N
  BY ChunksAre
<1>2. ChunkBlock(file, start, wanted, closing) =
          IF \E k \in 1..N : W(k)
          THEN LET k == CHOOSE k \in 1..N : W(k) IN Unmarked(file.chunks[k], start[k]) ELSE NoBlock
  BY <1>1 DEF ChunkBlock, First, WholeAt
<1>3. ASSUME NEW k \in 1..N, W(k), NEW j \in 1..N, W(j) PROVE j = k
  <2>1. ~(j < k)
    BY <1>3 DEF WholeAt
  <2>2. ~(k < j)
    BY <1>3 DEF WholeAt
  <2> QED
    BY <2>1, <2>2
<1> HIDE DEF W
<1>4. ASSUME NEW k \in 1..N, W(k) PROVE (CHOOSE j \in 1..N : W(j)) = k
  BY <1>3, <1>4
<1> QED
  BY <1>2, <1>4 DEF W

\* The walk, from the first chunk that is not behind it.
LEMMA ChunkWalkFinds ==
    ASSUME NEW file, IsChunked(file), NEW start, NEW wanted, NEW closing, NEW stops, NEW adv, NEW s,
           AgreesWith(file, start, wanted, closing, stops, adv, s), NEW f,
           \A at \in Reached(file) : f[at] = ChunkStep(file, wanted, stops, adv, at, f)
    PROVE  f[<<1, s[1]>>] = ChunkBlock(file, start, wanted, closing)
<1> DEFINE N == Len(file.chunks)  n == file.bytes  D == 1..N + 1  length(k) == file.chunks[k].length
     W(k) == WholeAt(file, start, wanted, closing, k)  block == ChunkBlock(file, start, wanted, closing)
     Behind(k) == \A j \in 1..k - 1 : file.chunks[j].type # wanted /\ file.chunks[j].type \notin closing
     S == {k \in D : Behind(k) => f[<<k, s[k]>>] = block}  m == [k \in D |-> (N + 1) - k]
<1>1. N \in Nat /\ n \in Nat /\ \A k \in 1..N : length(k) \in Nat
  BY ChunksAre
<1>2. s \in [D -> Nat] /\ adv \in [D -> Nat] /\ Follow(s, N + 1, s[1], adv)
  BY DEF AgreesWith
<1>3. \A k \in 1..N : start[k] = s[k] + 8 /\ adv[k] >= 8 + length(k)
  BY DEF AgreesWith
<1>4. \A j, k \in D : j < k => s[j] + adv[j] <= s[k]
  <2>1. N + 1 \in Nat /\ \A k \in 1..N + 1 : s[k] \in Nat
    BY <1>1, <1>2
  <2> QED
    BY ONLY <1>2, <2>1, FollowGrows
<1>5. (\A k \in 1..N : ~W(k)) => block = NoBlock
  BY ChunkBlockIs
<1>6. ASSUME NEW k \in 1..N, W(k) PROVE block = Unmarked(file.chunks[k], start[k])
  BY <1>6, ChunkBlockIs
<1>7. ASSUME NEW k \in D PROVE f[<<k, s[k]>>] = ChunkStep(file, wanted, stops, adv, <<k, s[k]>>, f)
  <2>1. <<k, s[k]>> \in Reached(file)
    BY <1>2 DEF Reached
  <2> QED
    BY <2>1
\* What is whole is not behind, and what is behind a whole chunk is there.
<1>8. ASSUME NEW k \in D, Behind(k), NEW j \in 1..N, W(j) PROVE k <= j
  BY <1>8 DEF WholeAt
<1>9. ASSUME NEW k \in 1..N, NEW j \in 1..N, k <= j, W(j) PROVE s[k] + 8 <= n /\ length(k) <= n - (s[k] + 8)
  <2>1. s[j] + 8 + length(j) <= n
    <3>1. start[j] + length(j) <= n
      BY <1>9 DEF WholeAt
    <3> QED
      BY <1>3, <3>1
  <2>2. s[k] \in Nat /\ s[j] \in Nat /\ adv[k] \in Nat /\ length(k) \in Nat /\ length(j) \in Nat /\ adv[k] >= 8 + length(k)
    <3>1. k \in D /\ j \in D
      OBVIOUS
    <3> QED
      BY <1>1, <1>2, <1>3, <3>1
  <2>3. k < j => s[k] + adv[k] <= s[j]
    <3>1. k \in D /\ j \in D
      OBVIOUS
    <3> QED
      BY <1>4, <3>1
  <2> DEFINE a == s[k]  b == s[j]  c == adv[k]  d == length(k)  e == length(j)
  <2>4. a \in Nat /\ b \in Nat /\ c \in Nat /\ d \in Nat /\ e \in Nat /\ c >= 8 + d /\ b + 8 + e <= n
    BY <2>1, <2>2
  <2>5. k < j => a + c <= b
    BY <2>3
  <2>6. k = j => a = b /\ d = e
    OBVIOUS
  <2> HIDE DEF a, b, c, d, e, n
  <2>7. a + 8 <= n /\ d <= n - (a + 8)
    BY <1>1, <1>9, <2>4, <2>5, <2>6
  <2> QED
    BY <2>7 DEF a, d
<1>10. ASSUME NEW k \in D, \A j \in D : m[j] < m[k] => j \in S PROVE k \in S
  <2> SUFFICES ASSUME Behind(k) PROVE f[<<k, s[k]>>] = block
    OBVIOUS
  <2> DEFINE i == s[k]
  <2>1. CASE k > N
    <3>1. f[<<k, i>>] = NoBlock
      BY <1>7, <2>1 DEF ChunkStep
    <3>2. \A j \in 1..N : ~W(j)
      BY <1>8, <2>1
    <3> QED
      BY <1>5, <3>1, <3>2
  <2>2. CASE k <= N /\ (i + 8 > n \/ length(k) > n - (i + 8))
    <3>1. f[<<k, i>>] = NoBlock
      <4>1. f[<<k, i>>] = ChunkStep(file, wanted, stops, adv, <<k, i>>, f)
        BY <1>7
      <4> HIDE DEF i
      <4> QED
        BY <2>2, <4>1 DEF ChunkStep
    <3>2. ASSUME NEW j \in 1..N, W(j) PROVE FALSE
      <4>1. k <= j /\ k \in 1..N
        BY <1>8, <2>2, <3>2
      <4>2. i + 8 <= n /\ length(k) <= n - (i + 8)
        BY <1>9, <3>2, <4>1
      <4>3. i \in Nat /\ length(k) \in Nat /\ n \in Nat
        BY <1>1, <1>2, <4>1
      <4> DEFINE a == length(k)
      <4> HIDE DEF i, n, a
      <4> QED
        BY <2>2, <4>2, <4>3 DEF a
    <3> QED
      BY <1>5, <3>1, <3>2
  <2>3. CASE k <= N /\ ~(i + 8 > n) /\ ~(length(k) > n - (i + 8))
    <3>0. k \in 1..N /\ k \in D
      BY <2>3
    <3>1. f[<<k, i>>] = IF file.chunks[k].type = wanted THEN Unmarked(file.chunks[k], i + 8)
                        ELSE IF <<k, i>> \in stops THEN NoBlock ELSE f[<<k + 1, i + adv[k]>>]
      <4>1. f[<<k, i>>] = ChunkStep(file, wanted, stops, adv, <<k, i>>, f)
        BY <1>7
      <4>2. ~(k > N)
        BY <3>0
      <4> HIDE DEF i
      <4> QED
        BY <2>3, <4>1, <4>2 DEF ChunkStep
    <3>2. CASE file.chunks[k].type = wanted
      <4>1. start[k] = i + 8
        BY <1>3, <3>0
      <4>2. start[k] + length(k) <= n
        <5>1. i \in Nat /\ length(k) \in Nat /\ n \in Nat
          BY <1>1, <1>2, <3>0
        <5> DEFINE a == length(k)  b == start[k]
        <5> HIDE DEF i, n, a, b
        <5>2. b = i + 8 /\ a \in Nat /\ ~(a > n - (i + 8))
          BY <2>3, <4>1, <5>1 DEF a, b
        <5>3. b + a <= n
          BY <5>1, <5>2
        <5> QED
          BY <5>3 DEF a, b
      <4>3. wanted \notin closing
        BY DEF AgreesWith
      <4>4. \A j \in 1..k - 1 : file.chunks[j].type # wanted
        OBVIOUS
      <4>5. \A j \in 1..k : file.chunks[j].type \notin closing
        <5> SUFFICES ASSUME NEW j \in 1..k PROVE file.chunks[j].type \notin closing
          OBVIOUS
        <5>1. j = k \/ j \in 1..k - 1
          OBVIOUS
        <5> QED
          BY <3>2, <4>3, <5>1
      <4>6. W(k)
        BY <3>2, <4>2, <4>4, <4>5 DEF WholeAt
      <4> QED
        BY <1>6, <3>0, <3>1, <3>2, <4>1, <4>6
    <3>3. CASE file.chunks[k].type # wanted /\ <<k, i>> \in stops
      <4>1. \/ file.chunks[k].type \in closing
            \/ \A j \in k + 1..N : start[j] + length(j) > n
        BY <3>0, <3>3 DEF AgreesWith
      <4>2. ASSUME NEW j \in 1..N, W(j) PROVE FALSE
        <5>1. k <= j
          BY <1>8, <4>2
        <5>2. j # k
          BY <3>3, <4>2 DEF WholeAt
        <5>3. j \in k + 1..N /\ k \in 1..j
          BY <3>0, <5>1, <5>2
        <5>4. file.chunks[k].type \notin closing /\ start[j] + length(j) <= n
          BY <4>2, <5>3 DEF WholeAt
        <5>5. start[j] + length(j) \in Int
          <6>1. j \in D /\ length(j) \in Nat
            BY <1>1
          <6>2. s[j] \in Nat /\ start[j] = s[j] + 8
            BY <1>2, <1>3, <6>1
          <6> DEFINE a == length(j)  b == s[j]
          <6>3. a \in Nat /\ b \in Nat
            BY <6>1, <6>2
          <6> HIDE DEF a, b
          <6>4. (b + 8) + a \in Int
            BY <6>3
          <6> QED
            BY <6>2, <6>4 DEF a, b
        <5> DEFINE a == start[j] + length(j)
        <5>6. a > n
          BY <4>1, <5>3, <5>4
        <5>7. a <= n /\ a \in Int
          BY <5>4, <5>5
        <5> HIDE DEF a, n
        <5> QED
          BY <1>1, <5>6, <5>7
      <4> QED
        BY <1>5, <3>1, <3>3, <4>2
    <3>4. CASE file.chunks[k].type # wanted /\ <<k, i>> \notin stops
      <4>1. file.chunks[k].type \notin closing
        BY <3>0, <3>4 DEF AgreesWith
      <4>2. s[k + 1] = i + adv[k]
        BY <1>2, <3>0 DEF Follow
      <4>3. k + 1 \in D /\ m[k + 1] < m[k]
        BY <1>1, <3>0
      <4>4. Behind(k + 1)
        <5> SUFFICES ASSUME NEW j \in 1..(k + 1) - 1
                     PROVE  file.chunks[j].type # wanted /\ file.chunks[j].type \notin closing
          OBVIOUS
        <5>1. j = k \/ j \in 1..k - 1
          BY <3>0
        <5> QED
          BY <3>4, <4>1, <5>1
      <4>5. k + 1 \in S
        <5> HIDE DEF S, m
        <5> QED
          BY <1>10, <4>3
      <4>6. f[<<k + 1, s[k + 1]>>] = block
        <5> HIDE DEF Behind, block
        <5> QED
          BY <4>4, <4>5
      <4> QED
        BY <3>1, <3>4, <4>2, <4>6
    <3> QED
      BY <3>2, <3>3, <3>4
  <2> QED
    BY <1>1, <2>1, <2>2, <2>3
<1>11. m \in [D -> Nat]
  BY <1>1
<1>12. 1 \in D /\ Behind(1)
  BY <1>1
<1>13. \A k \in D : k \in S
  <2> HIDE DEF D, S, m
  <2> QED
    BY <1>10, <1>11, Inductively
<1> QED
  <2>1. 1 \in S
    <3> HIDE DEF D, S
    <3> QED
      BY <1>12, <1>13
  <2> HIDE DEF block, Behind, D
  <2>2. Behind(1) => f[<<1, s[1]>>] = block
    BY <2>1
  <2> QED
    BY <1>12, <2>2 DEF block

-----------------------------------------------------------------------------
\* Where the chunks start.
Advances(file, advance) ==
    [k \in 1..Len(file.chunks) + 1 |-> IF k <= Len(file.chunks) THEN advance[k] ELSE 0]

PngAdvances(png) == Advances(png, [k \in 1..Len(png.chunks) |-> PngAdvance(png.chunks[k])])

StartsFollow(png) ==
    /\ PngAdvances(png) \in [1..Len(png.chunks) + 1 -> Nat]
    /\ Start(png) \in [1..Len(png.chunks) + 1 -> Nat] /\ Start(png)[1] = 8
    /\ Follow(Start(png), Len(png.chunks) + 1, 8, PngAdvances(png))

LEMMA StartsFollowOn == ASSUME NEW png, IsChunked(png) PROVE StartsFollow(png)
<1> DEFINE N == Len(png.chunks)  D == 1..N + 1  w == PngAdvances(png)
     Body(k, f) == IF k = 1 THEN 8 ELSE f[k - 1] + Overhead + png.chunks[k - 1].length
     F == CHOOSE f : f = [k \in D |-> Body(k, f)]
<1>1. N \in Nat /\ \A k \in 1..N : png.chunks[k].length \in Nat
  BY ChunksAre
<1>2. w \in [D -> Nat] /\ \A k \in 1..N : w[k] = Overhead + png.chunks[k].length
  <2>1. \A k \in D : w[k] = IF k <= N THEN 8 + png.chunks[k].length + 4 ELSE 0
    BY DEF PngAdvances, Advances, PngAdvance
  <2>2. w = [k \in D |-> w[k]]
    BY DEF PngAdvances, Advances
  <2> HIDE DEF w
  <2>3. \A k \in D : w[k] \in Nat
    BY <1>1, <2>1
  <2>4. \A k \in 1..N : w[k] = Overhead + png.chunks[k].length
    BY <1>1, <2>1 DEF Overhead
  <2> QED
    BY <2>2, <2>3, <2>4
<1>3. N + 1 \in Nat /\ 8 \in Nat
  BY <1>1
<1> HIDE DEF w
<1>4. PICK f \in [D -> Nat] : Follow(f, N + 1, 8, w)
  BY ONLY <1>2, <1>3, FollowExists
<1>5. f = [k \in D |-> Body(k, f)]
  <2>1. ASSUME NEW k \in D PROVE f[k] = Body(k, f)
    <3>1. CASE k = 1
      BY <1>3, <1>4, <3>1 DEF Follow
    <3>2. CASE k # 1
      <4>1. k - 1 \in 1..N /\ (k - 1) + 1 = k /\ k - 1 \in 1..(N + 1) - 1 /\ k - 1 \in D
        BY <1>1, <3>2
      <4>2. f[k] = f[k - 1] + w[k - 1]
        BY <1>4, <4>1 DEF Follow
      <4>3. f[k - 1] \in Nat /\ w[k - 1] = Overhead + png.chunks[k - 1].length /\ png.chunks[k - 1].length \in Nat
        BY <1>1, <1>2, <4>1
      <4> DEFINE a == f[k - 1]  c == png.chunks[k - 1].length
      <4>4. a \in Nat /\ c \in Nat /\ f[k] = a + (Overhead + c)
        BY <4>2, <4>3
      <4> HIDE DEF a, c
      <4>5. f[k] = a + Overhead + c
        BY <4>4 DEF Overhead
      <4> QED
        BY <3>2, <4>5 DEF a, c
    <3> QED
      BY <3>1, <3>2
  <2> HIDE DEF Body
  <2> QED
    BY <1>4, <2>1
<1>6. F = [k \in D |-> Body(k, F)]
  <2> HIDE DEF Body
  <2> QED
    BY <1>5
<1>7. Start(png) = F
  BY DEF Start
<1>8. \A k \in D : F[k] = Body(k, F)
  <2> HIDE DEF F, Body
  <2> QED
    BY <1>6
<1>9. F = [k \in D |-> F[k]]
  <2> HIDE DEF F, Body
  <2> QED
    BY <1>6
<1> HIDE DEF F
<1>10. F[1] = 8
  BY <1>3, <1>8
<1>11. \A k \in 1..(N + 1) - 1 : F[k] \in Nat => F[k + 1] = F[k] + w[k]
  <2> SUFFICES ASSUME NEW k \in 1..(N + 1) - 1, F[k] \in Nat PROVE F[k + 1] = F[k] + w[k]
    OBVIOUS
  <2>1. k + 1 \in D /\ k + 1 # 1 /\ (k + 1) - 1 = k /\ k \in 1..N
    BY <1>1
  <2>2. F[k + 1] = F[k] + Overhead + png.chunks[k].length
    BY <1>8, <2>1
  <2> DEFINE a == F[k]  c == png.chunks[k].length
  <2>3. a \in Nat /\ c \in Nat /\ w[k] = Overhead + c /\ F[k + 1] = a + Overhead + c
    BY <1>1, <1>2, <2>1, <2>2
  <2> HIDE DEF a, c
  <2>4. F[k + 1] = a + w[k]
    BY <2>3 DEF Overhead
  <2> QED
    BY <2>4 DEF a
<1>12. Follow(F, N + 1, 8, w) /\ \A k \in 1..N + 1 : F[k] \in Nat
  <2>1. N + 1 > 0 => F[1] = 8
    BY <1>10
  <2> QED
    BY ONLY <1>2, <1>3, <1>11, <2>1, FollowTyped
<1> QED
  BY <1>2, <1>7, <1>9, <1>10, <1>12 DEF StartsFollow, w

PngIsRight(png) == PngExif(png) = ChunkBlock(png, PngPayload(png), "eXIf", {"IEND"})

LEMMA PngIs == ASSUME NEW png, IsChunked(png) PROVE PngIsRight(png)
<1> DEFINE N == Len(png.chunks)  n == png.bytes  D == Reached(png)  adv == PngAdvances(png)  s == Start(png)
     stops == {at \in D : at[1] <= N /\ (png.chunks[at[1]].type = "IEND" \/ at[2] + 8 + png.chunks[at[1]].length > n - 4)}
     Body(at, f) ==
        LET k == at[1]
            i == at[2]
        IN  IF k > Len(png.chunks) \/ i + 8 > n THEN NoBlock
            ELSE LET chunk == png.chunks[k] IN
                 IF chunk.length > n - (i + 8) THEN NoBlock
                 ELSE IF chunk.type = "eXIf" THEN Unmarked(chunk, i + 8)
                 ELSE IF chunk.type = "IEND" \/ i + 8 + chunk.length > n - 4 THEN NoBlock
                 ELSE f[<<k + 1, i + PngAdvance(chunk)>>]
     Step(at, f) == ChunkStep(png, "eXIf", stops, adv, at, f)
     F == CHOOSE f : f = [at \in D |-> Body(at, f)]
<1>1. N \in Nat /\ n \in Nat /\ DOMAIN png.chunks = 1..N /\ \A k \in 1..N : png.chunks[k].length \in Nat
  BY ChunksAre
<1>2. /\ adv \in [1..N + 1 -> Nat] /\ s \in [1..N + 1 -> Nat] /\ s[1] = 8 /\ Follow(s, N + 1, s[1], adv)
  BY StartsFollowOn DEF StartsFollow
<1>3. \A k \in 1..N : adv[k] = PngAdvance(png.chunks[k])
  BY <1>1 DEF PngAdvances, Advances
<1>4. PngExif(png) = IF n < 8 THEN NoBlock ELSE F[<<1, 8>>]
  BY DEF PngExif, Reached
<1>5. ASSUME NEW at \in D, NEW f PROVE Body(at, f) = Step(at, f)
  <2>1. at[1] \in 1..N + 1
    BY DEF Reached
  <2>2. ~(at[1] > N) => at[1] <= N /\ adv[at[1]] = PngAdvance(png.chunks[at[1]])
    BY <1>1, <1>3, <2>1
  <2> HIDE DEF D, adv
  <2> QED
    BY <2>2 DEF ChunkStep
<1>6. F = [at \in D |-> Body(at, F)]
  <2>1. PICK f \in [D -> Somewhere] : f = [at \in D |-> Step(at, f)]
    <3> HIDE DEF adv, stops
    <3>1. CanWalk(png, "eXIf", stops, adv)
      BY <1>2, ChunkWalkExists
    <3> QED
      BY <3>1 DEF CanWalk
  <2> HIDE DEF Step, Body, D
  <2>2. [at \in D |-> Step(at, f)] = [at \in D |-> Body(at, f)]
    BY <1>5
  <2> QED
    BY <2>1, <2>2
<1>7. \A at \in D : F[at] = Step(at, F)
  <2> HIDE DEF F, Step, Body, D
  <2> QED
    BY <1>5, <1>6
<1> DEFINE start == PngPayload(png)
<1>8. AgreesWith(png, start, "eXIf", {"IEND"}, stops, adv, s)
  <2>1. \A k \in 1..N : start[k] = s[k] + 8
    BY <1>1 DEF PngPayload
  <2>2. \A k \in 1..N : adv[k] >= 8 + png.chunks[k].length
    BY <1>1, <1>3 DEF PngAdvance
  <2>3. ASSUME NEW k \in 1..N
        PROVE  <<k, s[k]>> \in stops <=>
                  (png.chunks[k].type = "IEND" \/ s[k] + 8 + png.chunks[k].length > n - 4)
    <3> DEFINE i == s[k]
    <3>1. <<k, i>> \in D /\ k <= N
      <4>1. i \in Nat /\ k \in 1..N + 1
        BY <1>1, <1>2
      <4> HIDE DEF i
      <4> QED
        BY <4>1 DEF Reached
    <3> HIDE DEF i, D
    <3>2. <<k, i>> \in stops <=> (png.chunks[k].type = "IEND" \/ i + 8 + png.chunks[k].length > n - 4)
      BY <3>1
    <3> QED
      BY <3>2 DEF i
  <2>4. ASSUME NEW k \in 1..N, s[k] + 8 + png.chunks[k].length > n - 4, NEW j \in k + 1..N
        PROVE  start[j] + png.chunks[j].length > n
    <3>1. j \in 1..N /\ k \in 1..N + 1 /\ j \in 1..N + 1 /\ k < j
      OBVIOUS
    <3>2. s[k] + adv[k] <= s[j]
      <4>1. N + 1 \in Nat /\ \A l \in 1..N + 1 : s[l] \in Nat
        <5>1. N + 1 \in Nat
          BY ONLY <1>1
        <5>2. \A l \in 1..N + 1 : s[l] \in Nat
          BY ONLY <1>2
        <5> QED
          BY ONLY <5>1, <5>2
      <4>2. \A l, o \in 1..N + 1 : l < o => s[l] + adv[l] <= s[o]
        BY ONLY <1>2, <4>1, FollowGrows
      <4> QED
        BY <3>1, <4>2
    <3> DEFINE a == s[k]  b == s[j]  c == png.chunks[k].length  d == png.chunks[j].length
    <3>3. a \in Nat /\ b \in Nat /\ c \in Nat /\ d \in Nat
      BY <1>1, <1>2, <3>1
    <3>4. adv[k] = 8 + c + 4 /\ start[j] = b + 8
      BY <1>3, <2>1, <3>1 DEF PngAdvance
    <3>5. a + 8 + c > n - 4 /\ a + (8 + c + 4) <= b
      BY <2>4, <3>2, <3>4
    <3> HIDE DEF a, b, c, d, n
    <3>6. (b + 8) + d > n
      BY <1>1, <3>3, <3>5
    <3> QED
      BY <3>4, <3>6 DEF d
  <2>5. "eXIf" \notin {"IEND"}
    OBVIOUS
  <2>6. ASSUME NEW k \in 1..N
        PROVE  IF <<k, s[k]>> \in stops
               THEN \/ png.chunks[k].type \in {"IEND"} \/ \A j \in k + 1..N : start[j] + png.chunks[j].length > n
               ELSE png.chunks[k].type \notin {"IEND"}
    <3> HIDE DEF stops, start, s
    <3> QED
      BY <2>3, <2>4
  <2> HIDE DEF stops, start, s, adv
  <2> QED
    BY <1>2, <2>1, <2>2, <2>5, <2>6 DEF AgreesWith
<1> DEFINE block == ChunkBlock(png, start, "eXIf", {"IEND"})
<1>9. F[<<1, s[1]>>] = block
  <2> HIDE DEF F, stops, adv, s, start
  <2> QED
    BY ONLY <1>7, <1>8, ChunkWalkFinds, IsChunked(png) DEF Step, D
<1>10. ASSUME n < 8 PROVE block = NoBlock
  <2>1. ASSUME NEW k \in 1..N, WholeAt(png, start, "eXIf", {"IEND"}, k) PROVE FALSE
    <3> DEFINE a == s[k]  b == png.chunks[k].length
    <3>0. k \in 1..N + 1
      BY <1>1
    <3>1. a \in Nat /\ b \in Nat /\ start[k] = a + 8
      BY <1>1, <1>2, <3>0 DEF PngPayload
    <3>2. start[k] + b <= n
      BY <2>1 DEF WholeAt
    <3>3. (a + 8) + b <= n
      BY <3>1, <3>2
    <3> HIDE DEF a, b, n
    <3> QED
      BY <1>1, <1>10, <3>1, <3>3
  <2> HIDE DEF start
  <2> QED
    BY <2>1, ChunkBlockIs
<1> HIDE DEF F, block
<1> QED
  BY <1>2, <1>4, <1>9, <1>10 DEF PngIsRight, block

-----------------------------------------------------------------------------
\* A chunk of odd length is padded, written as the walk has it and as the format does.
LEMMA PaddedChunk == ASSUME NEW l \in Nat PROVE 8 + l + (l % 2) = 8 + 2 * ((l + 1) \div 2) /\ 8 + l + (l % 2) \in Nat
<1> DEFINE r == l % 2  q == l \div 2
<1>1. r \in 0..1 /\ q \in Nat /\ l = 2 * q + r
  OBVIOUS
<1>2. (l + 1) \div 2 = q + r
  <2> HIDE DEF r, q
  <2>1. CASE r = 0
    <3>1. l + 1 = 2 * q + 1
      BY <1>1, <2>1
    <3>2. (2 * q + 1) \div 2 = q
      BY <1>1
    <3> QED
      BY <1>1, <2>1, <3>1, <3>2
  <2>2. CASE r = 1
    <3>1. l + 1 = 2 * (q + 1)
      BY <1>1, <2>2
    <3>2. (2 * (q + 1)) \div 2 = q + 1
      BY <1>1
    <3> QED
      BY <1>1, <2>2, <3>1, <3>2
  <2> QED
    BY <1>1, <2>1, <2>2
<1> HIDE DEF r, q
<1>3. 8 + l + r = 8 + 2 * (q + r) /\ 8 + l + r \in Nat
  BY <1>1
<1> QED
  BY <1>2, <1>3 DEF r

WebpAdvances(webp) == Advances(webp, [k \in 1..Len(webp.chunks) |-> WebpAdvance(webp.chunks[k])])

\* Where the chunks of a WebP start, s, and their payloads.
PayloadsFollow(webp, s) ==
    /\ WebpAdvances(webp) \in [1..Len(webp.chunks) + 1 -> Nat]
    /\ s \in [1..Len(webp.chunks) + 1 -> Nat] /\ s[1] = 12
    /\ Follow(s, Len(webp.chunks) + 1, 12, WebpAdvances(webp))
    /\ \A k \in 1..Len(webp.chunks) : WebpPayload(webp)[k] = s[k] + 8

LEMMA PayloadsFollowOn == ASSUME NEW webp, IsChunked(webp) PROVE \E s : PayloadsFollow(webp, s)
<1> DEFINE N == Len(webp.chunks)  D == 1..N + 1  w == WebpAdvances(webp)
     Body(k, f) == IF k = 1 THEN 20
                   ELSE LET before == webp.chunks[k - 1].length IN f[k - 1] + 8 + 2 * ((before + 1) \div 2)
     F == CHOOSE f : f = [k \in 1..N |-> Body(k, f)]
<1>1. N \in Nat /\ \A k \in 1..N : webp.chunks[k].length \in Nat
  BY ChunksAre
<1>2. w \in [D -> Nat] /\ \A k \in 1..N : w[k] = 8 + 2 * ((webp.chunks[k].length + 1) \div 2)
  <2>1. \A k \in D : w[k] = IF k <= N THEN WebpAdvance(webp.chunks[k]) ELSE 0
    BY DEF WebpAdvances, Advances
  <2>2. w = [k \in D |-> w[k]]
    BY DEF WebpAdvances, Advances
  <2>3. ASSUME NEW k \in 1..N
        PROVE  /\ WebpAdvance(webp.chunks[k]) = 8 + 2 * ((webp.chunks[k].length + 1) \div 2)
               /\ WebpAdvance(webp.chunks[k]) \in Nat
    BY <1>1, PaddedChunk DEF WebpAdvance
  <2> HIDE DEF w
  <2>4. ASSUME NEW k \in D PROVE w[k] \in Nat
    <3>1. k <= N => k \in 1..N
      BY <1>1
    <3> QED
      BY <2>1, <2>3, <3>1
  <2>5. ASSUME NEW k \in 1..N PROVE w[k] = 8 + 2 * ((webp.chunks[k].length + 1) \div 2)
    <3>1. k \in D /\ k <= N
      BY <1>1
    <3> QED
      BY <2>1, <2>3, <3>1
  <2> QED
    BY <2>2, <2>4, <2>5
<1>3. N + 1 \in Nat /\ 12 \in Nat
  BY <1>1
<1> HIDE DEF w
<1>4. PICK s \in [D -> Nat] : Follow(s, N + 1, 12, w)
  BY ONLY <1>2, <1>3, FollowExists
<1> DEFINE f == [k \in 1..N |-> s[k] + 8]
<1>0. s[1] = 12 /\ \A k \in 1..N : s[k + 1] = s[k] + w[k]
  <2>1. N + 1 > 0 /\ \A k \in 1..N : k \in 1..(N + 1) - 1
    BY <1>1
  <2> QED
    BY <1>4, <2>1 DEF Follow
<1>5. ASSUME NEW k \in 1..N, k # 1, NEW g, g[k - 1] = s[k - 1] + 8 PROVE Body(k, g) = s[k] + 8
  <2>1. k - 1 \in 1..N /\ (k - 1) + 1 = k /\ k - 1 \in D
    BY <1>1, <1>5
  <2>2. s[k] = s[k - 1] + w[k - 1]
    BY <1>0, <2>1
  <2> DEFINE a == s[k - 1]  c == 2 * ((webp.chunks[k - 1].length + 1) \div 2)
  <2>3. a \in Nat /\ w[k - 1] \in Nat /\ w[k - 1] = 8 + c /\ Body(k, g) = g[k - 1] + 8 + c
    BY <1>2, <1>5, <2>1
  <2>4. c \in Int
    BY <1>1, <2>1
  <2> HIDE DEF a, c, Body
  <2>5. (a + 8) + 8 + c = (a + w[k - 1]) + 8
    BY <2>3, <2>4
  <2> QED
    BY <1>5, <2>2, <2>3, <2>5 DEF a
<1>6. f = [k \in 1..N |-> Body(k, f)]
  <2>1. ASSUME NEW k \in 1..N PROVE f[k] = Body(k, f)
    <3>1. CASE k = 1
      BY <1>0, <3>1
    <3>2. CASE k # 1
      <4>1. k - 1 \in 1..N
        BY <1>1, <3>2
      <4>2. f[k - 1] = s[k - 1] + 8
        BY <4>1
      <4>3. Body(k, f) = s[k] + 8
        BY <1>5, <3>2, <4>2
      <4> HIDE DEF Body
      <4> QED
        BY <4>3
    <3> QED
      BY <3>1, <3>2
  <2> HIDE DEF Body
  <2> QED
    BY <2>1
<1>7. F = [k \in 1..N |-> Body(k, F)]
  <2> HIDE DEF Body
  <2> QED
    BY <1>6
<1>8. \A k \in 1..N : F[k] = Body(k, F)
  <2> HIDE DEF F, Body
  <2> QED
    BY <1>7
<1>9. WebpPayload(webp) = F
  BY DEF WebpPayload
<1> HIDE DEF F
<1> DEFINE m == [k \in 1..N |-> k]  S == {k \in 1..N : F[k] = s[k] + 8}
<1>10. \A k \in 1..N : k \in S
  <2>1. m \in [1..N -> Nat]
    OBVIOUS
  <2>2. ASSUME NEW k \in 1..N, \A j \in 1..N : m[j] < m[k] => j \in S PROVE k \in S
    <3>1. CASE k = 1
      BY <1>0, <1>8, <3>1
    <3>2. CASE k # 1
      <4>1. k - 1 \in 1..N /\ m[k - 1] < m[k]
        BY <1>1, <3>2
      <4>2. F[k - 1] = s[k - 1] + 8
        BY <2>2, <4>1
      <4>3. Body(k, F) = s[k] + 8
        BY <1>5, <3>2, <4>2
      <4> HIDE DEF Body
      <4> QED
        BY <1>8, <4>3
    <3> QED
      BY <3>1, <3>2
  <2> DEFINE E == 1..N
  <2>3. m \in [E -> Nat] /\ \A k \in E : (\A j \in E : m[j] < m[k] => j \in S) => k \in S
    BY <2>1, <2>2
  <2> HIDE DEF S, m, E
  <2>4. \A k \in E : k \in S
    BY ONLY <2>3, Inductively
  <2> QED
    BY <2>4 DEF E
<1>11. \A k \in 1..N : F[k] = s[k] + 8
  BY <1>10
<1>12. PayloadsFollow(webp, s)
  BY <1>0, <1>2, <1>4, <1>9, <1>11 DEF PayloadsFollow, w
<1> QED
  BY <1>12

WebpIsRight(webp) == WebpExif(webp) = ChunkBlock(webp, WebpPayload(webp), "EXIF", {})

LEMMA WebpIs == ASSUME NEW webp, IsChunked(webp) PROVE WebpIsRight(webp)
<1> DEFINE N == Len(webp.chunks)  n == webp.bytes  D == Reached(webp)  adv == WebpAdvances(webp)
     Body(at, f) ==
        LET k == at[1]
            i == at[2]
        IN  IF k > Len(webp.chunks) \/ i + 8 > n THEN NoBlock
            ELSE LET chunk == webp.chunks[k] IN
                 IF chunk.length > n - (i + 8) THEN NoBlock
                 ELSE IF chunk.type = "EXIF" THEN Unmarked(chunk, i + 8)
                 ELSE f[<<k + 1, i + WebpAdvance(chunk)>>]
     Step(at, f) == ChunkStep(webp, "EXIF", {}, adv, at, f)
     F == CHOOSE f : f = [at \in D |-> Body(at, f)]
<1>1. N \in Nat /\ n \in Nat /\ DOMAIN webp.chunks = 1..N /\ \A k \in 1..N : webp.chunks[k].length \in Nat
  BY ChunksAre
<1>2. PICK s : PayloadsFollow(webp, s)
  BY PayloadsFollowOn
<1>3. /\ adv \in [1..N + 1 -> Nat] /\ s \in [1..N + 1 -> Nat] /\ s[1] = 12 /\ Follow(s, N + 1, s[1], adv)
      /\ \A k \in 1..N : WebpPayload(webp)[k] = s[k] + 8
  BY <1>2 DEF PayloadsFollow
<1>4. \A k \in 1..N : adv[k] = WebpAdvance(webp.chunks[k])
  BY <1>1 DEF WebpAdvances, Advances
<1>5. WebpExif(webp) = IF n < 12 THEN NoBlock ELSE F[<<1, 12>>]
  BY DEF WebpExif, Reached
<1>6. ASSUME NEW at \in D, NEW f PROVE Body(at, f) = Step(at, f)
  <2>1. at[1] \in 1..N + 1
    BY DEF Reached
  <2>2. ~(at[1] > N) => at[1] <= N /\ adv[at[1]] = WebpAdvance(webp.chunks[at[1]])
    BY <1>1, <1>4, <2>1
  <2> HIDE DEF D, adv
  <2> QED
    BY <2>2 DEF ChunkStep
<1>7. F = [at \in D |-> Body(at, F)]
  <2>1. PICK f \in [D -> Somewhere] : f = [at \in D |-> Step(at, f)]
    <3> HIDE DEF adv
    <3>1. CanWalk(webp, "EXIF", {}, adv)
      BY <1>3, ChunkWalkExists
    <3> QED
      BY <3>1 DEF CanWalk
  <2> HIDE DEF Step, Body, D
  <2>2. [at \in D |-> Step(at, f)] = [at \in D |-> Body(at, f)]
    BY <1>6
  <2> QED
    BY <2>1, <2>2
<1>8. \A at \in D : F[at] = Step(at, F)
  <2> HIDE DEF F, Step, Body, D
  <2> QED
    BY <1>6, <1>7
<1> DEFINE start == WebpPayload(webp)
<1>9. AgreesWith(webp, start, "EXIF", {}, {}, adv, s)
  <2>1. \A k \in 1..N : adv[k] >= 8 + webp.chunks[k].length
    <3> SUFFICES ASSUME NEW k \in 1..N PROVE adv[k] >= 8 + webp.chunks[k].length
      OBVIOUS
    <3> DEFINE l == webp.chunks[k].length
    <3>1. l \in Nat /\ adv[k] = 8 + l + (l % 2)
      BY <1>1, <1>4 DEF WebpAdvance
    <3> HIDE DEF l, adv
    <3>2. l % 2 \in 0..1
      BY <3>1
    <3> QED
      BY <3>1, <3>2 DEF l
  <2>2. \A k \in 1..N : start[k] = s[k] + 8
    BY <1>3
  <2> HIDE DEF start, adv
  <2> QED
    BY <1>3, <2>1, <2>2 DEF AgreesWith
<1> DEFINE block == ChunkBlock(webp, start, "EXIF", {})
<1>10. F[<<1, s[1]>>] = block
  <2> HIDE DEF F, adv, start
  <2> QED
    BY ONLY <1>8, <1>9, ChunkWalkFinds, IsChunked(webp) DEF Step, D
<1>11. ASSUME n < 12 PROVE block = NoBlock
  <2>1. ASSUME NEW k \in 1..N, WholeAt(webp, start, "EXIF", {}, k) PROVE FALSE
    <3> DEFINE a == s[k]  b == webp.chunks[k].length
    <3>0. k \in 1..N + 1
      BY <1>1
    <3>1. a \in Nat /\ b \in Nat /\ start[k] = a + 8
      BY <1>1, <1>3, <3>0
    <3>2. start[k] + b <= n
      BY <2>1 DEF WholeAt
    <3>3. a >= 12
      <4>1. CASE k = 1
        BY <1>3, <4>1
      <4>2. CASE k # 1
        <5>1. N + 1 \in Nat /\ (\A l \in 1..N + 1 : s[l] \in Nat) /\ 1 \in 1..N + 1 /\ 1 < k
          BY <1>1, <1>3, <4>2
        <5>2. \A l, o \in 1..N + 1 : l < o => s[l] + adv[l] <= s[o]
          BY ONLY <1>3, <5>1, FollowGrows
        <5>3. s[1] + adv[1] <= a
          BY <3>0, <5>1, <5>2
        <5>4. adv[1] \in Nat
          BY <1>3, <5>1
        <5> HIDE DEF a, adv
        <5> QED
          BY <1>3, <3>1, <5>3, <5>4
      <4> QED
        BY <4>1, <4>2
    <3>4. (a + 8) + b <= n
      BY <3>1, <3>2
    <3> HIDE DEF a, b, n
    <3> QED
      BY <1>1, <1>11, <3>1, <3>3, <3>4
  <2> HIDE DEF start
  <2> QED
    BY <2>1, ChunkBlockIs
<1> HIDE DEF F, block
<1> QED
  BY <1>3, <1>5, <1>10, <1>11 DEF WebpIsRight, block

-----------------------------------------------------------------------------
\* The JPEG: what a part may be.  Before its marker, at q, stands what is no marker.
Skips(b, q) == q \in 0..Len(b) /\ \A j \in 1..q : b[j] # FF \/ (j < Len(b) /\ b[j + 1] = FF)

NoLength(m) == m \in {SOI, EOI, 1} \/ IsRestart(m)

Segment(b, q, m) ==
    /\ q + 4 <= Len(b) /\ b[q + 1] = FF /\ b[q + 2] = m /\ m # FF /\ m # SOS /\ ~NoLength(m)
    /\ Be16(b, q + 2) >= 2 /\ q + 2 + Be16(b, q + 2) = Len(b)

ExifIn(b, q) == b[q + 2] = APP1 /\ Be16(b, q + 2) - 2 >= MarkLength /\ HasMark(b, q + 4)

IsPart(kind, b, q) ==
    /\ b \in Seq(0..255) /\ Len(b) > 0 /\ Skips(b, q)
    /\ \/ kind = "exif" /\ q = 0 /\ Segment(b, 0, APP1) /\ ExifIn(b, 0)
       \/ kind = "scan" /\ q + 2 <= Len(b) /\ b[q + 1] = FF /\ b[q + 2] = SOS
       \/ kind = "other" /\ q = Len(b)
       \/ kind = "other" /\ q + 2 = Len(b) /\ b[q + 1] = FF /\ NoLength(b[q + 2])
       \/ kind = "other" /\ (\E m \in 0..255 : Segment(b, q, m)) /\ ~ExifIn(b, q)

\* A file of such parts, or what is there of it.
MadeOf(p, parts) ==
    /\ p \in Seq(0..255) /\ \E N \in Nat : Len(parts) = N /\ DOMAIN parts = 1..N
    /\ \A k \in 1..Len(parts) : \E q : IsPart(parts[k].kind, parts[k].bytes, q)
    /\ Len(p) <= PartStart(parts)[Len(parts) + 1]
    /\ (Len(p) >= 1 => p[1] = FF) /\ (Len(p) >= 2 => p[2] = SOI)
    /\ \A k \in 1..Len(parts) : \A j \in 1..Len(parts[k].bytes) :
          PartStart(parts)[k] + j <= Len(p) => p[PartStart(parts)[k] + j] = parts[k].bytes[j]

\* Where the parts start.
PartsFollow(parts, w) ==
    /\ w = [k \in 1..Len(parts) + 1 |-> IF k <= Len(parts) THEN Len(parts[k].bytes) ELSE 0]
    /\ w \in [1..Len(parts) + 1 -> Nat]
    /\ PartStart(parts)[1] = 2 /\ \A k \in 1..Len(parts) + 1 : PartStart(parts)[k] \in Nat
    /\ Follow(PartStart(parts), Len(parts) + 1, 2, w)

LEMMA PartsFollowOn ==
    ASSUME NEW parts, Len(parts) \in Nat, \A k \in 1..Len(parts) : Len(parts[k].bytes) \in Nat
    PROVE  \E w : PartsFollow(parts, w)
<1> DEFINE N == Len(parts)  D == 1..N + 1  w == [k \in D |-> IF k <= N THEN Len(parts[k].bytes) ELSE 0]
     Body(k, f) == IF k = 1 THEN 2 ELSE f[k - 1] + Len(parts[k - 1].bytes)
     F == CHOOSE f : f = [k \in D |-> Body(k, f)]
<1>1. N \in Nat /\ \A k \in 1..N : Len(parts[k].bytes) \in Nat
  OBVIOUS
<1>2. w \in [D -> Nat] /\ \A k \in 1..N : w[k] = Len(parts[k].bytes)
  <2>1. ASSUME NEW k \in D PROVE w[k] \in Nat
    <3>1. k <= N => k \in 1..N
      BY <1>1
    <3> QED
      BY <1>1, <3>1
  <2>2. ASSUME NEW k \in 1..N PROVE w[k] = Len(parts[k].bytes)
    <3>1. k \in D /\ k <= N
      BY <1>1
    <3> QED
      BY <3>1
  <2>3. w = [k \in D |-> w[k]]
    OBVIOUS
  <2> HIDE DEF w
  <2> QED
    BY <2>1, <2>2, <2>3
<1>3. N + 1 \in Nat /\ 2 \in Nat
  BY <1>1
<1> HIDE DEF w
<1>4. PICK f \in [D -> Nat] : Follow(f, N + 1, 2, w)
  BY ONLY <1>2, <1>3, FollowExists
<1>0. \A k \in D : k # 1 => k - 1 \in 1..N /\ (k - 1) + 1 = k /\ k - 1 \in 1..(N + 1) - 1
  BY <1>1
<1>5. f = [k \in D |-> Body(k, f)]
  <2>1. ASSUME NEW k \in D PROVE f[k] = Body(k, f)
    <3>1. CASE k = 1
      BY <1>3, <1>4, <3>1 DEF Follow
    <3>2. CASE k # 1
      <4>1. f[k] = f[k - 1] + w[k - 1]
        BY <1>0, <1>4, <3>2 DEF Follow
      <4> QED
        BY <1>0, <1>2, <3>2, <4>1
    <3> QED
      BY <3>1, <3>2
  <2> HIDE DEF Body
  <2> QED
    BY <1>4, <2>1
<1>6. F = [k \in D |-> Body(k, F)]
  <2> HIDE DEF Body
  <2> QED
    BY <1>5
<1>7. PartStart(parts) = F
  BY DEF PartStart
<1>8. \A k \in D : F[k] = Body(k, F)
  <2> HIDE DEF F, Body
  <2> QED
    BY <1>6
<1> HIDE DEF F
<1>9. F[1] = 2
  BY <1>3, <1>8
<1>10. \A k \in 1..(N + 1) - 1 : F[k] \in Nat => F[k + 1] = F[k] + w[k]
  <2> SUFFICES ASSUME NEW k \in 1..(N + 1) - 1 PROVE F[k + 1] = F[k] + w[k]
    OBVIOUS
  <2>1. k + 1 \in D /\ k + 1 # 1 /\ (k + 1) - 1 = k /\ k \in 1..N
    BY <1>1
  <2>2. F[k + 1] = F[k] + Len(parts[k].bytes)
    BY <1>8, <2>1
  <2> QED
    BY <1>2, <2>1, <2>2
<1>11. Follow(F, N + 1, 2, w) /\ \A k \in 1..N + 1 : F[k] \in Nat
  <2>1. N + 1 > 0 => F[1] = 2
    BY <1>9
  <2> QED
    BY ONLY <1>2, <1>3, <1>10, <2>1, FollowTyped
<1>12. PartsFollow(parts, w)
  BY <1>2, <1>7, <1>9, <1>11 DEF PartsFollow, w
<1> QED
  BY <1>12

LEMMA MarkThere ==
    ASSUME NEW p \in Seq(0..255), NEW b \in Seq(0..255), NEW i \in Nat, NEW o \in Nat,
           i + MarkLength <= Len(p), o + MarkLength <= Len(b), \A j \in 1..MarkLength : p[i + j] = b[o + j]
    PROVE  HasMark(p, i) <=> HasMark(b, o)
<1> DEFINE l == MarkLength
<1>1. l \in Nat
  BY ExifAssumption, LenProperties DEF MarkLength
<1> HIDE DEF l
<1>2. SubSeq(p, i + 1, i + l) = SubSeq(b, o + 1, o + l)
  <2>1. SubSeq(p, i + 1, i + l) = [j \in 1..l |-> p[i + j]]
    <3>1. SubSeq(p, i + 1, i + l) = [j \in 1..(i + l) - (i + 1) + 1 |-> p[j + (i + 1) - 1]]
      BY <1>1
    <3>2. (i + l) - (i + 1) + 1 = l /\ \A j \in 1..l : j + (i + 1) - 1 = i + j
      BY <1>1
    <3> QED
      BY <3>1, <3>2
  <2>2. SubSeq(b, o + 1, o + l) = [j \in 1..l |-> b[o + j]]
    <3>1. SubSeq(b, o + 1, o + l) = [j \in 1..(o + l) - (o + 1) + 1 |-> b[j + (o + 1) - 1]]
      BY <1>1
    <3>2. (o + l) - (o + 1) + 1 = l /\ \A j \in 1..l : j + (o + 1) - 1 = o + j
      BY <1>1
    <3> QED
      BY <3>1, <3>2
  <2>3. \A j \in 1..l : p[i + j] = b[o + j]
    BY DEF l
  <2> QED
    BY <2>1, <2>2, <2>3
<1> QED
  BY <1>2 DEF HasMark, l

-----------------------------------------------------------------------------
\* One step of the walk.
JpegStep(p, i, f) ==
    IF i + 4 > Len(p) THEN NoBlock
    ELSE IF Byte(p, i) # FF \/ Byte(p, i + 1) = FF THEN f[i + 1]
    ELSE IF NoLength(Byte(p, i + 1)) THEN f[i + 2]
    ELSE IF Byte(p, i + 1) = SOS \/ Be16(p, i + 2) < 2 \/ i + 2 + Be16(p, i + 2) > Len(p) THEN NoBlock
    ELSE IF Byte(p, i + 1) = APP1 /\ Be16(p, i + 2) - 2 >= MarkLength /\ HasMark(p, i + 4)
         THEN [start |-> i + 4 + MarkLength, length |-> (Be16(p, i + 2) - 2) - MarkLength]
    ELSE f[i + 2 + Be16(p, i + 2)]

\* What it makes of a part that starts at a, o bytes into it.
PartVerdict(p, kind, b, a, o, q, f) ==
    \/ o < q /\ (o + 1 = Len(b) => kind = "other") /\ JpegStep(p, a + o, f) = f[a + (o + 1)]
    \/ kind = "other" /\ a + Len(b) <= Len(p) /\ JpegStep(p, a + o, f) = f[a + Len(b)]
    \/ a + Len(b) > Len(p) /\ JpegStep(p, a + o, f) = NoBlock
    \/ kind = "scan" /\ JpegStep(p, a + o, f) = NoBlock
    \/ /\ kind = "exif" /\ a + Len(b) <= Len(p)
       /\ JpegStep(p, a + o, f) = [start |-> a + 4 + MarkLength, length |-> Len(b) - 4 - MarkLength]

LEMMA MarkLengthNat == MarkLength \in Nat
BY ExifAssumption, LenProperties DEF MarkLength

\* A segment, whatever it is.
SegmentGoes(p, b, a, q, f) ==
    JpegStep(p, a + q, f) = IF a + Len(b) > Len(p) THEN NoBlock
                            ELSE IF ExifIn(b, q)
                            THEN [start |-> (a + q) + 4 + MarkLength, length |-> (Len(b) - q) - 4 - MarkLength]
                            ELSE f[a + Len(b)]

LEMMA SegmentStep ==
    ASSUME NEW p \in Seq(0..255), NEW b \in Seq(0..255), NEW a \in Nat, NEW q \in Nat, NEW m, NEW f,
           Segment(b, q, m), (a + q) + 4 <= Len(p),
           \A j \in 1..Len(b) : a + j <= Len(p) => p[a + j] = b[j]
    PROVE  SegmentGoes(p, b, a, q, f)
<1> DEFINE n == Len(p)  l == Len(b)  i == a + q  g == Be16(p, i + 2)  ml == MarkLength
<1>1. n \in Nat /\ l \in Nat /\ ml \in Nat
  BY LenProperties, MarkLengthNat
<1>2. q + 4 <= l /\ b[q + 1] = FF /\ b[q + 2] = m /\ m # FF /\ m # SOS /\ ~NoLength(m)
  BY DEF Segment
<1>3. \A j \in 1..4 : p[i + j] = b[q + j]
  <2> SUFFICES ASSUME NEW j \in 1..4 PROVE p[i + j] = b[q + j]
    OBVIOUS
  <2> HIDE DEF n, l
  <2>1. q + j \in 1..l /\ a + (q + j) <= n /\ a + (q + j) = i + j
    BY <1>1, <1>2 DEF n
  <2> QED
    BY <2>1 DEF l, n
<1>4. Byte(p, i) = FF /\ Byte(p, i + 1) = m
  <2>1. i + 1 + 1 = i + 2
    OBVIOUS
  <2> QED
    BY <1>2, <1>3, <2>1 DEF Byte
<1>5. g = Be16(b, q + 2)
  <2>1. i + 2 + 1 = i + 3 /\ i + 2 + 1 + 1 = i + 4 /\ q + 2 + 1 = q + 3 /\ q + 2 + 1 + 1 = q + 4
    OBVIOUS
  <2> QED
    BY <1>3, <2>1 DEF Be16, Byte
<1>6. g \in Nat /\ g >= 2 /\ g = (l - q) - 2
  <2>1. b[q + 3] \in 0..255 /\ b[q + 4] \in 0..255
    <3>1. q + 3 \in 1..Len(b) /\ q + 4 \in 1..Len(b)
      BY <1>1, <1>2
    <3> QED
      BY <3>1, ElementOfSeq
  <2>2. q + 2 + 1 = q + 3 /\ q + 2 + 1 + 1 = q + 4
    OBVIOUS
  <2>3. Be16(b, q + 2) = b[q + 3] * 256 + b[q + 4]
    BY <2>2 DEF Be16, Byte
  <2>4. g \in Nat
    <3> DEFINE x == b[q + 3]  y == b[q + 4]
    <3>1. x \in 0..255 /\ y \in 0..255
      BY <2>1
    <3> HIDE DEF x, y, g
    <3>2. x * 256 + y \in Nat
      BY ONLY <3>1
    <3> QED
      BY <1>5, <2>3, <3>2 DEF x, y
  <2>5. g >= 2 /\ q + 2 + g = l
    BY <1>5 DEF Segment
  <2> HIDE DEF g, l
  <2> QED
    BY <1>1, <2>4, <2>5
<1>7. ~(i + 4 > n) /\ ~(g < 2) /\ i + 2 + g = a + l /\ (g - 2) - ml = (l - q) - 4 - ml
  <2>0. i \in Nat /\ i + 4 <= n /\ i = a + q
    OBVIOUS
  <2> HIDE DEF g, n, l, ml, i
  <2>1. ~(i + 4 > n) /\ ~(g < 2)
    BY <1>1, <1>6, <2>0
  <2>2. i + 2 + g = a + l /\ (g - 2) - ml = (l - q) - 4 - ml
    BY <1>1, <1>6, <2>0
  <2> QED
    BY <2>1, <2>2
<1>8. ASSUME ~(a + l > n), g - 2 >= ml PROVE HasMark(p, i + 4) <=> HasMark(b, q + 4)
  <2> HIDE DEF g, n, l, ml
  <2>1. (i + 4) + ml <= n /\ (q + 4) + ml <= l /\ i + 4 \in Nat /\ q + 4 \in Nat
    BY <1>1, <1>6, <1>8
  <2>2. ASSUME NEW j \in 1..ml PROVE p[(i + 4) + j] = b[(q + 4) + j]
    <3>1. (q + 4) + j \in 1..l /\ a + ((q + 4) + j) <= n /\ a + ((q + 4) + j) = (i + 4) + j
      BY <1>1, <2>1
    <3> QED
      BY <3>1 DEF l, n
  <2> DEFINE i4 == i + 4  q4 == q + 4
  <2>3. i4 \in Nat /\ q4 \in Nat /\ i4 + ml <= n /\ q4 + ml <= l /\ \A j \in 1..ml : p[i4 + j] = b[q4 + j]
    BY <2>1, <2>2
  <2> HIDE DEF i4, q4
  <2>4. HasMark(p, i4) <=> HasMark(b, q4)
    BY ONLY <2>3, MarkThere, p \in Seq(0..255), b \in Seq(0..255) DEF n, l, ml
  <2> QED
    BY <2>4 DEF i4, q4
<1>9. ASSUME ~(a + l > n) PROVE ExifIn(b, q) <=> (m = APP1 /\ g - 2 >= ml /\ HasMark(p, i + 4))
  BY <1>2, <1>5, <1>8, <1>9 DEF ExifIn
<1>10. JpegStep(p, i, f) = IF i + 2 + g > n THEN NoBlock
                           ELSE IF m = APP1 /\ g - 2 >= ml /\ HasMark(p, i + 4)
                           THEN [start |-> i + 4 + ml, length |-> (g - 2) - ml]
                           ELSE f[i + 2 + g]
  <2>1. ~(i + 4 > n) /\ Byte(p, i) = FF /\ Byte(p, i + 1) = m /\ m # FF /\ ~NoLength(m) /\ m # SOS /\ ~(g < 2)
    BY <1>2, <1>4, <1>7
  <2> HIDE DEF i
  <2> QED
    BY <2>1 DEF JpegStep
<1> HIDE DEF i, g, n, l, ml
<1>11. JpegStep(p, i, f) = IF a + l > n THEN NoBlock
                           ELSE IF ExifIn(b, q) THEN [start |-> i + 4 + ml, length |-> (l - q) - 4 - ml]
                           ELSE f[a + l]
  BY <1>7, <1>9, <1>10
<1> QED
  BY <1>11 DEF SegmentGoes, i, n, l, ml

LEMMA OnePart ==
    ASSUME NEW p \in Seq(0..255), NEW kind, NEW b, NEW q, IsPart(kind, b, q), NEW a \in Nat, NEW o \in 0..q,
           o < Len(b), (a + o) + 4 <= Len(p), \A j \in 1..Len(b) : a + j <= Len(p) => p[a + j] = b[j], NEW f
    PROVE  PartVerdict(p, kind, b, a, o, q, f)
<1> DEFINE n == Len(p)  l == Len(b)  i == a + o
<1>1. b \in Seq(0..255) /\ q \in 0..l /\ (\A j \in 1..q : b[j] # FF \/ (j < l /\ b[j + 1] = FF))
  BY DEF IsPart, Skips
<1>2. n \in Nat /\ l \in Nat /\ q \in Nat /\ o \in Nat
  BY <1>1, LenProperties
<1>3. ASSUME NEW j \in 1..4, o + j <= l PROVE p[i + j] = b[o + j]
  <2> HIDE DEF n, l
  <2>1. o + j \in 1..l /\ a + (o + j) <= n /\ a + (o + j) = i + j
    BY <1>2, <1>3 DEF n
  <2> QED
    BY <2>1 DEF l, n
<1>4. Byte(p, i) = b[o + 1] /\ (o + 2 <= l => Byte(p, i + 1) = b[o + 2])
  <2>1. i + 1 + 1 = i + 2
    OBVIOUS
  <2>2. o + 1 <= l
    <3> HIDE DEF l
    <3> QED
      BY <1>2 DEF l
  <2> QED
    BY <1>3, <2>1, <2>2 DEF Byte
<1>5. ~(i + 4 > n)
  <2> HIDE DEF n
  <2> QED
    BY <1>2 DEF n
<1>6. CASE o < q
  <2>1. o + 1 \in 1..q /\ (o + 1 < l => o + 2 <= l)
    <3> HIDE DEF l
    <3> QED
      BY <1>2, <1>6
  <2>2. Byte(p, i) # FF \/ Byte(p, i + 1) = FF
    <3>1. b[o + 1] # FF \/ (o + 1 < l /\ b[(o + 1) + 1] = FF)
      BY <1>1, <2>1
    <3>2. (o + 1) + 1 = o + 2
      BY <1>2
    <3> QED
      BY <1>4, <2>1, <3>1, <3>2
  <2>3. JpegStep(p, i, f) = f[i + 1]
    <3> HIDE DEF i
    <3> QED
      BY <1>5, <2>2 DEF JpegStep
  <2>4. i + 1 = a + (o + 1)
    BY <1>2
  <2>5. o + 1 = l => kind = "other"
    <3> SUFFICES ASSUME o + 1 = l, kind # "other" PROVE FALSE
      OBVIOUS
    <3>0. kind = "exif" \/ kind = "scan"
      BY DEF IsPart
    <3>1. q + 2 <= l
      <4>1. CASE kind = "exif"
        <5>1. q = 0
          BY <4>1 DEF IsPart
        <5> QED
          BY <1>2, <1>6, <5>1
      <4>2. CASE kind = "scan"
        BY <4>2 DEF IsPart
      <4> QED
        BY <3>0, <4>1, <4>2
    <3> HIDE DEF l
    <3> QED
      BY <1>2, <1>6, <3>1
  <2> QED
    BY <1>6, <2>3, <2>4, <2>5 DEF PartVerdict
<1>8. ASSUME NEW m, Segment(b, q, m), (a + q) + 4 <= n
      PROVE  JpegStep(p, a + q, f) = IF a + l > n THEN NoBlock
                                     ELSE IF ExifIn(b, q)
                                     THEN [start |-> (a + q) + 4 + MarkLength, length |-> (l - q) - 4 - MarkLength]
                                     ELSE f[a + l]
  <2>1. b \in Seq(0..255) /\ q \in Nat
    BY <1>1, <1>2
  <2>2. \A j \in 1..Len(b) : a + j <= Len(p) => p[a + j] = b[j]
    OBVIOUS
  <2>3. (a + q) + 4 <= Len(p)
    BY <1>8
  <2>4. SegmentGoes(p, b, a, q, f)
    BY ONLY <1>8, <2>1, <2>2, <2>3, SegmentStep, p \in Seq(0..255), a \in Nat
  <2> QED
    BY <2>4 DEF SegmentGoes
<1>7. CASE o = q
  <2>1. CASE q = l
    BY <1>2, <1>7, <2>1
  <2>2. CASE kind = "scan" /\ q + 2 <= l /\ b[q + 1] = FF /\ b[q + 2] = SOS
    <3>1. Byte(p, i) = FF /\ Byte(p, i + 1) = SOS /\ SOS # FF /\ ~NoLength(SOS)
      BY <1>4, <1>7, <2>2 DEF SOS, FF, NoLength, SOI, EOI, IsRestart
    <3>2. JpegStep(p, i, f) = NoBlock
      <4> HIDE DEF i
      <4> QED
        BY <1>5, <3>1 DEF JpegStep
    <3> QED
      BY <2>2, <3>2 DEF PartVerdict
  <2>3. CASE kind = "other" /\ q + 2 = l /\ b[q + 1] = FF /\ NoLength(b[q + 2])
    <3>1. NoLength(b[q + 2]) => b[q + 2] # FF
      BY DEF FF, NoLength, SOI, EOI, IsRestart
    <3>2. Byte(p, i) = FF /\ Byte(p, i + 1) = b[q + 2]
      <4>1. q + 2 <= l
        BY <1>2, <2>3
      <4> QED
        BY <1>4, <1>7, <2>3, <4>1
    <3>3. JpegStep(p, i, f) = f[i + 2]
      <4> HIDE DEF i
      <4> QED
        BY <1>5, <2>3, <3>1, <3>2 DEF JpegStep
    <3>4. i + 2 = a + l /\ a + l <= n
      <4>1. i + 2 = a + (q + 2)
        BY <1>2, <1>7
      <4>2. (a + o) + 4 <= n
        OBVIOUS
      <4> HIDE DEF n, l
      <4> QED
        BY <1>2, <1>7, <2>3, <4>1, <4>2
    <3> HIDE DEF i
    <3>5. JpegStep(p, i, f) = f[a + l]
      BY <3>3, <3>4
    <3> QED
      BY <2>3, <3>4, <3>5 DEF PartVerdict, i
  <2>4. CASE kind = "other" /\ (\E m \in 0..255 : Segment(b, q, m)) /\ ~ExifIn(b, q)
    <3>1. PICK m \in 0..255 : Segment(b, q, m)
      BY <2>4
    <3>2. (a + q) + 4 <= n
      BY <1>7
    <3>3. JpegStep(p, a + q, f) = IF a + l > n THEN NoBlock
                                  ELSE IF ExifIn(b, q)
                                  THEN [start |-> (a + q) + 4 + MarkLength, length |-> (l - q) - 4 - MarkLength]
                                  ELSE f[a + l]
      BY ONLY <1>8, <3>1, <3>2
    <3>4. a + l > n \/ a + l <= n
      <4> HIDE DEF n, l
      <4> QED
        BY <1>2
    <3>5. i = a + q
      BY <1>7
    <3> HIDE DEF i, n, l
    <3>6. (a + l > n /\ JpegStep(p, i, f) = NoBlock) \/ (a + l <= n /\ JpegStep(p, i, f) = f[a + l])
      <4>1. CASE a + l > n
        BY <3>3, <3>5, <4>1
      <4>2. CASE a + l <= n
        <5>1. ~(a + l > n)
          BY <1>2, <4>2
        <5> QED
          BY <2>4, <3>3, <3>5, <4>2, <5>1
      <4> QED
        BY <3>4, <4>1, <4>2
    <3> QED
      BY <2>4, <3>6 DEF PartVerdict, i, n, l
  <2>5. CASE kind = "exif" /\ q = 0 /\ Segment(b, 0, APP1) /\ ExifIn(b, 0)
    <3>0. ExifIn(b, q) /\ \E m : Segment(b, q, m)
      BY <2>5
    <3>9. PICK m : Segment(b, q, m)
      BY <3>0
    <3>8. (a + q) + 4 <= n
      BY <1>7
    <3>1. JpegStep(p, a + q, f) = IF a + l > n THEN NoBlock
                                  ELSE IF ExifIn(b, q)
                                  THEN [start |-> (a + q) + 4 + MarkLength, length |-> (l - q) - 4 - MarkLength]
                                  ELSE f[a + l]
      BY ONLY <1>8, <3>8, <3>9
    <3>2. a + q = a /\ l - q = l /\ i = a + q
      <4> HIDE DEF l
      <4> QED
        BY <1>2, <1>7, <2>5
    <3> DEFINE found == [start |-> a + 4 + MarkLength, length |-> l - 4 - MarkLength]
    <3> HIDE DEF i, n, l
    <3>3. JpegStep(p, i, f) = IF a + l > n THEN NoBlock ELSE found
      BY <3>0, <3>1, <3>2
    <3>4. a + l > n \/ (~(a + l > n) /\ a + l <= n)
      BY <1>2
    <3> HIDE DEF found
    <3>5. (a + l > n /\ JpegStep(p, i, f) = NoBlock) \/ (a + l <= n /\ JpegStep(p, i, f) = found)
      BY <3>3, <3>4
    <3> QED
      BY <2>5, <3>5 DEF PartVerdict, i, n, l, found
  <2>6. \/ kind = "exif" /\ q = 0 /\ Segment(b, 0, APP1) /\ ExifIn(b, 0)
        \/ kind = "scan" /\ q + 2 <= l /\ b[q + 1] = FF /\ b[q + 2] = SOS
        \/ kind = "other" /\ q = l
        \/ kind = "other" /\ q + 2 = l /\ b[q + 1] = FF /\ NoLength(b[q + 2])
        \/ kind = "other" /\ (\E m \in 0..255 : Segment(b, q, m)) /\ ~ExifIn(b, q)
    BY DEF IsPart
  <2> QED
    BY ONLY <2>1, <2>2, <2>3, <2>4, <2>5, <2>6
<1> QED
  BY <1>2, <1>6, <1>7

Offsets(p) == 0..Len(p) + 1

CanWalkJpeg(p) ==
    \E f \in [Offsets(p) -> Somewhere] : f = [i \in Offsets(p) |-> JpegStep(p, i, f)]

LEMMA JpegStepsOn ==
    ASSUME NEW p \in Seq(0..255), NEW i \in Offsets(p), i + 4 <= Len(p)
    PROVE  /\ i \in Nat /\ i + 1 \in Offsets(p) /\ i + 2 \in Offsets(p) /\ Be16(p, i + 2) \in Nat
           /\ ~(i + 2 + Be16(p, i + 2) > Len(p)) => i + 2 + Be16(p, i + 2) \in Offsets(p)
<1> DEFINE n == Len(p)  g == Be16(p, i + 2)
<1>1. n \in Nat
  BY LenProperties
<1>2. g \in Nat
  <2>1. i + 2 + 1 \in 1..n /\ i + 2 + 1 + 1 \in 1..n
    <3> HIDE DEF n
    <3> QED
      BY <1>1 DEF Offsets, n
  <2> DEFINE x == p[i + 2 + 1]  y == p[i + 2 + 1 + 1]
  <2>2. x \in 0..255 /\ y \in 0..255
    BY <2>1, ElementOfSeq
  <2>3. g = x * 256 + y
    BY DEF Be16, Byte
  <2> HIDE DEF x, y, g
  <2> QED
    BY ONLY <2>2, <2>3
<1>3. i \in 0..n + 1 /\ i + 4 <= n
  BY DEF Offsets
<1> HIDE DEF n, g
<1>4. i \in Nat /\ i + 1 \in 0..n + 1 /\ i + 2 \in 0..n + 1 /\ (~(i + 2 + g > n) => i + 2 + g \in 0..n + 1)
  BY <1>1, <1>2, <1>3
<1> QED
  BY <1>2, <1>4 DEF n, g, Offsets

LEMMA JpegWalkExists == ASSUME NEW p \in Seq(0..255) PROVE CanWalkJpeg(p)
<1> DEFINE n == Len(p)  D == Offsets(p)  V == Somewhere
     step == [i \in D |-> [f \in [D -> V] |-> JpegStep(p, i, f)]]
     m == [i \in D |-> (n + 1) - i]
<1>1. n \in Nat /\ MarkLength \in Nat
  BY LenProperties, MarkLengthNat
<1>2. m \in [D -> 0..n + 1] /\ \A i, j \in D : i < j => m[j] < m[i]
  BY <1>1 DEF Offsets
<1>3. NoBlock \in V
  BY DEF NoBlock, Somewhere
<1>4. ASSUME NEW i \in D, ~(i + 4 > n)
      PROVE  /\ i + 1 \in D /\ i + 2 \in D /\ i < i + 1 /\ i < i + 2 /\ i \in Nat /\ Be16(p, i + 2) \in Nat
             /\ ~(i + 2 + Be16(p, i + 2) > n) => i + 2 + Be16(p, i + 2) \in D /\ i < i + 2 + Be16(p, i + 2)
  <2>1. i + 4 <= n
    BY <1>1, <1>4 DEF Offsets
  <2>2. /\ i \in Nat /\ i + 1 \in D /\ i + 2 \in D /\ Be16(p, i + 2) \in Nat
        /\ ~(i + 2 + Be16(p, i + 2) > n) => i + 2 + Be16(p, i + 2) \in D
    BY <2>1, JpegStepsOn
  <2> DEFINE g == Be16(p, i + 2)
  <2>3. g \in Nat
    BY <2>2
  <2> HIDE DEF g
  <2>4. i < i + 1 /\ i < i + 2 /\ i < i + 2 + g
    BY <2>2, <2>3
  <2> QED
    BY <2>2, <2>4 DEF g
<1>5. step \in [D -> [[D -> V] -> V]]
  <2>1. ASSUME NEW i \in D, NEW f \in [D -> V] PROVE JpegStep(p, i, f) \in V
    <3>1. CASE i + 4 > n
      BY <1>3, <3>1 DEF JpegStep
    <3>2. CASE ~(i + 4 > n)
      <4> DEFINE g == Be16(p, i + 2)
      <4>1. f[i + 1] \in V /\ f[i + 2] \in V /\ (~(i + 2 + g > n) => f[i + 2 + g] \in V)
        BY <1>4, <3>2
      <4>2. [start |-> i + 4 + MarkLength, length |-> (g - 2) - MarkLength] \in V
        <5>1. g \in Nat /\ i \in Nat
          BY <1>4, <3>2
        <5> HIDE DEF g
        <5> QED
          BY <1>1, <5>1 DEF Somewhere
      <4> DEFINE r == [start |-> i + 4 + MarkLength, length |-> (g - 2) - MarkLength]
      <4>3. JpegStep(p, i, f) \in {NoBlock, f[i + 1], f[i + 2], r}
            \/ (~(i + 2 + g > n) /\ JpegStep(p, i, f) = f[i + 2 + g])
        BY DEF JpegStep
      <4> HIDE DEF V, r, g
      <4> QED
        BY <1>3, <4>1, <4>2, <4>3 DEF r
    <3> QED
      BY <3>1, <3>2
  <2> HIDE DEF D, V
  <2> QED
    BY <2>1
<1>6. ASSUME NEW i \in D, NEW g \in [D -> V], NEW h \in [D -> V], \A j \in D : m[j] < m[i] => g[j] = h[j]
      PROVE  JpegStep(p, i, g) = JpegStep(p, i, h)
  <2>1. CASE i + 4 > n
    BY <2>1 DEF JpegStep
  <2>2. CASE ~(i + 4 > n)
    <3> DEFINE l == Be16(p, i + 2)
    <3>1. g[i + 1] = h[i + 1] /\ g[i + 2] = h[i + 2] /\ (~(i + 2 + l > n) => g[i + 2 + l] = h[i + 2 + l])
      <4>1. \A j \in D : i < j => g[j] = h[j]
        <5> HIDE DEF m, D, V
        <5> QED
          BY <1>2, <1>6
      <4>2. /\ i + 1 \in D /\ i + 2 \in D /\ i < i + 1 /\ i < i + 2
            /\ ~(i + 2 + l > n) => i + 2 + l \in D /\ i < i + 2 + l
        BY <1>4, <2>2
      <4> HIDE DEF m, D, V, l
      <4> QED
        BY <4>1, <4>2
    <3> QED
      BY <3>1 DEF JpegStep
  <2> QED
    BY <2>1, <2>2
<1>7. \E f \in [D -> V] : f = [i \in D |-> step[i][f]]
  <2>1. V # {}
    BY <1>3
  <2>2. \A i \in D : \A g, h \in [D -> V] : (\A j \in D : m[j] < m[i] => g[j] = h[j]) => step[i][g] = step[i][h]
    <3>1. \A i \in D : \A g \in [D -> V] : step[i][g] = JpegStep(p, i, g)
      OBVIOUS
    <3> HIDE DEF step, m, D, V
    <3> QED
      BY <1>6, <3>1
  <2>3. n + 1 \in Nat
    BY <1>1
  <2> DEFINE b == n + 1
  <2>4. m \in [D -> 0..b] /\ b \in Nat
    BY <1>2, <2>3
  <2> HIDE DEF D, V, step, m, b
  <2>5. Recursive(D, V, m, step)
    BY <1>5, <2>1, <2>2 DEF Recursive
  <2> QED
    BY <2>4, <2>5, RecursionExists
<1>8. \A i \in D : \A f \in [D -> V] : step[i][f] = JpegStep(p, i, f)
  OBVIOUS
<1> HIDE DEF step, D, V
<1> QED
  BY <1>7, <1>8 DEF D, V, CanWalkJpeg

\* What the block is, of the one part that is whole.
JpegWholeAt(parts, n, k) ==
    /\ parts[k].kind = "exif" /\ \A j \in 1..k - 1 : parts[j].kind # "exif"
    /\ PartStart(parts)[k + 1] <= n /\ \A j \in 1..k : parts[j].kind # "scan"

JpegFound(parts, k) ==
    [start |-> PartStart(parts)[k] + 4 + MarkLength, length |-> Len(parts[k].bytes) - 4 - MarkLength]

LEMMA JpegBlockIs ==
    ASSUME NEW parts, NEW n, NEW N \in Nat, DOMAIN parts = 1..N
    PROVE  /\ (\A k \in 1..N : ~JpegWholeAt(parts, n, k)) => JpegBlock(parts, n) = NoBlock
           /\ \A k \in 1..N : JpegWholeAt(parts, n, k) => JpegBlock(parts, n) = JpegFound(parts, k)
<1> DEFINE W(k) == JpegWholeAt(parts, n, k)
<1>1. JpegBlock(parts, n) =
          IF \E k \in 1..N : W(k) THEN LET k == CHOOSE k \in 1..N : W(k) IN JpegFound(parts, k) ELSE NoBlock
  BY DEF JpegBlock, First, JpegWholeAt, JpegFound
<1>2. ASSUME NEW k \in 1..N, W(k), NEW j \in 1..N, W(j) PROVE j = k
  <2>1. ~(j < k)
    BY <1>2 DEF JpegWholeAt
  <2>2. ~(k < j)
    BY <1>2 DEF JpegWholeAt
  <2> QED
    BY <2>1, <2>2
<1> HIDE DEF W
<1>3. ASSUME NEW k \in 1..N, W(k) PROVE (CHOOSE j \in 1..N : W(j)) = k
  BY <1>2, <1>3
<1> QED
  BY <1>1, <1>3 DEF W

\* The walk, from anywhere in what stands before a part's marker.
LEMMA JpegWalkFinds ==
    ASSUME NEW p, NEW parts, MadeOf(p, parts), NEW f, \A i \in Offsets(p) : f[i] = JpegStep(p, i, f)
    PROVE  IF Len(p) >= 2 THEN f[2] = JpegBlock(parts, Len(p)) ELSE JpegBlock(parts, Len(p)) = NoBlock
<1> DEFINE n == Len(p)  N == Len(parts)  s == PartStart(parts)  D == Offsets(p)
     l(k) == Len(parts[k].bytes)  W(k) == JpegWholeAt(parts, n, k)  block == JpegBlock(parts, n)
     Behind(k) == \A j \in 1..k - 1 : parts[j].kind # "exif" /\ parts[j].kind # "scan"
     Inside(i, k, q) == IsPart(parts[k].kind, parts[k].bytes, q) /\ s[k] <= i /\ i <= s[k] + q /\ i < s[k] + l(k)
     S == {i \in D : \A k \in 1..N : \A q \in Nat : Inside(i, k, q) /\ Behind(k) => f[i] = block}
     m == [i \in D |-> (n + 1) - i]
<1>1. n \in Nat /\ N \in Nat /\ DOMAIN parts = 1..N /\ p \in Seq(0..255)
  <2>1. p \in Seq(0..255)
    BY DEF MadeOf
  <2> QED
    BY <2>1, LenProperties DEF MadeOf
<1>2. \A k \in 1..N : parts[k].bytes \in Seq(0..255) /\ l(k) \in Nat /\ l(k) > 0
  <2> SUFFICES ASSUME NEW k \in 1..N PROVE parts[k].bytes \in Seq(0..255) /\ l(k) \in Nat /\ l(k) > 0
    OBVIOUS
  <2>1. PICK q : IsPart(parts[k].kind, parts[k].bytes, q)
    BY DEF MadeOf
  <2>2. parts[k].bytes \in Seq(0..255) /\ l(k) > 0
    BY <2>1 DEF IsPart
  <2> QED
    BY <2>2, LenProperties
<1>3. /\ \A k \in 1..N + 1 : s[k] \in Nat
      /\ s[1] = 2 /\ \A k \in 1..N : s[k + 1] = s[k] + l(k)
      /\ \A j, k \in 1..N + 1 : j < k => s[j] + l(j) <= s[k]
  <2>1. PICK w : PartsFollow(parts, w)
    <3>1. \E w : PartsFollow(parts, w)
      BY <1>1, <1>2, PartsFollowOn
    <3> QED
      BY <3>1
  <2>2. /\ w \in [1..N + 1 -> Nat] /\ s[1] = 2 /\ (\A k \in 1..N + 1 : s[k] \in Nat)
        /\ Follow(s, N + 1, 2, w) /\ \A k \in 1..N : w[k] = l(k)
    <3>1. w = [k \in 1..N + 1 |-> IF k <= N THEN l(k) ELSE 0]
      BY <2>1 DEF PartsFollow
    <3>2. \A k \in 1..N : k \in 1..N + 1 /\ k <= N
      BY <1>1
    <3> QED
      BY <2>1, <3>1, <3>2 DEF PartsFollow
  <2> HIDE DEF s, l
  <2>3. \A k \in 1..N : s[k + 1] = s[k] + l(k)
    BY <1>1, <2>2 DEF Follow
  <2>4. \A j, k \in 1..N + 1 : j < k => s[j] + w[j] <= s[k]
    <3>1. N + 1 \in Nat /\ \A k \in 1..N + 1 : s[k] \in Nat
      BY <1>1, <2>2
    <3> QED
      BY ONLY <2>2, <3>1, FollowGrows
  <2>5. \A j, k \in 1..N + 1 : j < k => j \in 1..N
    BY <1>1
  <2> QED
    BY <2>2, <2>3, <2>4, <2>5
<1>4. n <= s[N + 1] /\ \A k \in 1..N : \A j \in 1..l(k) : s[k] + j <= n => p[s[k] + j] = parts[k].bytes[j]
  BY DEF MadeOf
<1>5. (\A k \in 1..N : ~W(k)) => block = NoBlock
  BY <1>1, JpegBlockIs
<1>6. ASSUME NEW k \in 1..N, W(k) PROVE block = JpegFound(parts, k)
  BY <1>1, <1>6, JpegBlockIs
\* A part that is whole is not behind, and no part that is not there stands before it.
<1>7. ASSUME NEW k \in 1..N + 1, Behind(k), NEW j \in 1..N, W(j) PROVE k <= j
  BY <1>7 DEF JpegWholeAt
<1>8. ASSUME NEW k \in 1..N, NEW j \in 1..N, W(j), k <= j PROVE s[k] + l(k) <= n /\ parts[k].kind # "scan"
  <2>1. k + 1 \in 1..N + 1 /\ j + 1 \in 1..N + 1
    BY <1>1
  <2>2. s[k + 1] <= s[j + 1]
    <3>1. k < j => s[k + 1] + l(k + 1) <= s[j + 1] /\ l(k + 1) \in Nat
      <4>1. k < j => k + 1 < j + 1 /\ k + 1 \in 1..N
        BY <1>1
      <4> QED
        BY <1>2, <1>3, <2>1, <4>1
    <3> DEFINE a == s[k + 1]  b == s[j + 1]  c == l(k + 1)
    <3>2. a \in Nat /\ b \in Nat /\ (k < j => a + c <= b /\ c \in Nat) /\ (k = j => a = b)
      BY <1>3, <2>1, <3>1
    <3> HIDE DEF a, b, c
    <3>3. a <= b
      BY <1>8, <3>2
    <3> QED
      BY <3>3 DEF a, b
  <2>3. s[j + 1] <= n /\ k \in 1..j
    BY <1>8 DEF JpegWholeAt
  <2>4. s[k + 1] = s[k] + l(k) /\ s[k + 1] \in Nat /\ s[j + 1] \in Nat
    BY <1>3, <2>1
  <2>5. parts[k].kind # "scan"
    BY <1>8, <2>3 DEF JpegWholeAt
  <2> DEFINE a == s[k + 1]  b == s[j + 1]
  <2>6. a \in Nat /\ b \in Nat /\ a <= b /\ b <= n
    BY <2>2, <2>3, <2>4
  <2> HIDE DEF a, b
  <2>7. a <= n
    BY <1>1, <2>6
  <2> QED
    BY <2>4, <2>5, <2>7 DEF a
<1>9. ASSUME NEW k \in 1..N, NEW j \in 1..N, W(j), k <= j, parts[k].kind = "exif" PROVE j = k
  BY <1>9 DEF JpegWholeAt
\* A whole part is a segment.
<1>10. ASSUME NEW j \in 1..N, W(j) PROVE l(j) >= 4
  <2>1. PICK q : IsPart(parts[j].kind, parts[j].bytes, q)
    BY DEF MadeOf
  <2>2. parts[j].kind = "exif"
    BY <1>10 DEF JpegWholeAt
  <2>3. Segment(parts[j].bytes, 0, APP1)
    BY <2>1, <2>2 DEF IsPart
  <2>4. 0 + 4 <= l(j)
    BY <2>3 DEF Segment
  <2> QED
    BY <1>2, <2>4
\* Where too little is left for a marker, no part that is not behind is whole.
<1>11. ASSUME NEW k \in 1..N, NEW i \in Nat, NEW q \in Nat, Inside(i, k, q), Behind(k), i + 4 > n PROVE block = NoBlock
  <2>1. ASSUME NEW j \in 1..N, W(j) PROVE FALSE
    <3> DEFINE a == s[k]  b == s[j]  c == l(k)  d == l(j)
    <3>1. k \in 1..N + 1 /\ j \in 1..N + 1
      BY <1>1
    <3>2. k <= j
      BY <1>7, <1>11, <2>1, <3>1
    <3>3. a + c <= n /\ b + d <= n /\ d >= 4
      <4>1. j <= j
        BY <1>1
      <4> QED
        BY <1>8, <1>10, <2>1, <3>2, <4>1
    <3>4. a \in Nat /\ b \in Nat /\ c \in Nat /\ d \in Nat /\ i <= a + q /\ i < a + c
      BY <1>2, <1>3, <1>11, <3>1
    <3>5. k < j => a + c <= b
      BY <1>3, <3>1
    <3>6. k = j => q = 0 /\ a = b
      <4> SUFFICES ASSUME k = j PROVE q = 0
        OBVIOUS
      <4>1. parts[k].kind = "exif"
        BY <2>1 DEF JpegWholeAt
      <4> QED
        BY <1>11, <4>1 DEF IsPart
    <3> HIDE DEF a, b, c, d, n, Inside, Behind, W
    <3>7. i \in Nat /\ q \in Nat /\ i + 4 > n
      BY <1>11
    <3> QED
      BY <1>1, <3>2, <3>3, <3>4, <3>5, <3>6, <3>7
  <2> QED
    BY <1>5, <2>1
\* At the start of a part, or of what follows the last one.
<1>12. ASSUME NEW k \in 1..N + 1, Behind(k), s[k] <= n, k \in 1..N => s[k] \in S PROVE f[s[k]] = block
  <2>1. CASE k \in 1..N
    <3>1. PICK q : IsPart(parts[k].kind, parts[k].bytes, q)
      BY <2>1 DEF MadeOf
    <3>2. q \in 0..l(k) /\ l(k) \in Nat /\ l(k) > 0 /\ s[k] \in Nat
      BY <1>2, <1>3, <2>1, <3>1 DEF IsPart, Skips
    <3>3. q \in Nat /\ Inside(s[k], k, q)
      <4> DEFINE a == s[k]  b == l(k)
      <4>1. a \in Nat /\ b \in Nat /\ b > 0 /\ q \in 0..b
        BY <3>2
      <4> HIDE DEF a, b
      <4>2. q \in Nat /\ a <= a /\ a <= a + q /\ a < a + b
        BY <4>1
      <4> QED
        BY <3>1, <4>2 DEF a, b
    <3> HIDE DEF Behind, block, Inside
    <3>4. \A o \in 1..N : \A r \in Nat : Inside(s[k], o, r) /\ Behind(o) => f[s[k]] = block
      BY <1>12, <2>1
    <3> QED
      BY <1>12, <2>1, <3>3, <3>4
  <2>2. CASE k = N + 1
    <3>1. s[k] = n
      <4>1. s[k] \in Nat /\ n <= s[k]
        BY <1>3, <1>4, <2>2
      <4> DEFINE a == s[k]
      <4>2. a \in Nat /\ n <= a /\ a <= n
        BY <1>12, <4>1
      <4> HIDE DEF a, n
      <4>3. a = n
        BY <1>1, <4>2
      <4> QED
        BY <4>3 DEF a
    <3>2. n \in D /\ n + 4 > n
      BY <1>1 DEF Offsets
    <3>3. f[n] = NoBlock
      BY <3>2 DEF JpegStep
    <3>4. \A j \in 1..N : ~W(j)
      <4> SUFFICES ASSUME NEW j \in 1..N, W(j) PROVE FALSE
        OBVIOUS
      <4>1. k <= j
        BY <1>7, <1>12
      <4> QED
        BY <1>1, <2>2, <4>1
    <3> QED
      BY <1>5, <3>1, <3>3, <3>4
  <2> QED
    BY <1>1, <2>1, <2>2
<1>13. ASSUME NEW i \in D, \A j \in D : m[j] < m[i] => j \in S PROVE i \in S
  <2> SUFFICES ASSUME NEW k \in 1..N, NEW q \in Nat, Inside(i, k, q), Behind(k) PROVE f[i] = block
    OBVIOUS
  <2> DEFINE a == s[k]  b == parts[k].bytes  c == l(k)  kind == parts[k].kind  o == i - a
  <2>0. k \in 1..N + 1 /\ k + 1 \in 1..N + 1 /\ i \in Nat /\ i \in 0..n + 1
    BY <1>1 DEF Offsets
  <2>1. a \in Nat /\ c \in Nat /\ a <= i /\ i <= a + q /\ i < a + c /\ s[k + 1] = a + c
    BY <1>2, <1>3, <2>0
  <2>2. IsPart(kind, b, q) /\ b \in Seq(0..255) /\ Len(b) = c
    BY <1>2
  <2>3. o \in 0..q /\ o < c /\ a + o = i
    <3> HIDE DEF a, c
    <3> QED
      BY <2>0, <2>1
  <2>4. CASE i + 4 > n
    <3>1. f[i] = NoBlock
      BY <2>4 DEF JpegStep
    <3>2. block = NoBlock
      BY <1>11, <2>0, <2>4
    <3> QED
      BY <3>1, <3>2
  <2>5. CASE i + 4 <= n
    <3>1. PartVerdict(p, kind, b, a, o, q, f)
      <4>1. \A j \in 1..Len(b) : a + j <= Len(p) => p[a + j] = b[j]
        BY <1>4
      <4>2. (a + o) + 4 <= Len(p) /\ o < Len(b) /\ o \in 0..q
        BY <2>2, <2>3, <2>5
      <4> HIDE DEF a, b, o, kind
      <4> QED
        BY ONLY <1>1, <2>1, <2>2, <4>1, <4>2, OnePart
    <3>2. f[i] = JpegStep(p, i, f)
      OBVIOUS
    <3>3. \A j \in D : j > i => j \in S
      <4> SUFFICES ASSUME NEW j \in D, j > i PROVE j \in S
        OBVIOUS
      <4>1. m[j] < m[i]
        <5>1. j \in 0..n + 1 /\ m[j] = (n + 1) - j /\ m[i] = (n + 1) - i
          BY DEF Offsets
        <5> HIDE DEF m, n
        <5> QED
          BY <1>1, <2>0, <3>3, <5>1
      <4> HIDE DEF m, S, D
      <4> QED
        BY <1>13, <4>1
    <3>4. ASSUME kind # "exif", kind # "scan" PROVE Behind(k + 1)
      <4> SUFFICES ASSUME NEW j \in 1..(k + 1) - 1 PROVE parts[j].kind # "exif" /\ parts[j].kind # "scan"
        OBVIOUS
      <4>1. j = k \/ j \in 1..k - 1
        BY <2>0
      <4> QED
        BY <3>4, <4>1
    \* On to the next part.
    <3>5. ASSUME kind = "other", a + c <= n PROVE f[a + c] = block
      <4>1. Behind(k + 1)
        BY <3>4, <3>5
      <4>2. a + c \in D /\ a + c > i
        <5>1. a + c \in 0..n + 1 /\ a + c > i
          <6> HIDE DEF a, c, n
          <6> QED
            BY <1>1, <2>0, <2>1, <3>5
        <5> QED
          BY <5>1 DEF Offsets
      <4>3. a + c \in S
        <5> HIDE DEF a, c, S, D
        <5> QED
          BY <3>3, <4>2
      <4>4. s[k + 1] <= n /\ s[k + 1] \in S
        BY <2>1, <3>5, <4>3
      <4>5. f[s[k + 1]] = block
        <5> HIDE DEF Behind, S, block, s, n
        <5> QED
          BY <1>12, <2>0, <4>1, <4>4
      <4> QED
        BY <2>1, <4>5
    <3>6. ASSUME NEW j \in 1..N, W(j) PROVE k <= j /\ a + c <= n /\ kind # "scan"
      <4>1. k <= j
        BY <1>7, <2>0, <3>6
      <4> QED
        BY <1>8, <3>6, <4>1
    <3>7. CASE o < q /\ (o + 1 = Len(b) => kind = "other") /\ JpegStep(p, a + o, f) = f[a + (o + 1)]
      <4>1. f[i] = f[i + 1] /\ a + (o + 1) = i + 1
        <5>1. a + (o + 1) = i + 1
          <6> HIDE DEF a
          <6> QED
            BY <2>0, <2>1
        <5> QED
          BY <2>3, <3>2, <3>7, <5>1
      <4>2. CASE o + 1 = c
        <5>1. a + c = i + 1 /\ a + c <= n
          <6> HIDE DEF c, n, o
          <6> QED
            BY <1>1, <2>0, <2>5, <4>1, <4>2
        <5>2. kind = "other"
          BY <2>2, <3>7, <4>2
        <5> QED
          BY <3>5, <4>1, <5>1, <5>2
      <4>3. CASE o + 1 # c
        <5>1. i + 1 \in D /\ i + 1 > i
          BY <2>0, <2>5, <1>1 DEF Offsets
        <5>2. Inside(i + 1, k, q)
          <6>1. a <= i + 1 /\ i + 1 <= a + q /\ i + 1 < a + c
            <7>1. o < q /\ o < c /\ o \in Int /\ i = a + o
              BY <2>3, <3>7
            <7> HIDE DEF a, c, o
            <7> QED
              BY <2>1, <4>3, <7>1
          <6> QED
            BY <2>2, <6>1
        <5>3. i + 1 \in S
          <6> HIDE DEF S, D
          <6> QED
            BY <3>3, <5>1
        <5>4. f[i + 1] = block
          <6> HIDE DEF Inside, Behind, block
          <6> QED
            BY <5>2, <5>3
        <5> QED
          BY <4>1, <5>4
      <4> QED
        BY <4>2, <4>3
    <3>8. CASE kind = "other" /\ a + Len(b) <= Len(p) /\ JpegStep(p, a + o, f) = f[a + Len(b)]
      BY <2>2, <2>3, <3>2, <3>5, <3>8
    <3>9. CASE a + Len(b) > Len(p) /\ JpegStep(p, a + o, f) = NoBlock
      <4>1. ~(a + c <= n)
        <5>1. a + c > n
          BY <2>2, <3>9
        <5> HIDE DEF a, c, n
        <5> QED
          BY <1>1, <2>1, <5>1
      <4>2. \A j \in 1..N : ~W(j)
        BY <3>6, <4>1
      <4> QED
        BY <1>5, <2>3, <3>2, <3>9, <4>2
    <3>10. CASE kind = "scan" /\ JpegStep(p, a + o, f) = NoBlock
      <4>1. \A j \in 1..N : ~W(j)
        BY <3>6, <3>10
      <4> QED
        BY <1>5, <2>3, <3>2, <3>10, <4>1
    <3>11. CASE /\ kind = "exif" /\ a + Len(b) <= Len(p)
                /\ JpegStep(p, a + o, f) = [start |-> a + 4 + MarkLength, length |-> Len(b) - 4 - MarkLength]
      <4>1. s[k + 1] <= n
        BY <2>1, <2>2, <3>11
      <4>2. \A j \in 1..k : parts[j].kind # "scan"
        <5> SUFFICES ASSUME NEW j \in 1..k PROVE parts[j].kind # "scan"
          OBVIOUS
        <5>1. j = k \/ j \in 1..k - 1
          BY <2>0
        <5> QED
          BY <3>11, <5>1
      <4>3. W(k)
        BY <3>11, <4>1, <4>2 DEF JpegWholeAt
      <4>4. block = JpegFound(parts, k)
        BY <1>6, <4>3
      <4> QED
        BY <2>3, <3>2, <3>11, <4>4 DEF JpegFound
    <3> HIDE DEF a, b, o, kind, block, s
    <3> QED
      BY <3>1, <3>7, <3>8, <3>9, <3>10, <3>11 DEF PartVerdict
  <2> QED
    <3> HIDE DEF n
    <3> QED
      BY <1>1, <2>0, <2>4, <2>5
<1>14. \A i \in D : i \in S
  <2>1. m \in [D -> Nat]
    BY <1>1 DEF Offsets
  <2> HIDE DEF D, S, m
  <2> QED
    BY ONLY <1>13, <2>1, Inductively
<1>15. CASE n >= 2
  <2>1. 1 \in 1..N + 1 /\ Behind(1) /\ s[1] = 2 /\ s[1] <= n /\ s[1] \in D
    BY <1>1, <1>3, <1>15 DEF Offsets
  <2>2. f[s[1]] = block
    <3>1. s[1] \in S
      <4> HIDE DEF D, S, s
      <4> QED
        BY <1>14, <2>1
    <3> HIDE DEF S, s, n, Behind, block
    <3> QED
      BY <1>12, <2>1, <3>1
  <2> QED
    BY <1>15, <2>1, <2>2
<1>16. CASE ~(n >= 2)
  <2>1. ASSUME NEW j \in 1..N, W(j) PROVE FALSE
    <3>1. 1 \in 1..N /\ 1 <= j
      BY <1>1
    <3>2. s[1] + l(1) <= n
      BY <1>8, <2>1, <3>1
    <3> DEFINE a == l(1)
    <3>3. a \in Nat /\ 2 + a <= n
      BY <1>2, <1>3, <3>1, <3>2
    <3> HIDE DEF a, n
    <3> QED
      BY <1>1, <1>16, <3>3
  <2>2. block = NoBlock
    BY <1>5, <2>1
  <2> QED
    BY <1>16, <2>2
<1> QED
  BY <1>15, <1>16

JpegIsRight(p, parts) == JpegExif(p) = JpegBlock(parts, Len(p))

LEMMA JpegIs == ASSUME NEW p, NEW parts, MadeOf(p, parts) PROVE JpegIsRight(p, parts)
<1> DEFINE n == Len(p)  D == 0..n + 1  block == JpegBlock(parts, n)
     Body(i, f) ==
        IF i + 4 > n THEN NoBlock
        ELSE IF Byte(p, i) # FF \/ Byte(p, i + 1) = FF THEN f[i + 1]
        ELSE LET m == Byte(p, i + 1)
                 length == Be16(p, i + 2)
             IN IF m \in {SOI, EOI, 1} \/ IsRestart(m) THEN f[i + 2]
                ELSE IF m = SOS \/ length < 2 \/ i + 2 + length > n THEN NoBlock
                ELSE IF m = APP1 /\ length - 2 >= MarkLength /\ HasMark(p, i + 4)
                     THEN [start |-> i + 4 + MarkLength, length |-> (length - 2) - MarkLength]
                ELSE f[i + 2 + length]
     F == CHOOSE f : f = [i \in D |-> Body(i, f)]
<1>1. p \in Seq(0..255) /\ n \in Nat
  <2>1. p \in Seq(0..255)
    BY DEF MadeOf
  <2> QED
    BY <2>1, LenProperties
<1>2. JpegExif(p) = IF n < 4 \/ Byte(p, 0) # FF \/ Byte(p, 1) # SOI THEN NoBlock ELSE F[2]
  BY DEF JpegExif
<1>3. ASSUME NEW i, NEW f PROVE Body(i, f) = JpegStep(p, i, f)
  BY DEF JpegStep, NoLength
<1>4. PICK f \in [D -> Somewhere] : f = [i \in D |-> JpegStep(p, i, f)]
  <2>1. CanWalkJpeg(p)
    BY <1>1, JpegWalkExists
  <2> QED
    BY <2>1 DEF CanWalkJpeg, Offsets
<1>5. F = [i \in D |-> Body(i, F)]
  <2> HIDE DEF Body, D
  <2>1. f = [i \in D |-> Body(i, f)]
    BY <1>3, <1>4
  <2> QED
    BY <2>1
<1>6. \A i \in D : F[i] = JpegStep(p, i, F)
  <2> HIDE DEF F, Body, D
  <2> QED
    BY <1>3, <1>5
<1> HIDE DEF F
<1>7. IF n >= 2 THEN F[2] = block ELSE block = NoBlock
  <2>1. \A i \in Offsets(p) : F[i] = JpegStep(p, i, F)
    BY <1>6 DEF Offsets
  <2> QED
    BY ONLY <2>1, JpegWalkFinds, MadeOf(p, parts)
<1>8. CASE n < 4
  <2>1. CASE n >= 2
    <3>1. 2 \in D /\ 2 + 4 > n
      BY <1>1, <1>8, <2>1
    <3>2. JpegStep(p, 2, F) = NoBlock
      BY <3>1 DEF JpegStep
    <3>3. F[2] = NoBlock
      BY <1>6, <3>1, <3>2
    <3> QED
      BY <1>2, <1>7, <1>8, <2>1, <3>3 DEF JpegIsRight
  <2>2. CASE ~(n >= 2)
    BY <1>2, <1>7, <1>8, <2>2 DEF JpegIsRight
  <2> QED
    BY <2>1, <2>2
<1>9. CASE ~(n < 4)
  <2>1. n >= 1 /\ n >= 2
    <3> HIDE DEF n
    <3> QED
      BY <1>1, <1>9
  <2>2. Byte(p, 0) = FF /\ Byte(p, 1) = SOI
    BY <2>1 DEF MadeOf, Byte
  <2>3. JpegExif(p) = F[2] /\ F[2] = block
    <3> HIDE DEF block
    <3> QED
      BY <1>2, <1>7, <1>9, <2>1, <2>2
  <2> QED
    BY <2>3 DEF JpegIsRight
<1> QED
  BY <1>8, <1>9

-----------------------------------------------------------------------------
\* Files of any parts or chunks, cut anywhere, and blocks of any entries.
ExifNext ==
    \/ \E p \in Seq(0..255), parts \in Seq([kind : STRING, bytes : Seq(0..255)]) :
          MadeOf(p, parts) /\ ScanJpeg(parts, p)
    \/ \E chunks \in Seq([type : STRING, length : Nat, marked : BOOLEAN]), bytes \in Nat :
          LET file == [chunks |-> chunks, bytes |-> bytes] IN ScanPng(file) \/ ScanWebp(file)
    \/ \E order \in STRING, magic \in BOOLEAN, length, offset, stated \in Nat :
       \E entries \in Seq([tag : Nat, type : Nat, count : Nat, value : Nat]) :
          LET tiff == [order |-> order, magic |-> magic, length |-> length, offset |-> offset,
                       stated |-> stated, entries |-> entries]
          IN  IsTiff(tiff) /\ ParseTiff(tiff)
    \/ Forget

ExifSpec == call = NoCall /\ [][ExifNext]_call

\* Whatever an encoded file is made of and wherever it is cut: the scanner of its
\* container finds the Exif block that was written, if all of it is there, and nothing
\* else; and ph_parse_tiff_orientation() answers the value of the first conforming
\* entry, if it is whole and has a value.
THEOREM TagAlwaysFound == ExifSpec => []TagFound
<1>1. call = NoCall => TagFound
  BY DEF NoCall, TagFound
<1>2. TagFound /\ [ExifNext]_call => TagFound'
  <2> SUFFICES ASSUME TagFound, [ExifNext]_call PROVE TagFound'
    OBVIOUS
  <2>1. ASSUME NEW p, NEW parts, MadeOf(p, parts), ScanJpeg(parts, p) PROVE TagFound'
    <3> DEFINE given == [parts |-> parts, bytes |-> Len(p)]
    <3>1. call' = [what |-> "jpeg", given |-> given, answer |-> JpegExif(p)]
      BY <2>1 DEF ScanJpeg, Answer
    <3>2. JpegExif(p) = JpegBlock(given.parts, given.bytes)
      <4>1. given.parts = parts /\ given.bytes = Len(p)
        OBVIOUS
      <4> HIDE DEF given
      <4> QED
        BY <2>1, <4>1, JpegIs DEF JpegIsRight
    <3> HIDE DEF given
    <3>3. call'.what = "jpeg" /\ call'.given = given /\ call'.answer = JpegExif(p)
      BY <3>1
    <3> QED
      BY <3>2, <3>3 DEF TagFound
  <2>2. ASSUME NEW file, IsChunked(file), ScanPng(file) PROVE TagFound'
    <3>1. call' = [what |-> "png", given |-> file, answer |-> PngExif(file)]
      BY <2>2 DEF ScanPng, Answer
    <3>2. PngExif(file) = ChunkBlock(file, PngPayload(file), "eXIf", {"IEND"})
      BY <2>2, PngIs DEF PngIsRight
    <3>3. call'.what = "png" /\ call'.given = file /\ call'.answer = PngExif(file)
      BY <3>1
    <3> QED
      BY <3>2, <3>3 DEF TagFound
  <2>3. ASSUME NEW file, IsChunked(file), ScanWebp(file) PROVE TagFound'
    <3>1. call' = [what |-> "webp", given |-> file, answer |-> WebpExif(file)]
      BY <2>3 DEF ScanWebp, Answer
    <3>2. WebpExif(file) = ChunkBlock(file, WebpPayload(file), "EXIF", {})
      BY <2>3, WebpIs DEF WebpIsRight
    <3>3. call'.what = "webp" /\ call'.given = file /\ call'.answer = WebpExif(file)
      BY <3>1
    <3> QED
      BY <3>2, <3>3 DEF TagFound
  <2>4. ASSUME NEW tiff, IsTiff(tiff), ParseTiff(tiff) PROVE TagFound'
    <3>1. call' = [what |-> "tiff", given |-> tiff, answer |-> TiffOrientation(tiff)]
      BY <2>4 DEF ParseTiff, Answer
    <3>2. TiffIsRight(tiff)
      BY <2>4, TiffIs
    <3>3. call'.what = "tiff" /\ call'.given = tiff /\ call'.answer = TiffOrientation(tiff)
      BY <3>1
    <3> QED
      BY <3>2, <3>3 DEF TagFound, TiffIsRight
  <2>5. CASE Forget
    BY <2>5 DEF Forget, NoCall, TagFound
  <2>6. CASE UNCHANGED call
    BY <2>6 DEF TagFound
  <2>7. ASSUME NEW chunks \in Seq([type : STRING, length : Nat, marked : BOOLEAN]), NEW bytes \in Nat
        PROVE  IsChunked([chunks |-> chunks, bytes |-> bytes])
    BY DEF IsChunked
  <2>8. \/ \E p, parts : MadeOf(p, parts) /\ ScanJpeg(parts, p)
        \/ \E file : IsChunked(file) /\ (ScanPng(file) \/ ScanWebp(file))
        \/ \E tiff : IsTiff(tiff) /\ ParseTiff(tiff)
        \/ Forget \/ UNCHANGED call
    BY ONLY <2>7, [ExifNext]_call DEF ExifNext
  <2> QED
    BY ONLY <2>1, <2>2, <2>3, <2>4, <2>5, <2>6, <2>8
<1> QED
  BY <1>1, <1>2, PTL DEF ExifSpec
=============================================================================
