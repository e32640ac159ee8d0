---------------------------- MODULE Decode_proofs ----------------------------
(***************************************************************************)
(* Theorems of Decode for any files.  A backend is a sequence of steps, so  *)
(* its proof is an outline of it: what is allocated before each step (Held) *)
(* and what the jump branch knows of then (Known).  Sound says that every    *)
(* step, with what it frees on failure, agrees with the outline; it is      *)
(* proved once for each backend in each of its variants.  The invariant     *)
(* then says that a decode is at some place of the outline.                 *)
(***************************************************************************)
EXTENDS Decode, Recursion, SequenceTheorems, TLAPS

-----------------------------------------------------------------------------
\* The containers: what each walker accepts.

\* What the prover needs of it at every turn.
LEMMA PngTypes ==
    ASSUME NEW png, IsPngFile(png)
    PROVE  /\ Len(png.chunks) \in Nat /\ DOMAIN png.chunks = 1..Len(png.chunks)
           /\ png.bytes \in Nat /\ MaxChunk \in Nat
           /\ \A k \in 1..Len(png.chunks) : png.chunks[k].length \in Nat
<1>1. png.chunks \in Seq([type : STRING, length : Nat, sound : BOOLEAN]) /\ png.bytes \in Nat
  BY DEF IsPngFile
<1> DEFINE c == png.chunks
<1> HIDE DEF c
<1>2. c \in Seq([type : STRING, length : Nat, sound : BOOLEAN])
  BY <1>1 DEF c
<1>3. Len(c) \in Nat /\ DOMAIN c = 1..Len(c)
  BY <1>2, LenProperties
<1>5. \A k \in 1..Len(c) : c[k] \in [type : STRING, length : Nat, sound : BOOLEAN]
  BY <1>2, ElementOfSeq
<1>4. \A k \in 1..Len(c) : c[k].length \in Nat
  BY <1>5
<1> QED
  BY <1>1, <1>3, <1>4, MaxChunkAssumption DEF c

\* A chunk starts where the one before it ends.
LEMMA StartUnfolds ==
    ASSUME NEW png, IsPngFile(png)
    PROVE  /\ Start(png)[1] = 8
           /\ \A k \in 1..Len(png.chunks) + 1 : Start(png)[k] \in Nat
           /\ \A k \in 1..Len(png.chunks) : Start(png)[k + 1] = Start(png)[k] + Overhead + png.chunks[k].length
<1> DEFINE n == Len(png.chunks)  D == 1..n + 1
     Body(k, f) == IF k = 1 THEN 8 ELSE f[k - 1] + Overhead + png.chunks[k - 1].length
     step == [k \in D |-> [f \in [D -> Nat] |-> Body(k, f)]]
     m == [k \in D |-> k]
<1>0. n \in Nat /\ \A k \in 1..n : png.chunks[k].length \in Nat
  BY PngTypes
<1>1. n \in Nat /\ m \in [D -> 0..n + 1] /\ \A k \in 1..n : png.chunks[k].length \in Nat
  BY <1>0
<1>2. step \in [D -> [[D -> Nat] -> Nat]]
  <2>1. ASSUME NEW k \in D, NEW f \in [D -> Nat] PROVE Body(k, f) \in Nat
    <3>1. k # 1 => k - 1 \in D /\ k - 1 \in 1..n
      BY <1>1
    <3>2. k # 1 => f[k - 1] \in Nat /\ png.chunks[k - 1].length \in Nat
      BY <1>1, <3>1
    <3> QED
      BY <3>2 DEF Overhead
  <2> HIDE DEF Body
  <2> QED
    BY <2>1
<1>3. \A k \in D : \A g, h \in [D -> Nat] : (\A j \in D : m[j] < m[k] => g[j] = h[j]) => step[k][g] = step[k][h]
  <2> SUFFICES ASSUME NEW k \in D, NEW g \in [D -> Nat], NEW h \in [D -> Nat], \A j \in D : m[j] < m[k] => g[j] = h[j]
               PROVE  Body(k, g) = Body(k, h)
    OBVIOUS
  <2>1. k # 1 => k - 1 \in D /\ m[k - 1] < m[k]
    BY <1>1
  <2> QED
    BY <2>1
<1>4. \E f \in [D -> Nat] : f = [k \in D |-> step[k][f]]
  <2> HIDE DEF D, step, m, n
  <2>1. Recursive(D, Nat, m, step)
    BY <1>2, <1>3 DEF Recursive
  <2>2. n + 1 \in Nat
    BY <1>1
  <2> QED
    BY <1>1, <2>1, <2>2, RecursionExists
<1> DEFINE F == CHOOSE f : f = [k \in D |-> Body(k, f)]
<1>5. F = [k \in D |-> Body(k, F)]
  <2> HIDE DEF Body
  <2>1. \A k \in D : \A f \in [D -> Nat] : step[k][f] = Body(k, f)
    OBVIOUS
  <2> HIDE DEF step
  <2>2. \E f : f = [k \in D |-> Body(k, f)]
    BY <1>4, <2>1
  <2> QED
    BY <2>2
<1>6. Start(png) = F
  BY DEF Start
<1>7. \A k \in D : F[k] = Body(k, F)
  <2> HIDE DEF F, Body
  <2> QED
    BY <1>5
<1> HIDE DEF F
<1>8. F[1] = 8 /\ \A k \in 1..n : F[k + 1] = F[k] + Overhead + png.chunks[k].length
  <2>1. 1 \in D /\ \A k \in 1..n : k + 1 \in D /\ k + 1 # 1 /\ k + 1 - 1 = k
    BY <1>1
  <2> QED
    BY <1>7, <2>1
<1> DEFINE S == {k \in D : F[k] \in Nat}
<1>9. \A k \in D : k \in S
  <2>1. m \in [D -> Nat]
    OBVIOUS
  <2>2. ASSUME NEW k \in D, \A j \in D : m[j] < m[k] => j \in S PROVE k \in S
    <3>1. CASE k = 1
      BY <1>8, <3>1
    <3>2. CASE k # 1
      <4>1. k - 1 \in 1..n /\ k - 1 \in D /\ m[k - 1] < m[k] /\ (k - 1) + 1 = k
        BY <1>1, <3>2
      <4>2. F[k - 1] \in Nat /\ png.chunks[k - 1].length \in Nat
        BY <1>1, <2>2, <4>1
      <4>3. F[k] = F[k - 1] + Overhead + png.chunks[k - 1].length
        BY <1>8, <4>1
      <4> QED
        BY <4>2, <4>3 DEF Overhead
    <3> QED
      BY <3>1, <3>2
  <2> HIDE DEF D, S, m
  <2> QED
    BY <2>1, <2>2, Inductively
<1> QED
  BY <1>6, <1>8, <1>9

\* Chunk k is there, and may be passed over or is the last.
Fits(png, k) ==
    /\ png.bytes - Start(png)[k] >= Overhead
    /\ png.chunks[k].length <= MaxChunk
    /\ png.chunks[k].length <= png.bytes - Start(png)[k] - Overhead

Damaged(png, checking, k) == checking /\ Critical(png.chunks[k]) /\ ~png.chunks[k].sound

\* The walk accepts a PNG if it meets its end with every chunk up to there in place.
Accepts(png, checking, k, e) ==
    /\ e \in k..Len(png.chunks) /\ png.chunks[e].type = "IEND"
    /\ \A j \in k..e - 1 : png.chunks[j].type # "IEND"
    /\ \A j \in k..e : Fits(png, j) /\ ~Damaged(png, checking, j)

LEMMA PngCheckAccepts ==
    ASSUME NEW png, IsPngFile(png), NEW checking \in BOOLEAN
    PROVE  PngCheck(png, checking) = "whole" <=> \E e \in 1..Len(png.chunks) : Accepts(png, checking, 1, e)
<1> DEFINE n == Len(png.chunks)  D == 1..n + 1  V == {"whole", "truncated", "checksum"}
     Body(k, f) ==
            LET pos == Start(png)[k] IN
            IF k > n \/ png.bytes - pos < Overhead THEN "truncated"
            ELSE LET chunk == png.chunks[k] IN
                 IF chunk.length > MaxChunk \/ chunk.length > png.bytes - pos - Overhead THEN "truncated"
                 ELSE IF checking /\ Critical(chunk) /\ ~chunk.sound THEN "checksum"
                 ELSE IF chunk.type = "IEND" THEN "whole"
                 ELSE f[k + 1]
     step == [k \in D |-> [f \in [D -> V] |-> Body(k, f)]]
     m == [k \in D |-> n + 1 - k]
<1>0. n \in Nat
  BY PngTypes
<1>1. n \in Nat /\ m \in [D -> 0..n + 1]
  BY <1>0
<1>2. step \in [D -> [[D -> V] -> V]]
  <2>1. ASSUME NEW k \in D, NEW f \in [D -> V] PROVE Body(k, f) \in V
    <3>1. ~(k > n) => k + 1 \in D
      BY <1>1
    <3> QED
      BY <3>1
  <2> HIDE DEF Body
  <2> QED
    BY <2>1
<1>3. \A k \in D : \A g, h \in [D -> V] : (\A j \in D : m[j] < m[k] => g[j] = h[j]) => step[k][g] = step[k][h]
  <2> SUFFICES ASSUME NEW k \in D, NEW g \in [D -> V], NEW h \in [D -> V], \A j \in D : m[j] < m[k] => g[j] = h[j]
               PROVE  Body(k, g) = Body(k, h)
    OBVIOUS
  <2>1. ~(k > n) => k + 1 \in D /\ m[k + 1] < m[k]
    BY <1>1
  <2> QED
    BY <2>1
<1>4. \E f \in [D -> V] : f = [k \in D |-> step[k][f]]
  <2> HIDE DEF D, step, m, n
  <2>1. Recursive(D, V, m, step)
    BY <1>2, <1>3 DEF Recursive
  <2>2. n + 1 \in Nat
    BY <1>1
  <2> QED
    BY <1>1, <2>1, <2>2, RecursionExists
<1> DEFINE F == CHOOSE f : f = [k \in D |-> Body(k, f)]
<1>5. F = [k \in D |-> Body(k, F)]
  <2> HIDE DEF Body
  <2>1. \A k \in D : \A f \in [D -> V] : step[k][f] = Body(k, f)
    OBVIOUS
  <2> HIDE DEF step
  <2>2. \E f : f = [k \in D |-> Body(k, f)]
    BY <1>4, <2>1
  <2> QED
    BY <2>2
<1>6. PngCheck(png, checking) = F[1]
  BY DEF PngCheck
<1>7. \A k \in D : F[k] = Body(k, F)
  <2> HIDE DEF F, Body
  <2> QED
    BY <1>5
<1> HIDE DEF F
<1>8. F[n + 1] # "whole"
  <2>1. n + 1 \in D /\ n + 1 > n
    BY <1>1
  <2> QED
    BY <1>7, <2>1
<1>9. ASSUME NEW k \in 1..n
      PROVE  F[k] = "whole" <=> /\ Fits(png, k) /\ ~Damaged(png, checking, k)
                                /\ png.chunks[k].type = "IEND" \/ F[k + 1] = "whole"
  <2>1. k \in D /\ ~(k > n)
    BY <1>1
  <2>2. F[k] = Body(k, F)
    BY <1>7, <2>1
  <2>3. /\ Start(png)[k] \in Nat /\ png.bytes \in Nat /\ MaxChunk \in Nat /\ png.chunks[k].length \in Nat
    BY <2>1, StartUnfolds, PngTypes
  <2> DEFINE start == Start(png)[k]  chunk == png.chunks[k]
  <2>4. F[k] = IF png.bytes - start < Overhead THEN "truncated"
               ELSE IF chunk.length > MaxChunk \/ chunk.length > png.bytes - start - Overhead THEN "truncated"
               ELSE IF Damaged(png, checking, k) THEN "checksum"
               ELSE IF chunk.type = "IEND" THEN "whole" ELSE F[k + 1]
    BY <2>1, <2>2 DEF Damaged
  <2>5. Fits(png, k) <=> ~(png.bytes - start < Overhead) /\ ~(chunk.length > MaxChunk)
                         /\ ~(chunk.length > png.bytes - start - Overhead)
    <3>1. start \in Nat /\ png.bytes \in Nat /\ MaxChunk \in Nat /\ chunk.length \in Nat
      BY <2>3
    <3>2. Fits(png, k) <=> /\ png.bytes - start >= Overhead /\ chunk.length <= MaxChunk
                           /\ chunk.length <= png.bytes - start - Overhead
      BY Zenon DEF Fits
    <3> HIDE DEF start, chunk
    <3> QED
      BY <3>1, <3>2 DEF Overhead
  <2> QED
    BY <2>4, <2>5
<1> DEFINE S == {k \in D : F[k] = "whole" <=> \E e \in k..n : Accepts(png, checking, k, e)}
<1>10. \A k \in D : k \in S
  <2>1. m \in [D -> Nat]
    OBVIOUS
  <2>2. ASSUME NEW k \in D, \A j \in D : m[j] < m[k] => j \in S PROVE k \in S
    <3>1. CASE k = n + 1
      <4>1. k..n = {}
        BY <1>1, <3>1
      <4> QED
        BY <1>8, <3>1, <4>1
    <3>2. CASE k # n + 1
      <4>1. k \in 1..n /\ k + 1 \in D /\ m[k + 1] < m[k]
        BY <1>1, <3>2
      <4>2. F[k + 1] = "whole" <=> \E e \in k + 1..n : Accepts(png, checking, k + 1, e)
        BY <2>2, <4>1
      <4>3. \A e \in k..n : Accepts(png, checking, k, e) <=>
               /\ Fits(png, k) /\ ~Damaged(png, checking, k)
               /\ IF e = k THEN png.chunks[k].type = "IEND"
                  ELSE png.chunks[k].type # "IEND" /\ Accepts(png, checking, k + 1, e)
        <5> TAKE e \in k..n
        <5>1. CASE e = k
          <6>1. k..e = {k} /\ k..e - 1 = {}
            BY <4>1, <5>1
          <6> QED
            BY <5>1, <6>1 DEF Accepts
        <5>2. CASE e # k
          <6>1. e \in k + 1..n /\ k..e = {k} \cup (k + 1)..e /\ k..e - 1 = {k} \cup (k + 1)..e - 1
            BY <4>1, <5>2
          <6> QED
            BY <5>2, <6>1 DEF Accepts
        <5> QED
          BY <5>1, <5>2
      <4>4. F[k] = "whole" <=> /\ Fits(png, k) /\ ~Damaged(png, checking, k)
                               /\ png.chunks[k].type = "IEND" \/ F[k + 1] = "whole"
        BY <1>9, <4>1
      <4>5. k..n = {k} \cup (k + 1)..n /\ k \notin (k + 1)..n
        BY <4>1
      <4>6. k \in S <=> (F[k] = "whole" <=> \E e \in k..n : Accepts(png, checking, k, e))
        BY <4>1
      <4> HIDE DEF S, D, m, n
      <4> QED
        BY <4>2, <4>3, <4>4, <4>5, <4>6
    <3> QED
      BY <3>1, <3>2
  <2> HIDE DEF D, S, m
  <2> QED
    BY <2>1, <2>2, Inductively
<1>11. 1 \in D
  BY <1>1
<1> QED
  BY <1>6, <1>10, <1>11

\* The chunks follow one another.
LEMMA StartGrows ==
    ASSUME NEW png, IsPngFile(png), NEW e \in 1..Len(png.chunks) + 1
    PROVE  \A k \in 1..e : Start(png)[k] <= Start(png)[e]
<1> DEFINE n == Len(png.chunks)  D == 1..e
     m == [k \in D |-> e - k]
     S == {k \in D : Start(png)[k] <= Start(png)[e]}
<1>0. n \in Nat
  BY PngTypes
<1>1. n \in Nat /\ m \in [D -> Nat]
  BY <1>0
<1>2. ASSUME NEW k \in D, \A j \in D : m[j] < m[k] => j \in S PROVE k \in S
  <2>1. CASE k = e
    BY <2>1, <1>1, StartUnfolds
  <2>2. CASE k # e
    <3>1. k \in 1..n /\ k + 1 \in D /\ m[k + 1] < m[k] /\ k + 1 \in 1..n + 1
      BY <1>1, <2>2
    <3>2. Start(png)[k + 1] <= Start(png)[e]
      BY <1>2, <3>1
    <3>3. Start(png)[k + 1] = Start(png)[k] + Overhead + png.chunks[k].length
      BY <3>1, StartUnfolds
    <3>4. Start(png)[k] \in Nat /\ Start(png)[k + 1] \in Nat /\ Start(png)[e] \in Nat /\ png.chunks[k].length \in Nat
      BY <3>1, <1>1, StartUnfolds, PngTypes
    <3>5. Start(png)[k] <= Start(png)[e]
      <4> DEFINE here == Start(png)[k]  next == Start(png)[k + 1]  end == Start(png)[e]
           length == png.chunks[k].length
      <4>1. here \in Nat /\ next \in Nat /\ end \in Nat /\ length \in Nat
        BY ONLY <3>4
      <4>2. next <= end /\ next = here + 12 + length
        BY ONLY <3>2, <3>3 DEF Overhead
      <4> HIDE DEF here, next, end, length
      <4>3. here <= end
        BY ONLY <4>1, <4>2
      <4> QED
        BY ONLY <4>3 DEF here, end
    <3> QED
      BY <3>5
  <2> QED
    BY <2>1, <2>2
<1> HIDE DEF D, S, m
<1>3. \A k \in D : k \in S
  BY <1>1, <1>2, Inductively
<1> QED
  BY <1>3 DEF D, S

\* ph_png_check_chunks() accepts exactly the files with all their bytes up to the end of
\* IEND, and in the build that checks, those with sound critical chunks.
THEOREM PngCheckIsRight ==
    ASSUME NEW png, IsPngFile(png), png.bytes <= MaxChunk, NEW checking \in BOOLEAN
    PROVE  PngCheck(png, checking) = "whole" <=> PngComplete(png) /\ (checking => PngSound(png))
<1> DEFINE n == Len(png.chunks)
<1>1. /\ n \in Nat /\ DOMAIN png.chunks = 1..n /\ png.bytes \in Nat /\ MaxChunk \in Nat
      /\ \A k \in 1..n : png.chunks[k].length \in Nat
  BY PngTypes
<1>2. \A k \in 1..n : k + 1 \in 1..n + 1 /\ k \in 1..n + 1
  BY <1>1
<1>3. \A k \in 1..n : Start(png)[k] \in Nat /\ Start(png)[k + 1] \in Nat
                   /\ Start(png)[k + 1] = Start(png)[k] + Overhead + png.chunks[k].length
  BY <1>2, StartUnfolds
<1>4. \A k \in 1..n : Fits(png, k) <=> Start(png)[k + 1] <= png.bytes
  <2> SUFFICES ASSUME NEW k \in 1..n PROVE Fits(png, k) <=> Start(png)[k + 1] <= png.bytes
    OBVIOUS
  <2> DEFINE start == Start(png)[k]  next == Start(png)[k + 1]  length == png.chunks[k].length
  <2>1. /\ start \in Nat /\ next = start + 12 + length /\ length \in Nat
        /\ png.bytes \in Nat /\ MaxChunk \in Nat /\ png.bytes <= MaxChunk
    BY <1>1, <1>3 DEF Overhead
  <2>2. Fits(png, k) <=> png.bytes - start >= 12 /\ length <= MaxChunk /\ length <= png.bytes - start - 12
    BY DEF Fits, Overhead
  <2> HIDE DEF start, next, length
  <2>3. next <= png.bytes <=> png.bytes - start >= 12 /\ length <= MaxChunk /\ length <= png.bytes - start - 12
    BY <2>1
  <2> QED
    BY <2>2, <2>3 DEF next
<1>5. \A e \in 1..n : Start(png)[e + 1] <= png.bytes => \A k \in 1..e : Fits(png, k)
  <2> SUFFICES ASSUME NEW e \in 1..n, Start(png)[e + 1] <= png.bytes, NEW k \in 1..e PROVE Fits(png, k)
    OBVIOUS
  <2>1. k \in 1..n /\ k + 1 \in 1..e + 1 /\ e + 1 \in 1..n + 1
    BY <1>1
  <2>2. Start(png)[k + 1] <= Start(png)[e + 1]
    BY <2>1, StartGrows
  <2>3. Start(png)[k + 1] \in Nat /\ Start(png)[e + 1] \in Nat
    BY <2>1, <1>3
  <2> QED
    BY <1>1, <1>4, <2>1, <2>2, <2>3
<1>6. \A e \in 1..n : e \in PngEnd(png) <=> png.chunks[e].type = "IEND" /\ \A j \in 1..e - 1 : png.chunks[j].type # "IEND"
  BY <1>1 DEF PngEnd
<1>7. ASSUME NEW e \in PngEnd(png), NEW d \in PngEnd(png) PROVE e = d
  BY <1>1, <1>7 DEF PngEnd
<1>8. \A e \in 1..n : Accepts(png, checking, 1, e) <=>
          /\ e \in PngEnd(png) /\ Start(png)[e + 1] <= png.bytes
          /\ \A j \in 1..e : ~Damaged(png, checking, j)
  <2> TAKE e \in 1..n
  <2>1. e \in 1..e
    BY <1>1
  <2> QED
    BY <1>4, <1>5, <1>6, <2>1 DEF Accepts
<1>9. \A e \in PngEnd(png) : (\A j \in 1..e : ~Damaged(png, checking, j)) <=> (checking => PngSound(png))
  <2> TAKE e \in PngEnd(png)
  <2>1. e \in 1..n /\ \A j \in 1..n : j <= e <=> j \in 1..e
    BY <1>1 DEF PngEnd
  <2>2. \A j \in 1..e : j \in 1..n
    BY <1>1, <2>1
  <2>3. PngSound(png) <=> \A j \in 1..e : Critical(png.chunks[j]) => png.chunks[j].sound
    BY <1>1, <1>7, <2>1, <2>2 DEF PngSound
  <2> QED
    BY <2>3 DEF Damaged
<1>10. PngEnd(png) \subseteq 1..n
  BY <1>1 DEF PngEnd
<1>11. PngCheck(png, checking) = "whole" <=> \E e \in 1..n : Accepts(png, checking, 1, e)
  BY PngCheckAccepts
<1> HIDE DEF n
<1> QED
  BY <1>8, <1>9, <1>10, <1>11 DEF PngComplete

\* A PNG that is whole and sound up to IEND is so up to the end of its image data.
LEMMA WholeIsContent ==
    ASSUME NEW png, IsPngFile(png), png.bytes <= MaxChunk, HasImageData(png.chunks),
           PngComplete(png), PngSound(png)
    PROVE  LET last == CHOOSE k \in DOMAIN png.chunks :
                    /\ png.chunks[k].type = "IDAT"
                    /\ \A j \in DOMAIN png.chunks : png.chunks[j].type = "IDAT" => j <= k
           IN  /\ Start(png)[last + 1] <= png.bytes
               /\ \A j \in 1..last : png.chunks[j].length <= MaxChunk
                                     /\ (Critical(png.chunks[j]) => png.chunks[j].sound)
<1> DEFINE n == Len(png.chunks)
     Data == {k \in 1..n : png.chunks[k].type = "IDAT"}
     Distances == {n - k : k \in Data}
     last == CHOOSE k \in DOMAIN png.chunks :
                    /\ png.chunks[k].type = "IDAT"
                    /\ \A j \in DOMAIN png.chunks : png.chunks[j].type = "IDAT" => j <= k
<1>1. /\ n \in Nat /\ DOMAIN png.chunks = 1..n /\ png.bytes \in Nat /\ MaxChunk \in Nat
      /\ \A k \in 1..n : png.chunks[k].length \in Nat
  BY PngTypes
<1>2. \E k \in 1..n : png.chunks[k].type = "IDAT" /\ \A j \in 1..n : png.chunks[j].type = "IDAT" => j <= k
  <2>0. PICK image \in 1..n : png.chunks[image].type = "IDAT"
    BY <1>1 DEF HasImageData
  <2>1. Distances \subseteq Nat /\ Distances # {}
    <3>1. \A k \in Data : n - k \in Nat
      BY <1>1
    <3>2. n - image \in Distances
      BY <2>0
    <3> QED
      BY <3>1, <3>2
  <2>2. PICK d \in Distances : \A z \in Distances : d <= z
    BY <2>1, LeastOne
  <2>3. PICK k \in Data : d = n - k
    BY <2>2
  <2>4. ASSUME NEW j \in Data PROVE j <= k
    <3>1. n - k <= n - j
      BY <2>2, <2>3
    <3> QED
      BY <1>1, <3>1
  <2> QED
    BY <2>3, <2>4
<1>3. last \in 1..n /\ png.chunks[last].type = "IDAT"
  <2>1. \E k \in DOMAIN png.chunks : png.chunks[k].type = "IDAT"
           /\ \A j \in DOMAIN png.chunks : png.chunks[j].type = "IDAT" => j <= k
    BY <1>1, <1>2
  <2> QED
    BY <1>1, <2>1
<1> HIDE DEF last
<1>4. PICK e \in PngEnd(png) : Start(png)[e + 1] <= png.bytes
  BY DEF PngComplete
<1>5. e \in 1..n /\ png.chunks[e].type = "IEND"
  BY <1>1 DEF PngEnd
<1>6. last < e
  BY <1>1, <1>3, <1>5 DEF HasImageData
<1>7. ASSUME NEW j \in 1..last
      PROVE  /\ Start(png)[j + 1] <= png.bytes /\ png.chunks[j].length <= MaxChunk
             /\ Critical(png.chunks[j]) => png.chunks[j].sound
  <2>1. j \in 1..n /\ j <= e /\ j + 1 \in 1..e + 1 /\ e + 1 \in 1..n + 1
    BY <1>1, <1>3, <1>5, <1>6
  <2>2. Start(png)[j + 1] <= Start(png)[e + 1]
    BY <2>1, StartGrows
  <2>3. /\ j \in 1..n + 1 /\ j + 1 \in 1..n + 1
    BY <1>1, <2>1
  <2>4. /\ Start(png)[j] \in Nat /\ Start(png)[j + 1] \in Nat /\ Start(png)[e + 1] \in Nat
        /\ Start(png)[j + 1] = Start(png)[j] + Overhead + png.chunks[j].length
    BY <2>1, <2>3, StartUnfolds
  <2>5. Start(png)[j + 1] <= png.bytes
    BY <1>1, <1>4, <2>2, <2>4
  <2>6. png.chunks[j].length <= MaxChunk
    <3> DEFINE from == Start(png)[j]  to == Start(png)[j + 1]  length == png.chunks[j].length
    <3>1. /\ from \in Nat /\ to = from + 12 + length /\ length \in Nat /\ to <= png.bytes
          /\ png.bytes \in Nat /\ MaxChunk \in Nat /\ png.bytes <= MaxChunk
      BY <1>1, <2>1, <2>4, <2>5 DEF Overhead
    <3> HIDE DEF from, to, length
    <3>2. length <= MaxChunk
      BY <3>1
    <3> QED
      BY <3>2 DEF length
  <2> QED
    BY <1>1, <2>1, <2>5, <2>6 DEF PngSound
<1>8. last \in 1..last
  BY <1>3
<1> QED
  BY <1>7, <1>8 DEF last

-----------------------------------------------------------------------------
LEMMA JpegTypes ==
    ASSUME NEW p, IsJpegFile(p)
    PROVE  Len(p) \in Nat /\ \A k \in 0..Len(p) - 1 : Byte(p, k) \in 0..255
<1>1. Len(p) \in Nat /\ \A k \in 1..Len(p) : p[k] \in 0..255
  BY LenProperties, ElementOfSeq DEF IsJpegFile
<1>2. \A k \in 0..Len(p) - 1 : k + 1 \in 1..Len(p)
  BY <1>1
<1> QED
  BY <1>1, <1>2 DEF Byte

\* k is where a run of (or without) FF that starts at pos is over.
RunsTo(p, pos, isFF, k) ==
    /\ k \in pos..Len(p)
    /\ k = Len(p) \/ (Byte(p, k) = FF) # isFF
    /\ \A i \in pos..k - 1 : (Byte(p, i) = FF) = isFF

LEMMA SkipRuns ==
    ASSUME NEW p, IsJpegFile(p), NEW pos \in 0..Len(p), NEW isFF \in BOOLEAN
    PROVE  \A k : RunsTo(p, pos, isFF, k) <=> k = Skip(p, pos, isFF)
<1> DEFINE n == Len(p)  T == {k \in pos..n : k = n \/ (Byte(p, k) = FF) # isFF}
<1>1. n \in Nat /\ n \in T /\ T \subseteq Nat /\ T # {}
  BY JpegTypes
<1>2. PICK k \in T : \A j \in T : k <= j
  BY <1>1, LeastOne
<1>3. \A i \in pos..k - 1 : i \notin T /\ i \in pos..n /\ i # n
  BY <1>1, <1>2
<1>4. RunsTo(p, pos, isFF, k)
  BY <1>2, <1>3 DEF RunsTo
<1>5. RunsTo(p, pos, isFF, Skip(p, pos, isFF))
  BY <1>4 DEF RunsTo, Skip
<1>6. ASSUME NEW i, NEW j, RunsTo(p, pos, isFF, i), RunsTo(p, pos, isFF, j), i < j PROVE FALSE
  <2>1. i \in pos..j - 1 /\ i # n
    BY <1>1, <1>6 DEF RunsTo
  <2> QED
    BY <1>6, <2>1 DEF RunsTo
<1>7. ASSUME NEW i, NEW j, RunsTo(p, pos, isFF, i), RunsTo(p, pos, isFF, j) PROVE i = j
  <2>1. i \in Int /\ j \in Int
    BY <1>1, <1>7 DEF RunsTo
  <2>2. ~(i < j) /\ ~(j < i)
    BY <1>6, <1>7
  <2> QED
    BY <2>1, <2>2
<1> QED
  BY <1>5, <1>7

LEMMA EntropyUnfolds ==
    ASSUME NEW p, IsJpegFile(p)
    PROVE  \A k \in 0..Len(p) :
            /\ EntropyEnd(p, k) \in k..Len(p)
            /\ EntropyEnd(p, k) =
                  IF k = Len(p) THEN Len(p)
                  ELSE IF Byte(p, k) # FF THEN EntropyEnd(p, k + 1)
                  ELSE IF k + 1 >= Len(p) THEN Len(p)
                  ELSE IF Byte(p, k + 1) = 0 \/ IsRestart(Byte(p, k + 1)) THEN EntropyEnd(p, k + 2)
                  ELSE k
<1> DEFINE n == Len(p)  D == 0..n
     Body(k, f) == IF k = n THEN n
            ELSE IF Byte(p, k) # FF THEN f[k + 1]
            ELSE IF k + 1 >= n THEN n
            ELSE IF Byte(p, k + 1) = 0 \/ IsRestart(Byte(p, k + 1)) THEN f[k + 2]
            ELSE k
     step == [k \in D |-> [f \in [D -> D] |-> Body(k, f)]]
     m == [k \in D |-> n - k]
<1>0. n \in Nat
  BY JpegTypes
<1>1. /\ m \in [D -> 0..n] /\ m \in [D -> Nat]
      /\ \A k \in D : k # n => k + 1 \in D /\ m[k + 1] < m[k]
      /\ \A k \in D : ~(k + 1 >= n) => k + 2 \in D /\ m[k + 2] < m[k]
  BY <1>0
<1>2. step \in [D -> [[D -> D] -> D]]
  <2>1. ASSUME NEW k \in D, NEW f \in [D -> D] PROVE Body(k, f) \in D
    <3>1. n \in D
      BY <1>0
    <3> HIDE DEF D
    <3> QED
      BY <1>1, <3>1
  <2> HIDE DEF Body
  <2> QED
    BY <2>1
<1>3. \A k \in D : \A g, h \in [D -> D] : (\A j \in D : m[j] < m[k] => g[j] = h[j]) => step[k][g] = step[k][h]
  <2> SUFFICES ASSUME NEW k \in D, NEW g \in [D -> D], NEW h \in [D -> D], \A j \in D : m[j] < m[k] => g[j] = h[j]
               PROVE  Body(k, g) = Body(k, h)
    OBVIOUS
  <2>1. (k # n => g[k + 1] = h[k + 1]) /\ (~(k + 1 >= n) => g[k + 2] = h[k + 2])
    BY <1>1
  <2> QED
    BY <2>1
<1>4. \E f \in [D -> D] : f = [k \in D |-> step[k][f]]
  <2>1. D # {}
    BY <1>0
  <2> HIDE DEF D, step, m, n
  <2>2. Recursive(D, D, m, step)
    BY <1>2, <1>3, <2>1 DEF Recursive
  <2> QED
    BY <1>0, <1>1, <2>2, RecursionExists
<1> DEFINE F == CHOOSE f : f = [k \in D |-> Body(k, f)]
<1>5. F = [k \in D |-> Body(k, F)]
  <2> HIDE DEF Body
  <2>1. \A k \in D : \A f \in [D -> D] : step[k][f] = Body(k, f)
    OBVIOUS
  <2> HIDE DEF step
  <2>2. \E f : f = [k \in D |-> Body(k, f)]
    BY <1>4, <2>1
  <2> QED
    BY <2>2
<1>6. \A k \in D : EntropyEnd(p, k) = F[k]
  BY DEF EntropyEnd
<1>7. \A k \in D : F[k] = Body(k, F)
  <2> HIDE DEF F, Body
  <2> QED
    BY <1>5
<1> HIDE DEF F
<1>8. \A k \in D : EntropyEnd(p, k) = IF k = n THEN n
                  ELSE IF Byte(p, k) # FF THEN EntropyEnd(p, k + 1)
                  ELSE IF k + 1 >= n THEN n
                  ELSE IF Byte(p, k + 1) = 0 \/ IsRestart(Byte(p, k + 1)) THEN EntropyEnd(p, k + 2)
                  ELSE k
  <2> HIDE DEF D
  <2> QED
    BY <1>1, <1>6, <1>7
<1> DEFINE S == {k \in D : EntropyEnd(p, k) \in k..n}
<1>9. \A k \in D : k \in S
  <2>1. ASSUME NEW k \in D, \A j \in D : m[j] < m[k] => j \in S PROVE k \in S
    <3>1. (k # n => EntropyEnd(p, k + 1) \in k + 1..n) /\ (~(k + 1 >= n) => EntropyEnd(p, k + 2) \in k + 2..n)
      BY <1>1, <2>1
    <3>2. n \in k..n /\ k \in k..n /\ (\A x \in k + 1..n : x \in k..n) /\ (\A x \in k + 2..n : x \in k..n)
      BY <1>0
    <3> QED
      BY <1>8, <3>1, <3>2
  <2> HIDE DEF D, S, m
  <2> QED
    BY <1>1, <2>1, Inductively
<1> QED
  BY <1>8, <1>9

\* The parts of JpegComplete: a marker, data of a scan, and what a JPEG that ends as it
\* should has from i on, when f tells of the places behind i.
MarkerAt(p, i, k) == k \in i + 1..Len(p) - 1 /\ Byte(p, k) # FF /\ \A j \in i..k - 1 : Byte(p, j) = FF

DataBetween(p, i, j) ==
    \A q \in i..j - 1 : Byte(p, q) = FF => q + 1 < j /\ (Byte(p, q + 1) = 0 \/ IsRestart(Byte(p, q + 1)))

GoesOn(p, k, f) ==
    \E after \in k + 3..Len(p) :
       /\ after - (k + 1) = Be16(p, k + 1)
       /\ IF Byte(p, k) = SOS THEN \E j \in after..Len(p) : DataBetween(p, after, j) /\ f[j]
                              ELSE f[after]

EndsFrom(p, i, f) ==
    /\ i < Len(p)
    /\ \/ Byte(p, i) # FF /\ f[i + 1]
       \/ \E k \in i + 1..Len(p) - 1 :
             /\ MarkerAt(p, i, k)
             /\ \/ Byte(p, k) = EOI
                \/ Standalone(Byte(p, k)) /\ f[k + 1]
                \/ /\ Byte(p, k) # EOI /\ ~Standalone(Byte(p, k)) /\ k + 2 < Len(p)
                   /\ GoesOn(p, k, f)

JpegEnds(p) == CHOOSE f : f = [i \in 0..Len(p) |-> EndsFrom(p, i, f)]

LEMMA CompleteIsEnds ==
    ASSUME NEW p
    PROVE  JpegComplete(p) <=> Len(p) >= 2 /\ Byte(p, 0) = FF /\ Byte(p, 1) = SOI /\ JpegEnds(p)[2]
BY DEF JpegComplete, JpegEnds, EndsFrom, GoesOn, MarkerAt, DataBetween

LEMMA EndsLooksAhead ==
    ASSUME NEW p, IsJpegFile(p), NEW i \in 0..Len(p), NEW f, NEW g, \A j \in i + 1..Len(p) : f[j] = g[j]
    PROVE  EndsFrom(p, i, f) = EndsFrom(p, i, g)
<1> DEFINE n == Len(p)
<1>1. n \in Nat
  BY JpegTypes
<1>2. ASSUME NEW k \in i + 1..n - 1 PROVE GoesOn(p, k, f) = GoesOn(p, k, g)
  <2>1. \A a \in k + 3..n : a \in i + 1..n /\ \A j \in a..n : j \in i + 1..n
    BY <1>1
  <2>2. \A a \in k + 3..n : f[a] = g[a] /\ \A j \in a..n : f[j] = g[j]
    BY <2>1
  <2> QED
    BY <2>2 DEF GoesOn
<1>3. (i < n => f[i + 1] = g[i + 1]) /\ \A k \in i + 1..n - 1 : f[k + 1] = g[k + 1]
  <2>1. (i < n => i + 1 \in i + 1..n) /\ \A k \in i + 1..n - 1 : k + 1 \in i + 1..n
    BY <1>1
  <2> QED
    BY <2>1
<1> QED
  BY <1>2, <1>3 DEF EndsFrom

LEMMA EndsUnfolds ==
    ASSUME NEW p, IsJpegFile(p)
    PROVE  \A i \in 0..Len(p) : JpegEnds(p)[i] = EndsFrom(p, i, JpegEnds(p)) /\ JpegEnds(p)[i] \in BOOLEAN
<1> DEFINE n == Len(p)  D == 0..n
     step == [i \in D |-> [f \in [D -> BOOLEAN] |-> EndsFrom(p, i, f)]]
     m == [i \in D |-> n - i]
<1>0. n \in Nat
  BY JpegTypes
<1>1. m \in [D -> 0..n]
  BY <1>0
<1>2. step \in [D -> [[D -> BOOLEAN] -> BOOLEAN]]
  <2>1. \A i : \A f : EndsFrom(p, i, f) \in BOOLEAN
    BY DEF EndsFrom
  <2> QED
    BY <2>1
<1>3. \A i \in D : \A g, h \in [D -> BOOLEAN] :
         (\A j \in D : m[j] < m[i] => g[j] = h[j]) => step[i][g] = step[i][h]
  <2> SUFFICES ASSUME NEW i \in D, NEW g \in [D -> BOOLEAN], NEW h \in [D -> BOOLEAN],
                      \A j \in D : m[j] < m[i] => g[j] = h[j]
               PROVE  EndsFrom(p, i, g) = EndsFrom(p, i, h)
    OBVIOUS
  <2>1. \A j \in i + 1..n : j \in D /\ m[j] < m[i]
    BY <1>0
  <2> QED
    BY <2>1, EndsLooksAhead
<1>4. \E f \in [D -> BOOLEAN] : f = [i \in D |-> step[i][f]]
  <2> HIDE DEF D, step, m, n
  <2>2. Recursive(D, BOOLEAN, m, step)
    BY <1>2, <1>3 DEF Recursive
  <2> QED
    BY <1>0, <1>1, <2>2, RecursionExists
<1>5. \A i \in D : \A f \in [D -> BOOLEAN] : step[i][f] = EndsFrom(p, i, f)
  OBVIOUS
<1> HIDE DEF step
<1>6. \E f \in [D -> BOOLEAN] : f = [i \in D |-> EndsFrom(p, i, f)]
  BY <1>4, <1>5
<1>7. JpegEnds(p) = [i \in D |-> EndsFrom(p, i, JpegEnds(p))]
  BY <1>6 DEF JpegEnds
<1>8. \A i : EndsFrom(p, i, JpegEnds(p)) \in BOOLEAN
  BY DEF EndsFrom
<1> QED
  BY <1>7, <1>8

\* A stray byte is passed over; after FF there is one marker, which decides.
LEMMA EndsCases ==
    ASSUME NEW p, IsJpegFile(p), NEW i \in 0..Len(p)
    PROVE  /\ i = Len(p) => ~JpegEnds(p)[i]
           /\ i # Len(p) /\ Byte(p, i) # FF => JpegEnds(p)[i] = JpegEnds(p)[i + 1]
           /\ i # Len(p) /\ Byte(p, i) = FF /\ (\A j \in i..Len(p) - 1 : Byte(p, j) = FF) => ~JpegEnds(p)[i]
           /\ \A k : MarkerAt(p, i, k) =>
                 (JpegEnds(p)[i] <=>
                    \/ Byte(p, k) = EOI
                    \/ Standalone(Byte(p, k)) /\ JpegEnds(p)[k + 1]
                    \/ /\ Byte(p, k) # EOI /\ ~Standalone(Byte(p, k)) /\ k + 2 < Len(p)
                       /\ GoesOn(p, k, JpegEnds(p)))
<1> DEFINE n == Len(p)  E == JpegEnds(p)
     Decides(k) == \/ Byte(p, k) = EOI
                   \/ Standalone(Byte(p, k)) /\ E[k + 1]
                   \/ /\ Byte(p, k) # EOI /\ ~Standalone(Byte(p, k)) /\ k + 2 < n
                      /\ GoesOn(p, k, E)
<1>1. n \in Nat
  BY JpegTypes
<1>2. E[i] \in BOOLEAN /\ (i # n => E[i + 1] \in BOOLEAN)
  <2>1. i # n => i + 1 \in 0..n
    BY <1>1
  <2> QED
    BY <2>1, EndsUnfolds
<1>3. E[i] = (i < n /\ ((Byte(p, i) # FF /\ E[i + 1]) \/ \E k \in i + 1..n - 1 : MarkerAt(p, i, k) /\ Decides(k)))
  BY EndsUnfolds DEF EndsFrom
<1> HIDE DEF E, Decides
<1>4. \A k : MarkerAt(p, i, k) => k \in i + 1..n - 1 /\ i < n /\ Byte(p, i) = FF /\ Byte(p, k) # FF
  <2> SUFFICES ASSUME NEW k, MarkerAt(p, i, k) PROVE k \in i + 1..n - 1 /\ i < n /\ Byte(p, i) = FF /\ Byte(p, k) # FF
    OBVIOUS
  <2>1. k \in i + 1..n - 1 /\ i \in i..k - 1 /\ i < n
    BY <1>1 DEF MarkerAt
  <2> QED
    BY <2>1 DEF MarkerAt
<1>5. \A j, k : MarkerAt(p, i, j) /\ MarkerAt(p, i, k) => j = k
  <2> SUFFICES ASSUME NEW j, NEW k, MarkerAt(p, i, j), MarkerAt(p, i, k), j # k PROVE FALSE
    OBVIOUS
  <2>1. j \in i + 1..n - 1 /\ k \in i + 1..n - 1
    BY DEF MarkerAt
  <2>2. j \in i..k - 1 \/ k \in i..j - 1
    BY <1>1, <2>1
  <2> QED
    BY <2>2 DEF MarkerAt
<1>6. i = n => ~E[i]
  <2>1. i = n => ~(i < n)
    BY <1>1
  <2> QED
    BY <1>3, <2>1
<1>7. i # n /\ Byte(p, i) # FF => E[i] = E[i + 1]
  BY <1>1, <1>2, <1>3, <1>4
<1>8. i # n /\ Byte(p, i) = FF /\ (\A j \in i..n - 1 : Byte(p, j) = FF) => ~E[i]
  <2>1. \A k \in i + 1..n - 1 : k \in i..n - 1
    BY <1>1
  <2> QED
    BY <1>2, <1>3, <1>4, <2>1
<1>9. \A k : MarkerAt(p, i, k) => (E[i] <=> Decides(k))
  BY <1>2, <1>3, <1>4, <1>5
<1> QED
  BY <1>6, <1>7, <1>8, <1>9 DEF E, Decides

\* FF with 0 or a restart marker after it is passed over too.
LEMMA EndsPassesPairs ==
    ASSUME NEW p, IsJpegFile(p), NEW i \in 0..Len(p), i + 1 < Len(p), Byte(p, i) = FF,
           Byte(p, i + 1) = 0 \/ IsRestart(Byte(p, i + 1))
    PROVE  JpegEnds(p)[i] = JpegEnds(p)[i + 2]
<1>1. Len(p) \in Nat /\ i + 1 \in i + 1..Len(p) - 1 /\ i..(i + 1) - 1 = {i} /\ (i + 1) + 1 = i + 2 /\ i + 2 \in 0..Len(p)
  BY JpegTypes
<1>2. Byte(p, i + 1) # FF /\ Byte(p, i + 1) # EOI /\ Standalone(Byte(p, i + 1))
  BY DEF IsRestart, Standalone, FF, EOI
<1>3. MarkerAt(p, i, i + 1)
  BY <1>1, <1>2 DEF MarkerAt
<1>4. JpegEnds(p)[i] <=> JpegEnds(p)[i + 2]
  BY <1>1, <1>2, <1>3, EndsCases
<1> QED
  BY <1>1, <1>4, EndsUnfolds

\* So where the data of a scan gives way decides what its start decides,
LEMMA EndsThroughEntropy ==
    ASSUME NEW p, IsJpegFile(p)
    PROVE  \A i \in 0..Len(p) : JpegEnds(p)[i] = JpegEnds(p)[EntropyEnd(p, i)]
<1> DEFINE n == Len(p)  D == 0..n
     m == [i \in D |-> n - i]
     S == {i \in D : JpegEnds(p)[i] = JpegEnds(p)[EntropyEnd(p, i)]}
<1>1. n \in Nat /\ m \in [D -> Nat]
  <2>1. n \in Nat
    BY JpegTypes
  <2> QED
    BY <2>1
<1>2. ASSUME NEW i \in D, \A j \in D : m[j] < m[i] => j \in S PROVE i \in S
  <2>1. EntropyEnd(p, i) = IF i = n THEN n
                  ELSE IF Byte(p, i) # FF THEN EntropyEnd(p, i + 1)
                  ELSE IF i + 1 >= n THEN n
                  ELSE IF Byte(p, i + 1) = 0 \/ IsRestart(Byte(p, i + 1)) THEN EntropyEnd(p, i + 2)
                  ELSE i
    BY EntropyUnfolds
  <2>2. CASE i # n /\ Byte(p, i) # FF
    <3>1. i + 1 \in D /\ m[i + 1] < m[i]
      BY <1>1, <2>2
    <3>2. JpegEnds(p)[i] = JpegEnds(p)[i + 1]
      BY <2>2, EndsCases
    <3> QED
      BY <1>2, <2>1, <2>2, <3>1, <3>2
  <2>3. CASE i # n /\ Byte(p, i) = FF /\ i + 1 >= n
    <3>1. n \in D /\ i..n - 1 = {i}
      BY <1>1, <2>3
    <3>2. ~JpegEnds(p)[i] /\ ~JpegEnds(p)[n] /\ JpegEnds(p)[i] \in BOOLEAN /\ JpegEnds(p)[n] \in BOOLEAN
      BY <2>3, <3>1, EndsCases, EndsUnfolds
    <3> QED
      BY <2>1, <2>3, <3>2
  <2>4. CASE i # n /\ Byte(p, i) = FF /\ ~(i + 1 >= n) /\ (Byte(p, i + 1) = 0 \/ IsRestart(Byte(p, i + 1)))
    <3>1. i + 2 \in D /\ m[i + 2] < m[i] /\ i + 1 < n
      BY <1>1, <2>4
    <3>2. JpegEnds(p)[i] = JpegEnds(p)[i + 2]
      BY <2>4, <3>1, EndsPassesPairs
    <3> QED
      BY <1>2, <2>1, <2>4, <3>1, <3>2
  <2>5. CASE EntropyEnd(p, i) = i
    BY <2>5
  <2> QED
    BY <2>1, <2>2, <2>3, <2>4, <2>5
<1> HIDE DEF D, S, m
<1>3. \A i \in D : i \in S
  BY <1>1, <1>2, Inductively
<1> QED
  BY <1>3 DEF D, S

\* and so does any place that its data reaches.
LEMMA EndsThroughData ==
    ASSUME NEW p, IsJpegFile(p), NEW j \in 0..Len(p), JpegEnds(p)[j]
    PROVE  \A i \in 0..j : DataBetween(p, i, j) => JpegEnds(p)[i]
<1> DEFINE n == Len(p)  D == 0..j
     m == [i \in D |-> j - i]
     S == {i \in D : DataBetween(p, i, j) => JpegEnds(p)[i]}
<1>1. n \in Nat /\ m \in [D -> Nat]
  <2>1. n \in Nat
    BY JpegTypes
  <2> QED
    BY <2>1
<1>2. ASSUME NEW i \in D, \A k \in D : m[k] < m[i] => k \in S PROVE i \in S
  <2> SUFFICES ASSUME DataBetween(p, i, j), i # j PROVE JpegEnds(p)[i]
    OBVIOUS
  <2>1. i \in i..j - 1 /\ i \in 0..n /\ i # n
    BY <1>1
  <2>2. CASE Byte(p, i) # FF
    <3>1. i + 1 \in D /\ m[i + 1] < m[i] /\ \A q \in i + 1..j - 1 : q \in i..j - 1
      BY <1>1, <2>1
    <3>2. DataBetween(p, i + 1, j)
      BY <3>1 DEF DataBetween
    <3> QED
      BY <1>2, <2>1, <2>2, <3>1, <3>2, EndsCases
  <2>3. CASE Byte(p, i) = FF
    <3>1. i + 1 < j /\ (Byte(p, i + 1) = 0 \/ IsRestart(Byte(p, i + 1)))
      BY <2>1, <2>3 DEF DataBetween
    <3>2. i + 2 \in D /\ m[i + 2] < m[i] /\ i + 1 < n /\ \A q \in i + 2..j - 1 : q \in i..j - 1
      BY <1>1, <3>1
    <3>3. DataBetween(p, i + 2, j)
      BY <3>2 DEF DataBetween
    <3> QED
      BY <1>2, <2>1, <2>3, <3>1, <3>2, <3>3, EndsPassesPairs
  <2> QED
    BY <2>2, <2>3
<1> HIDE DEF D, S, m
<1>3. \A i \in D : i \in S
  BY <1>1, <1>2, Inductively
<1> QED
  BY <1>3 DEF D, S

\* A segment of the length it states is followed by what ends; so is a scan.
LEMMA GoesOnAfter ==
    ASSUME NEW p, IsJpegFile(p), NEW k \in 0..Len(p), k + 2 < Len(p)
    PROVE  LET next == k + 1 + Be16(p, k + 1)
           IN  GoesOn(p, k, JpegEnds(p)) <=> next \in k + 3..Len(p) /\ JpegEnds(p)[next]
<1> DEFINE n == Len(p)  E == JpegEnds(p)  length == Be16(p, k + 1)  next == k + 1 + length
<1>1. n \in Nat /\ length \in Nat
  <2>1. n \in Nat /\ k + 1 \in 0..n - 1 /\ k + 2 \in 0..n - 1 /\ (k + 1) + 1 = k + 2
    BY JpegTypes
  <2>2. Byte(p, k + 1) \in 0..255 /\ Byte(p, k + 2) \in 0..255
    BY <2>1, JpegTypes
  <2>4. \A a, b \in 0..255 : a * 256 + b \in Nat
    OBVIOUS
  <2>3. Byte(p, k + 1) * 256 + Byte(p, k + 2) \in Nat
    BY ONLY <2>2, <2>4
  <2> QED
    BY <2>1, <2>3 DEF Be16
<1>2. ASSUME NEW i \in k + 3..n
      PROVE  i - (k + 1) = length <=> i = next
  BY <1>1
<1>3. ASSUME NEW i \in k + 3..n
      PROVE  (\E j \in i..n : DataBetween(p, i, j) /\ E[j]) <=> E[i]
  <2>1. i \in 0..n /\ i \in i..n /\ i..i - 1 = {} /\ \A j \in i..n : j \in 0..n /\ i \in 0..j
    BY <1>1
  <2>2. DataBetween(p, i, i)
    BY <2>1 DEF DataBetween
  <2>3. ASSUME NEW j \in i..n, DataBetween(p, i, j), E[j] PROVE E[i]
    BY <2>1, <2>3, EndsThroughData
  <2> QED
    BY <2>1, <2>2, <2>3
<1>4. GoesOn(p, k, E) <=> \E i \in k + 3..n : i = next /\ E[i]
  <2> HIDE DEF E, next, length
  <2>1. GoesOn(p, k, E) <=> \E i \in k + 3..n : /\ i - (k + 1) = length
                                                /\ IF Byte(p, k) = SOS THEN \E j \in i..n : DataBetween(p, i, j) /\ E[j]
                                                                       ELSE E[i]
    BY DEF GoesOn, length
  <2> QED
    BY <1>2, <1>3, <2>1
<1> QED
  BY <1>4

\* What the walker does at pos, when f tells of the places behind it.
WalkFrom(p, pos, f) ==
    LET k == Skip(p, Skip(p, pos, FALSE), TRUE) IN
    IF k >= Len(p) THEN FALSE
    ELSE LET mark == Byte(p, k) IN
         IF mark = EOI THEN TRUE
         ELSE IF Standalone(mark) THEN f[k + 1]
         ELSE IF Len(p) - (k + 1) < 2 THEN FALSE
         ELSE LET length == Be16(p, k + 1) IN
              IF length < 2 \/ length > Len(p) - (k + 1) THEN FALSE
              ELSE LET next == k + 1 + length IN
                   IF mark # SOS THEN f[next] ELSE f[EntropyEnd(p, next)]

JpegWalk(p) == CHOOSE f : f = [pos \in 0..Len(p) |-> WalkFrom(p, pos, f)]

LEMMA ReachesIsWalk ==
    ASSUME NEW p
    PROVE  JpegReachesEoi(p) <=> Len(p) >= 2 /\ Byte(p, 0) = FF /\ Byte(p, 1) = SOI /\ JpegWalk(p)[2]
BY DEF JpegReachesEoi, JpegWalk, WalkFrom

\* The marker the walker stops at, and where it goes on from it.
LEMMA WalkTargets ==
    ASSUME NEW p, IsJpegFile(p), NEW pos \in 0..Len(p)
    PROVE  LET k == Skip(p, Skip(p, pos, FALSE), TRUE)
               next == k + 1 + Be16(p, k + 1)
           IN  /\ k \in pos..Len(p)
               /\ k < Len(p) => k \in pos + 1..Len(p) - 1 /\ k + 1 \in pos + 1..Len(p)
               /\ k + 2 < Len(p) => Be16(p, k + 1) \in Nat
               /\ next \in k + 3..Len(p) => next \in pos + 1..Len(p) /\ EntropyEnd(p, next) \in pos + 1..Len(p)
<1> DEFINE n == Len(p)  i == Skip(p, pos, FALSE)  k == Skip(p, i, TRUE)  next == k + 1 + Be16(p, k + 1)
<1>1. n \in Nat
  BY JpegTypes
<1>2. RunsTo(p, pos, FALSE, i)
  BY SkipRuns
<1>3. i \in pos..n /\ i \in 0..n /\ (i = n \/ Byte(p, i) = FF)
  <2> HIDE DEF i
  <2>1. i \in pos..n /\ (i = n \/ Byte(p, i) = FF)
    BY <1>2 DEF RunsTo
  <2> QED
    BY <1>1, <2>1
<1>4. RunsTo(p, i, TRUE, k)
  BY <1>3, SkipRuns
<1> HIDE DEF i, k
<1>5. k \in i..n /\ (k = n \/ Byte(p, k) # FF)
  BY <1>4 DEF RunsTo
<1>6. k \in pos..n
  BY <1>1, <1>3, <1>5
<1>7. k < n => k # i
  BY <1>1, <1>3, <1>5
<1>8. k < n => k \in pos + 1..n - 1 /\ k + 1 \in pos + 1..n
  BY <1>1, <1>3, <1>5, <1>7
<1>9. k + 2 < n => Be16(p, k + 1) \in Nat
  <2> SUFFICES ASSUME k + 2 < n PROVE Be16(p, k + 1) \in Nat
    OBVIOUS
  <2>1. k + 1 \in 0..n - 1 /\ k + 2 \in 0..n - 1 /\ (k + 1) + 1 = k + 2
    BY <1>1, <1>6
  <2>2. Byte(p, k + 1) \in 0..255 /\ Byte(p, k + 2) \in 0..255
    BY <2>1, JpegTypes
  <2>3. \A a, b \in 0..255 : a * 256 + b \in Nat
    OBVIOUS
  <2>4. Byte(p, k + 1) * 256 + Byte(p, k + 2) \in Nat
    BY ONLY <2>2, <2>3
  <2> QED
    BY <2>1, <2>4 DEF Be16
<1>10. ASSUME NEW z \in k + 3..n PROVE z \in pos + 1..n /\ EntropyEnd(p, z) \in pos + 1..n
  <2>1. z \in 0..n /\ z \in pos + 1..n
    BY <1>1, <1>6
  <2>2. EntropyEnd(p, z) \in z..n
    BY <2>1, EntropyUnfolds
  <2> QED
    BY <1>1, <2>1, <2>2
<1> QED
  BY <1>6, <1>8, <1>9, <1>10 DEF i, k

\* The same with the conditions that the positions are in the file.
LEMMA WalkCases ==
    ASSUME NEW p, IsJpegFile(p), NEW pos \in 0..Len(p), NEW f
    PROVE  LET k == Skip(p, Skip(p, pos, FALSE), TRUE)
               next == k + 1 + Be16(p, k + 1)
           IN  WalkFrom(p, pos, f) =
                  IF ~(k < Len(p)) THEN FALSE
                  ELSE IF Byte(p, k) = EOI THEN TRUE
                  ELSE IF Standalone(Byte(p, k)) THEN f[k + 1]
                  ELSE IF ~(k + 2 < Len(p)) \/ next \notin k + 3..Len(p) THEN FALSE
                  ELSE IF Byte(p, k) # SOS THEN f[next] ELSE f[EntropyEnd(p, next)]
<1> DEFINE n == Len(p)  k == Skip(p, Skip(p, pos, FALSE), TRUE)  length == Be16(p, k + 1)
<1>7. n \in Nat
  BY JpegTypes
<1>1. k \in pos..n /\ (k + 2 < n => length \in Nat)
  BY WalkTargets
<1>2. WalkFrom(p, pos, f) =
       IF k >= n THEN FALSE
       ELSE IF Byte(p, k) = EOI THEN TRUE
       ELSE IF Standalone(Byte(p, k)) THEN f[k + 1]
       ELSE IF n - (k + 1) < 2 THEN FALSE
       ELSE IF length < 2 \/ length > n - (k + 1) THEN FALSE
       ELSE IF Byte(p, k) # SOS THEN f[k + 1 + length] ELSE f[EntropyEnd(p, k + 1 + length)]
  BY DEF WalkFrom
<1> HIDE DEF k, length
<1>3. k >= n <=> ~(k < n)
  BY <1>7, <1>1
<1>4. n - (k + 1) < 2 <=> ~(k + 2 < n)
  BY <1>7, <1>1
<1>5. k + 2 < n => (length < 2 \/ length > n - (k + 1) <=> k + 1 + length \notin k + 3..n)
  BY <1>7, <1>1
<1>6. WalkFrom(p, pos, f) =
       IF ~(k < n) THEN FALSE
       ELSE IF Byte(p, k) = EOI THEN TRUE
       ELSE IF Standalone(Byte(p, k)) THEN f[k + 1]
       ELSE IF ~(k + 2 < n) \/ k + 1 + length \notin k + 3..n THEN FALSE
       ELSE IF Byte(p, k) # SOS THEN f[k + 1 + length] ELSE f[EntropyEnd(p, k + 1 + length)]
  BY <1>2, <1>3, <1>4, <1>5
<1> QED
  BY <1>6 DEF k, length

LEMMA WalkUnfolds ==
    ASSUME NEW p, IsJpegFile(p)
    PROVE  \A pos \in 0..Len(p) : JpegWalk(p)[pos] = WalkFrom(p, pos, JpegWalk(p))
<1> DEFINE n == Len(p)  D == 0..n
     step == [pos \in D |-> [f \in [D -> BOOLEAN] |-> WalkFrom(p, pos, f)]]
     m == [pos \in D |-> n - pos]
     K(pos) == Skip(p, Skip(p, pos, FALSE), TRUE)
     Next1(pos) == K(pos) + 1 + Be16(p, K(pos) + 1)
<1>0. n \in Nat
  BY JpegTypes
<1>1. m \in [D -> 0..n]
  BY <1>0
<1>2. \A pos \in D : \A f : WalkFrom(p, pos, f) =
         IF ~(K(pos) < n) THEN FALSE
         ELSE IF Byte(p, K(pos)) = EOI THEN TRUE
         ELSE IF Standalone(Byte(p, K(pos))) THEN f[K(pos) + 1]
         ELSE IF ~(K(pos) + 2 < n) \/ Next1(pos) \notin K(pos) + 3..n THEN FALSE
         ELSE IF Byte(p, K(pos)) # SOS THEN f[Next1(pos)] ELSE f[EntropyEnd(p, Next1(pos))]
  BY WalkCases
<1>3. \A pos \in D : /\ K(pos) < n => K(pos) + 1 \in pos + 1..n
                     /\ Next1(pos) \in K(pos) + 3..n => Next1(pos) \in pos + 1..n /\ EntropyEnd(p, Next1(pos)) \in pos + 1..n
  BY WalkTargets
<1>4. \A pos \in D : \A j \in pos + 1..n : j \in D /\ m[j] < m[pos]
  BY <1>0
<1>5. ASSUME NEW pos \in D, NEW f \in [D -> BOOLEAN] PROVE WalkFrom(p, pos, f) \in BOOLEAN
  <2>1. \A j \in pos + 1..n : f[j] \in BOOLEAN
    BY <1>4
  <2> HIDE DEF K, Next1, D, n, m
  <2> QED
    BY <1>2, <1>3, <2>1
<1>6. ASSUME NEW pos \in D, NEW g, NEW h, \A j \in pos + 1..n : g[j] = h[j]
      PROVE  WalkFrom(p, pos, g) = WalkFrom(p, pos, h)
  <2> HIDE DEF K, Next1, D, n, m
  <2> QED
    BY <1>2, <1>3, <1>6
<1>7. step \in [D -> [[D -> BOOLEAN] -> BOOLEAN]]
  BY <1>5
<1>8. \A pos \in D : \A g, h \in [D -> BOOLEAN] :
         (\A j \in D : m[j] < m[pos] => g[j] = h[j]) => step[pos][g] = step[pos][h]
  <2> SUFFICES ASSUME NEW pos \in D, NEW g \in [D -> BOOLEAN], NEW h \in [D -> BOOLEAN],
                      \A j \in D : m[j] < m[pos] => g[j] = h[j]
               PROVE  WalkFrom(p, pos, g) = WalkFrom(p, pos, h)
    OBVIOUS
  <2> QED
    BY <1>4, <1>6
<1>9. \E f \in [D -> BOOLEAN] : f = [pos \in D |-> step[pos][f]]
  <2> HIDE DEF D, step, m, n
  <2>2. Recursive(D, BOOLEAN, m, step)
    BY <1>7, <1>8 DEF Recursive
  <2> QED
    BY <1>0, <1>1, <2>2, RecursionExists
<1>10. \A pos \in D : \A f \in [D -> BOOLEAN] : step[pos][f] = WalkFrom(p, pos, f)
  OBVIOUS
<1> HIDE DEF step
<1>11. PICK f \in [D -> BOOLEAN] : f = [pos \in D |-> WalkFrom(p, pos, f)]
  BY <1>9, <1>10
<1>12. JpegWalk(p) = [pos \in D |-> WalkFrom(p, pos, JpegWalk(p))]
  BY <1>11 DEF JpegWalk
<1> QED
  BY <1>12

\* ph_jpeg_reaches_eoi() accepts exactly the files that end as a JPEG does: neither the
\* lengths nor the data of scans let it stop early or read on.
THEOREM JpegWalkIsRight ==
    ASSUME NEW p, IsJpegFile(p)
    PROVE  JpegReachesEoi(p) <=> JpegComplete(p)
<1> DEFINE n == Len(p)  D == 0..n  E == JpegEnds(p)  W == JpegWalk(p)
     m == [pos \in D |-> n - pos]
     S == {pos \in D : W[pos] = E[pos]}
<1>1. n \in Nat /\ m \in [D -> Nat]
  <2>1. n \in Nat
    BY JpegTypes
  <2> QED
    BY <2>1
<1>2. ASSUME NEW pos \in D, \A j \in D : m[j] < m[pos] => j \in S PROVE pos \in S
  <2> DEFINE i == Skip(p, pos, FALSE)  k == Skip(p, i, TRUE)  next == k + 1 + Be16(p, k + 1)
  <2>1. \A j \in pos + 1..n : W[j] = E[j] /\ E[j] \in BOOLEAN
    <3>1. \A j \in pos + 1..n : j \in D /\ m[j] < m[pos]
      BY <1>1
    <3> QED
      BY <1>2, <3>1, EndsUnfolds
  <2>2. W[pos] = IF ~(k < n) THEN FALSE
                  ELSE IF Byte(p, k) = EOI THEN TRUE
                  ELSE IF Standalone(Byte(p, k)) THEN W[k + 1]
                  ELSE IF ~(k + 2 < n) \/ next \notin k + 3..n THEN FALSE
                  ELSE IF Byte(p, k) # SOS THEN W[next] ELSE W[EntropyEnd(p, next)]
    BY WalkUnfolds, WalkCases
  <2>3. /\ k \in pos..n
        /\ k < n => k + 1 \in pos + 1..n
        /\ next \in k + 3..n => next \in pos + 1..n /\ EntropyEnd(p, next) \in pos + 1..n
    BY WalkTargets
  <2>4. E[pos] \in BOOLEAN
    BY EndsUnfolds
  <2>5. CASE pos # n /\ Byte(p, pos) # FF
    <3>1. pos + 1 \in pos + 1..n /\ pos + 1 \in D
      BY <1>1, <2>5
    <3>2. i = Skip(p, pos + 1, FALSE)
      <4>1. RunsTo(p, pos + 1, FALSE, Skip(p, pos + 1, FALSE))
        BY <3>1, SkipRuns
      <4> DEFINE z == Skip(p, pos + 1, FALSE)
      <4> HIDE DEF z
      <4>2. RunsTo(p, pos + 1, FALSE, z)
        BY <4>1 DEF z
      <4>3. z \in pos + 1..n
        BY <4>2 DEF RunsTo
      <4>4. z \in pos..n /\ pos..z - 1 = {pos} \cup (pos + 1)..z - 1
        BY <1>1, <4>3
      <4>5. RunsTo(p, pos, FALSE, z)
        BY <2>5, <4>2, <4>4 DEF RunsTo
      <4> QED
        BY <4>5, SkipRuns DEF z
    <3>3. WalkFrom(p, pos, W) = WalkFrom(p, pos + 1, W)
      BY <3>2 DEF WalkFrom
    <3>4. W[pos] = W[pos + 1]
      BY <3>1, <3>3, WalkUnfolds
    <3>5. E[pos] = E[pos + 1]
      BY <2>5, EndsCases
    <3> QED
      BY <2>1, <3>1, <3>4, <3>5
  <2>6. CASE pos = n
    <3>1. ~(k < n)
      <4> HIDE DEF k, next
      <4> QED
        BY <1>1, <2>3, <2>6
    <3>2. ~W[pos] /\ W[pos] \in BOOLEAN
      BY <2>2, <3>1
    <3>3. ~E[pos]
      BY <2>6, EndsCases
    <3> QED
      BY <2>4, <3>2, <3>3
  <2>7. CASE pos # n /\ Byte(p, pos) = FF
    <3>1. pos = i
      <4>1. pos \in pos..n /\ pos..pos - 1 = {}
        BY <1>1
      <4>2. RunsTo(p, pos, FALSE, pos)
        BY <2>7, <4>1 DEF RunsTo
      <4> QED
        BY <4>2, SkipRuns
    <3>2. RunsTo(p, pos, TRUE, k)
      BY <3>1, SkipRuns
    <3>3. CASE ~(k < n)
      <4>1. k = n
        <5> HIDE DEF k, next
        <5> QED
          BY <1>1, <2>3, <3>3
      <4>2. \A j \in pos..n - 1 : Byte(p, j) = FF
        BY <3>2, <4>1 DEF RunsTo
      <4>3. ~E[pos]
        BY <2>7, <4>2, EndsCases
      <4>4. W[pos] = FALSE
        BY <2>2, <3>3
      <4> QED
        BY <2>4, <4>3, <4>4
    <3>4. CASE k < n
      <4>1. k # n /\ k \in pos..n /\ k \in 0..n
        <5> HIDE DEF k, next
        <5> QED
          BY <1>1, <2>3, <3>4
      <4>2. Byte(p, k) # FF /\ \A j \in pos..k - 1 : Byte(p, j) = FF
        <5> HIDE DEF k
        <5> QED
          BY <3>2, <4>1 DEF RunsTo
      <4>3. k # pos
        BY <2>7, <4>2
      <4>4. k \in pos + 1..n - 1
        <5> HIDE DEF k, next
        <5> QED
          BY <1>1, <3>4, <4>1, <4>3
      <4>5. MarkerAt(p, pos, k)
        BY <4>2, <4>4 DEF MarkerAt
      <4>6. E[pos] <=> \/ Byte(p, k) = EOI
                       \/ Standalone(Byte(p, k)) /\ E[k + 1]
                       \/ Byte(p, k) # EOI /\ ~Standalone(Byte(p, k)) /\ k + 2 < n /\ GoesOn(p, k, E)
        BY <4>5, EndsCases
      <4>7. k + 2 < n => (GoesOn(p, k, E) <=> next \in k + 3..n /\ E[next])
        BY <4>1, GoesOnAfter
      <4>8. k + 1 \in pos + 1..n /\ W[k + 1] = E[k + 1] /\ E[k + 1] \in BOOLEAN
        BY <2>1, <2>3, <3>4
      <4>9. next \in k + 3..n => /\ W[next] = E[next] /\ E[next] \in BOOLEAN
                                 /\ W[EntropyEnd(p, next)] = E[next]
        <5> SUFFICES ASSUME next \in k + 3..n
                     PROVE  W[next] = E[next] /\ E[next] \in BOOLEAN /\ W[EntropyEnd(p, next)] = E[next]
          OBVIOUS
        <5>1. next \in pos + 1..n /\ EntropyEnd(p, next) \in pos + 1..n
          BY <2>3
        <5>2. next \in 0..n
          <6> HIDE DEF k, next
          <6> QED
            BY <1>1, <5>1
        <5>3. E[next] = E[EntropyEnd(p, next)]
          BY <5>2, EndsThroughEntropy
        <5> QED
          BY <2>1, <5>1, <5>3
      <4> HIDE DEF E, W, k, next, n
      <4>10. W[pos] = E[pos]
        <5>1. CASE Byte(p, k) = EOI
          <6>1. W[pos] = TRUE /\ E[pos]
            BY <2>2, <3>4, <4>6, <5>1
          <6> QED
            BY <2>4, <6>1
        <5>2. CASE Byte(p, k) # EOI /\ Standalone(Byte(p, k))
          <6>1. W[pos] = W[k + 1] /\ (E[pos] <=> E[k + 1])
            BY <2>2, <3>4, <4>6, <5>2
          <6> QED
            BY <2>4, <4>8, <6>1
        <5>3. CASE Byte(p, k) # EOI /\ ~Standalone(Byte(p, k)) /\ ~(k + 2 < n /\ next \in k + 3..n)
          <6>1. W[pos] = FALSE /\ ~E[pos]
            BY <2>2, <3>4, <4>6, <4>7, <5>3
          <6> QED
            BY <2>4, <6>1
        <5>4. CASE Byte(p, k) # EOI /\ ~Standalone(Byte(p, k)) /\ k + 2 < n /\ next \in k + 3..n
          <6>1. W[pos] = E[next] /\ (E[pos] <=> E[next])
            BY <2>2, <3>4, <4>6, <4>7, <4>9, <5>4
          <6> QED
            BY <2>4, <4>9, <5>4, <6>1
        <5> QED
          BY <5>1, <5>2, <5>3, <5>4
      <4> QED
        BY <4>10
    <3> QED
      BY <3>3, <3>4
  <2> QED
    BY <2>5, <2>6, <2>7
<1> HIDE DEF D, S, m, E, W
<1>3. \A pos \in D : pos \in S
  BY <1>1, <1>2, Inductively
<1>4. n >= 2 => W[2] = E[2]
  BY <1>1, <1>3 DEF D, S
<1> QED
  BY <1>4, ReachesIsWalk, CompleteIsEnds DEF E, W

-----------------------------------------------------------------------------
\* What a step must do to lead from <<held, known>> to <<held2, known2>>, and to leave
\* nothing behind if it fails.
Follows(step, before, known, after, known2) ==
    /\ step.do \in {"create", "get", "free", "register", "unregister", "call", "test"}
    /\ step.do \in {"create", "get"} => after = before \cup step.what
    /\ step.do = "get" => \A some \in SUBSET step.what :
                             some # step.what => before \cup some \subseteq step.frees
    /\ step.do = "free" => step.what \subseteq before /\ after = before \ step.what
    /\ step.do \notin {"create", "get", "free"} => after = before
    /\ step.do = "register" => known2 = known \cup step.what
    /\ step.do = "unregister" => known2 = known \ step.what
    /\ step.do \notin {"register", "unregister"} => known2 = known
    /\ step.do = "call" /\ step.jumps => before = known \cup {"codec"}
    /\ step.do = "test" \/ (step.do = "call" /\ ~step.jumps) => before = step.frees
    /\ step.do \in {"call", "test"} => step.frees \subseteq before
    /\ step.do = "test" => ~step.jumps /\ step.error \in {"IMAGE_TOO_LARGE", "CORRUPT_DATA", "DECODER_UNAVAILABLE"}

\* The last step returns the one image that is allocated.
Ends(step, before) ==
    /\ step.do = "return" /\ step.what = before
    /\ \E image \in Images : before = {image}

\* The steps are a sequence.
IsProgram(steps) == Len(steps) \in Nat \ {0} /\ steps = [k \in 1..Len(steps) |-> steps[k]]

\* No buffer for pixels exists up to the test of the area, which is step `area`.
Judges(steps, holding, area) ==
    /\ area \in 1..Len(steps)
    /\ steps[area].do = "test" /\ {"area", "side"} \subseteq steps[area].finds
    /\ \A k \in 1..area : holding[k] \subseteq {"codec", "info"}

Sound(steps, holding, known, area) ==
    /\ IsProgram(steps)
    /\ holding[1] = {} /\ known[1] = {}
    /\ \A k \in 1..Len(steps) - 1 : Follows(steps[k], holding[k], known[k], holding[k + 1], known[k + 1])
    /\ Ends(steps[Len(steps)], holding[Len(steps)])
    /\ Judges(steps, holding, area)

-----------------------------------------------------------------------------
\* The outlines.
JpegAll  == {"codec", "output", "rows"}
JpegHeld == <<{}, {"codec"}, {"codec"}, {"codec"}, {"codec"}, {"codec"}, JpegAll, JpegAll, JpegAll, {"output"}>>
JpegKnown == <<{}, {}, {}, {}, {}, {}, {}, {"output", "rows"}, {"output", "rows"}, {"output", "rows"}>>

PngBoth   == {"codec", "info"}
PngData   == {"codec", "info", "data"}
PngSaved  == {"info", "data"}

\* The row of a color image that is folded; the image of one that is interlaced; neither.
PngRow     == PngData \cup {"row"}
PngDecoded == PngData \cup {"decoded"}
PngPtrs    == PngData \cup {"row_ptrs"}
PngLast    == {"data", "decoded"}
PngMost    == PngDecoded \cup {"row_ptrs"}

RowSaved     == PngSaved \cup {"row"}
DecodedSaved == PngSaved \cup {"decoded"}
PtrsSaved    == PngSaved \cup {"row_ptrs"}
MostSaved    == DecodedSaved \cup {"row_ptrs"}

RowsHeld     == <<{}, {"codec"}, PngBoth, PngBoth, PngBoth, PngBoth, PngBoth, PngData, PngData,
                  PngRow, PngRow, PngRow, PngRow, PngData, {"data"}>>
RowsKnown    == <<{}, {}, {}, {"info"}, {"info"}, {"info"}, {"info"}, {"info"}, PngSaved,
                  PngSaved, RowSaved, RowSaved, PngSaved, PngSaved, PngSaved>>
DecodedHeld  == <<{}, {"codec"}, PngBoth, PngBoth, PngBoth, PngBoth, PngBoth, PngData, PngData,
                  PngDecoded, PngDecoded, PngMost, PngMost, PngMost, PngDecoded,
                                PngLast, {"data"}>>
DecodedKnown == <<{}, {}, {}, {"info"}, {"info"}, {"info"}, {"info"}, {"info"}, PngSaved,
                  PngSaved, DecodedSaved, DecodedSaved, MostSaved, MostSaved, MostSaved,
                                 MostSaved, MostSaved>>
PlainHeld    == <<{}, {"codec"}, PngBoth, PngBoth, PngBoth, PngBoth, PngBoth, PngData, PngData,
                  PngPtrs, PngPtrs, PngPtrs, PngData, {"data"}>>
PlainKnown   == <<{}, {}, {}, {"info"}, {"info"}, {"info"}, {"info"}, {"info"}, PngSaved,
                  PngSaved, PtrsSaved, PtrsSaved, PtrsSaved, PtrsSaved>>

PngHeld ==
    IF ~(gray /\ file.color) THEN PlainHeld ELSE IF file.interlaced THEN DecodedHeld ELSE RowsHeld

PngKnown ==
    IF ~(gray /\ file.color) THEN PlainKnown ELSE IF file.interlaced THEN DecodedKnown ELSE RowsKnown

\* WebP folded to gray or not; stb_image with gray expanded to color or not.
GrayHeld     == <<{}, {}, {}, {"output"}, {"output"}, {"output"}, {"output", "folded"}, {"folded"}>>
ColorHeld    == <<{}, {}, {}, {"output"}, {"output"}, {"output"}>>
ExpandedHeld == <<{}, {}, {}, {}, {"pixels"}, {"pixels", "expanded"}, {"expanded"}>>
InPlaceHeld  == <<{}, {}, {}, {}, {"pixels"}>>
WebpHeld     == IF gray THEN GrayHeld ELSE ColorHeld
StbHeld      == IF ~gray /\ ~file.color THEN ExpandedHeld ELSE InPlaceHeld
NotKnown == <<{}, {}, {}, {}, {}, {}, {}, {}>>

IsJpeg == native /\ file.format = "jpeg"
IsPng  == native /\ file.format = "png"
IsWebp == native /\ file.format = "webp"

Held  == IF IsJpeg THEN JpegHeld ELSE IF IsPng THEN PngHeld ELSE IF IsWebp THEN WebpHeld ELSE StbHeld
Known == IF IsJpeg THEN JpegKnown ELSE IF IsPng THEN PngKnown ELSE NotKnown
Area  == IF IsJpeg THEN 4 ELSE IF IsPng THEN 5 ELSE 2

-----------------------------------------------------------------------------
\* What each kind of step needs to follow an outline.
LEMMA CreateFollows ==
    ASSUME NEW what, NEW before, NEW known, NEW after, after = before \cup what
    PROVE  Follows(Create(what), before, known, after, known)
BY DEF Follows, Create, Free

LEMMA FreeFollows ==
    ASSUME NEW what, NEW before, NEW known, NEW after, what \subseteq before, after = before \ what
    PROVE  Follows(Free(what), before, known, after, known)
BY DEF Follows, Free

LEMMA RegisterFollows ==
    ASSUME NEW what, NEW before, NEW known, NEW known2, known2 = known \cup what
    PROVE  Follows(Register(what), before, known, before, known2)
BY DEF Follows, Register, Free

LEMMA UnregisterFollows ==
    ASSUME NEW what, NEW before, NEW known, NEW known2, known2 = known \ what
    PROVE  Follows(Unregister(what), before, known, before, known2)
BY DEF Follows, Unregister, Free

LEMMA JumpingFollows ==
    ASSUME NEW finds, NEW before, NEW known, before = known \cup {"codec"}
    PROVE  Follows(Jumping(finds), before, known, before, known)
BY DEF Follows, Jumping, Free

LEMMA CallingFollows ==
    ASSUME NEW finds, NEW frees, NEW known
    PROVE  Follows(Calling(finds, frees), frees, known, frees, known)
BY DEF Follows, Calling, Free

LEMMA TestFollows ==
    ASSUME NEW finds, NEW error \in {"IMAGE_TOO_LARGE", "CORRUPT_DATA", "DECODER_UNAVAILABLE"},
           NEW frees, NEW known
    PROVE  Follows(Test(finds, error, frees), frees, known, frees, known)
BY DEF Follows, Test, Free

LEMMA TestAreaFollows ==
    ASSUME NEW frees, NEW known
    PROVE  Follows(TestArea(frees), frees, known, frees, known)
BY TestFollows DEF TestArea

\* Either everything the step can have got is freed when it fails, or it gets one block
\* and has none then.
LEMMA GetFollows ==
    ASSUME NEW what, NEW frees, NEW before, NEW known, NEW after, after = before \cup what,
           before \subseteq frees, what \subseteq frees \/ \E block : what = {block}
    PROVE  Follows(Get(what, frees), before, known, after, known)
BY DEF Follows, Get, Free

JpegLayout ==
    /\ Len(DecodeJpeg) = 10
    /\ DecodeJpeg[1] = Create({"codec"}) /\ DecodeJpeg[2] = Jumping({"header"})
    /\ DecodeJpeg[3] = Test({"tables"}, "CORRUPT_DATA", {"codec"}) /\ DecodeJpeg[4] = TestArea({"codec"})
    /\ DecodeJpeg[5] = Jumping({}) /\ DecodeJpeg[6] = Get({"output", "rows"}, JpegAll)
    /\ DecodeJpeg[7] = Register({"output", "rows"}) /\ DecodeJpeg[8] = Jumping({"pixels"})
    /\ DecodeJpeg[9] = Free({"codec", "rows"}) /\ DecodeJpeg[10] = Return({"output"})

LEMMA JpegSteps == JpegLayout
BY DEF DecodeJpeg, JpegAll, JpegLayout

LEMMA JpegSound == Sound(DecodeJpeg, JpegHeld, JpegKnown, 4)
<1> USE DEF JpegLayout
<1>1. JpegLayout
  BY JpegSteps
<1>2. IsProgram(DecodeJpeg)
  BY DEF DecodeJpeg, IsProgram
<1>3. ASSUME NEW k \in 1..9
      PROVE  Follows(DecodeJpeg[k], JpegHeld[k], JpegKnown[k], JpegHeld[k + 1], JpegKnown[k + 1])
  <2>1. /\ Follows(Create({"codec"}), {}, {}, {"codec"}, {})
        /\ \A finds : Follows(Jumping(finds), {"codec"}, {}, {"codec"}, {})
        /\ Follows(Test({"tables"}, "CORRUPT_DATA", {"codec"}), {"codec"}, {}, {"codec"}, {})
        /\ Follows(TestArea({"codec"}), {"codec"}, {}, {"codec"}, {})
        /\ Follows(Get({"output", "rows"}, JpegAll), {"codec"}, {}, JpegAll, {})
        /\ Follows(Register({"output", "rows"}), JpegAll, {}, JpegAll, {"output", "rows"})
        /\ Follows(Jumping({"pixels"}), JpegAll, {"output", "rows"}, JpegAll, {"output", "rows"})
        /\ Follows(Free({"codec", "rows"}), JpegAll, {"output", "rows"}, {"output"}, {"output", "rows"})
    BY CreateFollows, JumpingFollows, TestFollows, TestAreaFollows, GetFollows, RegisterFollows, FreeFollows
       DEF JpegAll
  <2>2. CASE k = 1
    BY <1>1, <2>1, <2>2 DEF JpegHeld, JpegKnown
  <2>3. CASE k = 2
    BY <1>1, <2>1, <2>3 DEF JpegHeld, JpegKnown
  <2>4. CASE k = 3
    BY <1>1, <2>1, <2>4 DEF JpegHeld, JpegKnown
  <2>5. CASE k = 4
    BY <1>1, <2>1, <2>5 DEF JpegHeld, JpegKnown
  <2>6. CASE k = 5
    BY <1>1, <2>1, <2>6 DEF JpegHeld, JpegKnown
  <2>7. CASE k = 6
    BY <1>1, <2>1, <2>7 DEF JpegHeld, JpegKnown
  <2>8. CASE k = 7
    BY <1>1, <2>1, <2>8 DEF JpegHeld, JpegKnown
  <2>9. CASE k = 8
    BY <1>1, <2>1, <2>9 DEF JpegHeld, JpegKnown
  <2>10. CASE k = 9
    BY <1>1, <2>1, <2>10 DEF JpegHeld, JpegKnown
  <2> QED
    BY <1>3, <2>2, <2>3, <2>4, <2>5, <2>6, <2>7, <2>8, <2>9, <2>10
<1>4. Ends(DecodeJpeg[10], JpegHeld[10])
  BY <1>1 DEF Ends, Images, Return, Free, JpegHeld
<1>5. Judges(DecodeJpeg, JpegHeld, 4)
  BY <1>1 DEF Judges, TestArea, Test, Free, JpegHeld
<1> QED
  BY <1>1, <1>2, <1>3, <1>4, <1>5 DEF Sound, JpegHeld, JpegKnown

\* The steps of ph_decode_png_mem() that every variant begins with.
LEMMA HeaderFollows ==
    /\ Follows(Get({"codec"}, {}), {}, {}, {"codec"}, {})
    /\ Follows(Get({"info"}, {"codec"}), {"codec"}, {}, PngBoth, {})
    /\ Follows(Register({"info"}), PngBoth, {}, PngBoth, {"info"})
    /\ \A finds : Follows(Jumping(finds), PngBoth, {"info"}, PngBoth, {"info"})
    /\ Follows(TestArea(PngBoth), PngBoth, {"info"}, PngBoth, {"info"})
    /\ Follows(Get({"data"}, PngBoth), PngBoth, {"info"}, PngData, {"info"})
    /\ Follows(Register({"data"}), PngData, {"info"}, PngData, PngSaved)
BY GetFollows, RegisterFollows, JumpingFollows, TestAreaFollows DEF PngBoth, PngData, PngSaved

RowsLayout ==
    /\ Len(DecodePng) = 15
    /\ DecodePng[1] = Get({"codec"}, {}) /\ DecodePng[2] = Get({"info"}, {"codec"})
    /\ DecodePng[3] = Register({"info"}) /\ DecodePng[4] = Jumping({"header", "side"})
    /\ DecodePng[5] = TestArea(PngBoth) /\ DecodePng[6] = Jumping({})
    /\ DecodePng[7] = Get({"data"}, PngBoth) /\ DecodePng[8] = Register({"data"})
    /\ DecodePng[9] = Get({"row"}, PngData) /\ DecodePng[10] = Register({"row"})
    /\ DecodePng[11] = Jumping({"pixels"}) /\ DecodePng[12] = Unregister({"row"})
    /\ DecodePng[13] = Free({"row"}) /\ DecodePng[14] = Free(PngBoth) /\ DecodePng[15] = Return({"data"})

LEMMA RowsSteps ==
    ASSUME gray, file.color, ~file.interlaced
    PROVE  RowsLayout
BY DEF DecodePng, PngHeader, PngPixels, PngRows, PngBoth, PngData, PngRow, RowSaved, RowsLayout

LEMMA RowsSound ==
    ASSUME gray, file.color, ~file.interlaced
    PROVE  Sound(DecodePng, RowsHeld, RowsKnown, 5)
<1> USE DEF RowsLayout
<1>1. RowsLayout
  BY RowsSteps
<1>2. IsProgram(DecodePng)
  BY DEF DecodePng, PngHeader, PngPixels, PngRows, IsProgram
<1>3. ASSUME NEW k \in 1..14
      PROVE  Follows(DecodePng[k], RowsHeld[k], RowsKnown[k], RowsHeld[k + 1], RowsKnown[k + 1])
  <2>1. /\ Follows(Get({"row"}, PngData), PngData, PngSaved, PngRow, PngSaved)
        /\ Follows(Register({"row"}), PngRow, PngSaved, PngRow, RowSaved)
        /\ Follows(Jumping({"pixels"}), PngRow, RowSaved, PngRow, RowSaved)
        /\ Follows(Unregister({"row"}), PngRow, RowSaved, PngRow, PngSaved)
        /\ Follows(Free({"row"}), PngRow, PngSaved, PngData, PngSaved)
        /\ Follows(Free(PngBoth), PngData, PngSaved, {"data"}, PngSaved)
    BY GetFollows, RegisterFollows, UnregisterFollows, JumpingFollows, FreeFollows
       DEF PngBoth, PngData, PngSaved, PngRow, RowSaved
  <2>2. CASE k \in 1..4
    BY <1>1, <2>2, HeaderFollows DEF RowsHeld, RowsKnown
  <2>3. CASE k \in 5..8
    BY <1>1, <2>3, HeaderFollows DEF RowsHeld, RowsKnown
  <2>4. CASE k \in 9..10
    BY <1>1, <2>1, <2>4 DEF RowsHeld, RowsKnown
  <2>5. CASE k \in 11..12
    BY <1>1, <2>1, <2>5 DEF RowsHeld, RowsKnown
  <2>6. CASE k \in 13..14
    BY <1>1, <2>1, <2>6 DEF RowsHeld, RowsKnown
  <2> QED
    BY <1>3, <2>2, <2>3, <2>4, <2>5, <2>6
<1>4. Ends(DecodePng[15], RowsHeld[15])
  BY <1>1 DEF Ends, Images, Return, Free, RowsHeld
<1>5. Judges(DecodePng, RowsHeld, 5)
  BY <1>1 DEF Judges, TestArea, Test, Free, RowsHeld, PngBoth
<1> QED
  BY <1>1, <1>2, <1>3, <1>4, <1>5 DEF Sound, RowsHeld, RowsKnown

DecodedLayout ==
    /\ Len(DecodePng) = 17
    /\ DecodePng[1] = Get({"codec"}, {}) /\ DecodePng[2] = Get({"info"}, {"codec"})
    /\ DecodePng[3] = Register({"info"}) /\ DecodePng[4] = Jumping({"header", "side"})
    /\ DecodePng[5] = TestArea(PngBoth) /\ DecodePng[6] = Jumping({})
    /\ DecodePng[7] = Get({"data"}, PngBoth) /\ DecodePng[8] = Register({"data"})
    /\ DecodePng[9] = Get({"decoded"}, PngData) /\ DecodePng[10] = Register({"decoded"})
    /\ DecodePng[11] = Get({"row_ptrs"}, PngDecoded) /\ DecodePng[12] = Register({"row_ptrs"})
    /\ DecodePng[13] = Jumping({"pixels"}) /\ DecodePng[14] = Free({"row_ptrs"})
    /\ DecodePng[15] = Free(PngBoth) /\ DecodePng[16] = Free({"decoded"}) /\ DecodePng[17] = Return({"data"})

LEMMA DecodedSteps ==
    ASSUME gray, file.color, file.interlaced
    PROVE  DecodedLayout
BY DEF DecodePng, PngHeader, PngPixels, PngImage, PngBoth, PngData, PngDecoded, PngMost, DecodedSaved, MostSaved, DecodedLayout

LEMMA DecodedSound ==
    ASSUME gray, file.color, file.interlaced
    PROVE  Sound(DecodePng, DecodedHeld, DecodedKnown, 5)
<1> USE DEF DecodedLayout
<1>1. DecodedLayout
  BY DecodedSteps
<1>2. IsProgram(DecodePng)
  BY DEF DecodePng, PngHeader, PngPixels, PngImage, IsProgram
<1>3. ASSUME NEW k \in 1..16
      PROVE  Follows(DecodePng[k], DecodedHeld[k], DecodedKnown[k], DecodedHeld[k + 1], DecodedKnown[k + 1])
  <2>1. /\ Follows(Get({"decoded"}, PngData), PngData, PngSaved, PngDecoded, PngSaved)
        /\ Follows(Register({"decoded"}), PngDecoded, PngSaved, PngDecoded, DecodedSaved)
        /\ Follows(Get({"row_ptrs"}, PngDecoded), PngDecoded, DecodedSaved, PngMost, DecodedSaved)
        /\ Follows(Register({"row_ptrs"}), PngMost, DecodedSaved, PngMost, MostSaved)
        /\ Follows(Jumping({"pixels"}), PngMost, MostSaved, PngMost, MostSaved)
        /\ Follows(Free({"row_ptrs"}), PngMost, MostSaved, PngDecoded, MostSaved)
        /\ Follows(Free(PngBoth), PngDecoded, MostSaved, PngLast, MostSaved)
        /\ Follows(Free({"decoded"}), PngLast, MostSaved, {"data"}, MostSaved)
    BY GetFollows, RegisterFollows, UnregisterFollows, JumpingFollows, FreeFollows
       DEF PngBoth, PngData, PngSaved, PngLast, PngDecoded, PngMost, DecodedSaved, MostSaved
  <2>2. CASE k \in 1..4
    BY <1>1, <2>2, HeaderFollows DEF DecodedHeld, DecodedKnown
  <2>3. CASE k \in 5..8
    BY <1>1, <2>3, HeaderFollows DEF DecodedHeld, DecodedKnown
  <2>4. CASE k \in 9..10
    BY <1>1, <2>1, <2>4 DEF DecodedHeld, DecodedKnown
  <2>5. CASE k \in 11..12
    BY <1>1, <2>1, <2>5 DEF DecodedHeld, DecodedKnown
  <2>6. CASE k \in 13..14
    BY <1>1, <2>1, <2>6 DEF DecodedHeld, DecodedKnown
  <2>7. CASE k = 15
    BY <1>1, <2>1, <2>7 DEF DecodedHeld, DecodedKnown
  <2>8. CASE k = 16
    BY <1>1, <2>1, <2>8 DEF DecodedHeld, DecodedKnown
  <2> QED
    BY <1>3, <2>2, <2>3, <2>4, <2>5, <2>6, <2>7, <2>8
<1>4. Ends(DecodePng[17], DecodedHeld[17])
  BY <1>1 DEF Ends, Images, Return, Free, DecodedHeld
<1>5. Judges(DecodePng, DecodedHeld, 5)
  BY <1>1 DEF Judges, TestArea, Test, Free, DecodedHeld, PngBoth
<1> QED
  BY <1>1, <1>2, <1>3, <1>4, <1>5 DEF Sound, DecodedHeld, DecodedKnown

PlainLayout ==
    /\ Len(DecodePng) = 14
    /\ DecodePng[1] = Get({"codec"}, {}) /\ DecodePng[2] = Get({"info"}, {"codec"})
    /\ DecodePng[3] = Register({"info"}) /\ DecodePng[4] = Jumping({"header", "side"})
    /\ DecodePng[5] = TestArea(PngBoth) /\ DecodePng[6] = Jumping({})
    /\ DecodePng[7] = Get({"data"}, PngBoth) /\ DecodePng[8] = Register({"data"})
    /\ DecodePng[9] = Get({"row_ptrs"}, PngData) /\ DecodePng[10] = Register({"row_ptrs"})
    /\ DecodePng[11] = Jumping({"pixels"}) /\ DecodePng[12] = Free({"row_ptrs"})
    /\ DecodePng[13] = Free(PngBoth) /\ DecodePng[14] = Return({"data"})

LEMMA PlainSteps ==
    ASSUME ~(gray /\ file.color)
    PROVE  PlainLayout
BY DEF DecodePng, PngHeader, PngPixels, PngImage, PngBoth, PngData, PngPtrs, PtrsSaved, PlainLayout

LEMMA PlainSound ==
    ASSUME ~(gray /\ file.color)
    PROVE  Sound(DecodePng, PlainHeld, PlainKnown, 5)
<1> USE DEF PlainLayout
<1>1. PlainLayout
  BY PlainSteps
<1>2. IsProgram(DecodePng)
  <2>1. PngPixels = PngImage({})
    BY DEF PngPixels
  <2>2. DecodePng = PngHeader \o <<Register({"data"})>> \o PngImage({}) \o <<Return({"data"})>>
    BY <2>1 DEF DecodePng
  <2> QED
    BY <2>2 DEF PngHeader, PngImage, IsProgram
<1>3. ASSUME NEW k \in 1..13
      PROVE  Follows(DecodePng[k], PlainHeld[k], PlainKnown[k], PlainHeld[k + 1], PlainKnown[k + 1])
  <2>1. /\ Follows(Get({"row_ptrs"}, PngData), PngData, PngSaved, PngPtrs, PngSaved)
        /\ Follows(Register({"row_ptrs"}), PngPtrs, PngSaved, PngPtrs, PtrsSaved)
        /\ Follows(Jumping({"pixels"}), PngPtrs, PtrsSaved, PngPtrs, PtrsSaved)
        /\ Follows(Free({"row_ptrs"}), PngPtrs, PtrsSaved, PngData, PtrsSaved)
        /\ Follows(Free(PngBoth), PngData, PtrsSaved, {"data"}, PtrsSaved)
    BY GetFollows, RegisterFollows, UnregisterFollows, JumpingFollows, FreeFollows
       DEF PngBoth, PngData, PngSaved, PngPtrs, PtrsSaved
  <2>2. CASE k \in 1..4
    BY <1>1, <2>2, HeaderFollows DEF PlainHeld, PlainKnown
  <2>3. CASE k \in 5..8
    BY <1>1, <2>3, HeaderFollows DEF PlainHeld, PlainKnown
  <2>4. CASE k \in 9..10
    BY <1>1, <2>1, <2>4 DEF PlainHeld, PlainKnown
  <2>5. CASE k \in 11..12
    BY <1>1, <2>1, <2>5 DEF PlainHeld, PlainKnown
  <2>6. CASE k = 13
    BY <1>1, <2>1, <2>6 DEF PlainHeld, PlainKnown
  <2> QED
    BY <1>3, <2>2, <2>3, <2>4, <2>5, <2>6
<1>4. Ends(DecodePng[14], PlainHeld[14])
  BY <1>1 DEF Ends, Images, Return, Free, PlainHeld
<1>5. Judges(DecodePng, PlainHeld, 5)
  BY <1>1 DEF Judges, TestArea, Test, Free, PlainHeld, PngBoth
<1> QED
  BY <1>1, <1>2, <1>3, <1>4, <1>5 DEF Sound, PlainHeld, PlainKnown

WebpGrayLayout ==
    /\ Len(DecodeWebp) = 8
    /\ DecodeWebp[1] = Test({"header"}, "CORRUPT_DATA", {})
    /\ DecodeWebp[2] = TestArea({})
    /\ DecodeWebp[3] = Get({"output"}, {})
    /\ DecodeWebp[4] = Test({"abi"}, "DECODER_UNAVAILABLE", {"output"})
    /\ DecodeWebp[5] = Calling({"pixels"}, {"output"})
    /\ DecodeWebp[6] = Get({"folded"}, {"output"})
    /\ DecodeWebp[7] = Free({"output"})
    /\ DecodeWebp[8] = Return({"folded"})

LEMMA WebpGraySteps ==
    ASSUME gray
    PROVE  WebpGrayLayout
BY DEF DecodeWebp, WebpGrayLayout

LEMMA WebpGraySound ==
    ASSUME gray
    PROVE  Sound(DecodeWebp, GrayHeld, NotKnown, 2)
<1> USE DEF WebpGrayLayout
<1>1. WebpGrayLayout
  BY WebpGraySteps
<1>2. IsProgram(DecodeWebp)
  BY DEF DecodeWebp, IsProgram
<1>3. ASSUME NEW k \in 1..7
      PROVE  Follows(DecodeWebp[k], GrayHeld[k], NotKnown[k], GrayHeld[k + 1], NotKnown[k + 1])
  <2>1. /\ Follows(Test({"header"}, "CORRUPT_DATA", {}), {}, {}, {}, {})
        /\ Follows(TestArea({}), {}, {}, {}, {})
        /\ Follows(Get({"output"}, {}), {}, {}, {"output"}, {})
        /\ Follows(Test({"abi"}, "DECODER_UNAVAILABLE", {"output"}), {"output"}, {}, {"output"}, {})
        /\ Follows(Calling({"pixels"}, {"output"}), {"output"}, {}, {"output"}, {})
        /\ Follows(Get({"folded"}, {"output"}), {"output"}, {}, {"output", "folded"}, {})
        /\ Follows(Free({"output"}), {"output", "folded"}, {}, {"folded"}, {})
    BY TestFollows, TestAreaFollows, GetFollows, CallingFollows, FreeFollows
  <2> QED
    BY <1>1, <1>3, <2>1 DEF GrayHeld, NotKnown
<1>4. Ends(DecodeWebp[8], GrayHeld[8])
  BY <1>1 DEF Ends, Images, Return, Free, GrayHeld
<1>5. Judges(DecodeWebp, GrayHeld, 2)
  BY <1>1 DEF Judges, TestArea, Test, Free, GrayHeld
<1> QED
  BY <1>1, <1>2, <1>3, <1>4, <1>5 DEF Sound, GrayHeld, NotKnown

WebpColorLayout ==
    /\ Len(DecodeWebp) = 6
    /\ DecodeWebp[1] = Test({"header"}, "CORRUPT_DATA", {})
    /\ DecodeWebp[2] = TestArea({})
    /\ DecodeWebp[3] = Get({"output"}, {})
    /\ DecodeWebp[4] = Test({"abi"}, "DECODER_UNAVAILABLE", {"output"})
    /\ DecodeWebp[5] = Calling({"pixels"}, {"output"})
    /\ DecodeWebp[6] = Return({"output"})

LEMMA WebpColorSteps ==
    ASSUME ~gray
    PROVE  WebpColorLayout
BY DEF DecodeWebp, WebpColorLayout

LEMMA WebpColorSound ==
    ASSUME ~gray
    PROVE  Sound(DecodeWebp, ColorHeld, NotKnown, 2)
<1> USE DEF WebpColorLayout
<1>1. WebpColorLayout
  BY WebpColorSteps
<1>2. IsProgram(DecodeWebp)
  BY DEF DecodeWebp, IsProgram
<1>3. ASSUME NEW k \in 1..5
      PROVE  Follows(DecodeWebp[k], ColorHeld[k], NotKnown[k], ColorHeld[k + 1], NotKnown[k + 1])
  <2>1. /\ Follows(Test({"header"}, "CORRUPT_DATA", {}), {}, {}, {}, {})
        /\ Follows(TestArea({}), {}, {}, {}, {})
        /\ Follows(Get({"output"}, {}), {}, {}, {"output"}, {})
        /\ Follows(Test({"abi"}, "DECODER_UNAVAILABLE", {"output"}), {"output"}, {}, {"output"}, {})
        /\ Follows(Calling({"pixels"}, {"output"}), {"output"}, {}, {"output"}, {})
    BY TestFollows, TestAreaFollows, GetFollows, CallingFollows
  <2> QED
    BY <1>1, <1>3, <2>1 DEF ColorHeld, NotKnown
<1>4. Ends(DecodeWebp[6], ColorHeld[6])
  BY <1>1 DEF Ends, Images, Return, Free, ColorHeld
<1>5. Judges(DecodeWebp, ColorHeld, 2)
  BY <1>1 DEF Judges, TestArea, Test, Free, ColorHeld
<1> QED
  BY <1>1, <1>2, <1>3, <1>4, <1>5 DEF Sound, ColorHeld, NotKnown

StbExpandingLayout ==
    /\ Len(DecodeStb) = 7
    /\ DecodeStb[1] = Test({"wide"}, "IMAGE_TOO_LARGE", {})
    /\ DecodeStb[2] = TestArea({})
    /\ DecodeStb[3] = Calling({"header", "tables", "pixels", "unknown", "too_large"}, {})
    /\ DecodeStb[4] = Create({"pixels"})
    /\ DecodeStb[5] = Get({"expanded"}, {"pixels"})
    /\ DecodeStb[6] = Free({"pixels"})
    /\ DecodeStb[7] = Return({"expanded"})

LEMMA StbExpandingSteps ==
    ASSUME ~gray /\ ~file.color
    PROVE  StbExpandingLayout
BY DEF DecodeStb, StbExpandingLayout

LEMMA StbExpandingSound ==
    ASSUME ~gray /\ ~file.color
    PROVE  Sound(DecodeStb, ExpandedHeld, NotKnown, 2)
<1> USE DEF StbExpandingLayout
<1>1. StbExpandingLayout
  BY StbExpandingSteps
<1>2. IsProgram(DecodeStb)
  BY DEF DecodeStb, IsProgram
<1>3. ASSUME NEW k \in 1..6
      PROVE  Follows(DecodeStb[k], ExpandedHeld[k], NotKnown[k], ExpandedHeld[k + 1], NotKnown[k + 1])
  <2>1. /\ Follows(Test({"wide"}, "IMAGE_TOO_LARGE", {}), {}, {}, {}, {})
        /\ Follows(TestArea({}), {}, {}, {}, {})
        /\ Follows(Calling({"header", "tables", "pixels", "unknown", "too_large"}, {}), {}, {}, {}, {})
        /\ Follows(Create({"pixels"}), {}, {}, {"pixels"}, {})
        /\ Follows(Get({"expanded"}, {"pixels"}), {"pixels"}, {}, {"pixels", "expanded"}, {})
        /\ Follows(Free({"pixels"}), {"pixels", "expanded"}, {}, {"expanded"}, {})
    BY TestFollows, TestAreaFollows, CreateFollows, CallingFollows, GetFollows, FreeFollows
  <2> QED
    BY <1>1, <1>3, <2>1 DEF ExpandedHeld, NotKnown
<1>4. Ends(DecodeStb[7], ExpandedHeld[7])
  BY <1>1 DEF Ends, Images, Return, Free, ExpandedHeld
<1>5. Judges(DecodeStb, ExpandedHeld, 2)
  BY <1>1 DEF Judges, TestArea, Test, Free, ExpandedHeld
<1> QED
  BY <1>1, <1>2, <1>3, <1>4, <1>5 DEF Sound, ExpandedHeld, NotKnown

StbPlainLayout ==
    /\ Len(DecodeStb) = 5
    /\ DecodeStb[1] = Test({"wide"}, "IMAGE_TOO_LARGE", {})
    /\ DecodeStb[2] = TestArea({})
    /\ DecodeStb[3] = Calling({"header", "tables", "pixels", "unknown", "too_large"}, {})
    /\ DecodeStb[4] = Create({"pixels"})
    /\ DecodeStb[5] = Return({"pixels"})

LEMMA StbPlainSteps ==
    ASSUME ~(~gray /\ ~file.color)
    PROVE  StbPlainLayout
BY DEF DecodeStb, StbPlainLayout

LEMMA StbPlainSound ==
    ASSUME ~(~gray /\ ~file.color)
    PROVE  Sound(DecodeStb, InPlaceHeld, NotKnown, 2)
<1> USE DEF StbPlainLayout
<1>1. StbPlainLayout
  BY StbPlainSteps
<1>2. IsProgram(DecodeStb)
  BY DEF DecodeStb, IsProgram
<1>3. ASSUME NEW k \in 1..4
      PROVE  Follows(DecodeStb[k], InPlaceHeld[k], NotKnown[k], InPlaceHeld[k + 1], NotKnown[k + 1])
  <2>1. /\ Follows(Test({"wide"}, "IMAGE_TOO_LARGE", {}), {}, {}, {}, {})
        /\ Follows(TestArea({}), {}, {}, {}, {})
        /\ Follows(Calling({"header", "tables", "pixels", "unknown", "too_large"}, {}), {}, {}, {}, {})
        /\ Follows(Create({"pixels"}), {}, {}, {"pixels"}, {})
    BY TestFollows, TestAreaFollows, CreateFollows, CallingFollows
  <2> QED
    BY <1>1, <1>3, <2>1 DEF InPlaceHeld, NotKnown
<1>4. Ends(DecodeStb[5], InPlaceHeld[5])
  BY <1>1 DEF Ends, Images, Return, Free, InPlaceHeld
<1>5. Judges(DecodeStb, InPlaceHeld, 2)
  BY <1>1 DEF Judges, TestArea, Test, Free, InPlaceHeld
<1> QED
  BY <1>1, <1>2, <1>3, <1>4, <1>5 DEF Sound, InPlaceHeld, NotKnown

\* Whatever backend the build and the file select, its outline is sound.
LEMMA BackendSound == Sound(Backend, Held, Known, Area)
<1>1. CASE IsJpeg
  BY <1>1, JpegSound DEF IsJpeg, Backend, Held, Known, Area
<1>2. CASE IsPng
  <2>1. Sound(DecodePng, PngHeld, PngKnown, 5)
    BY RowsSound, DecodedSound, PlainSound DEF PngHeld, PngKnown
  <2> QED
    BY <1>2, <2>1 DEF IsJpeg, IsPng, Backend, Held, Known, Area
<1>3. CASE IsWebp
  <2>1. Sound(DecodeWebp, WebpHeld, NotKnown, 2)
    BY WebpGraySound, WebpColorSound DEF WebpHeld
  <2> QED
    BY <1>3, <2>1 DEF IsJpeg, IsPng, IsWebp, Backend, Held, Known, Area
<1>4. CASE ~IsJpeg /\ ~IsPng /\ ~IsWebp
  <2>1. Sound(DecodeStb, StbHeld, NotKnown, 2)
    BY StbExpandingSound, StbPlainSound DEF StbHeld
  <2> QED
    BY <1>4, <2>1 DEF IsJpeg, IsPng, IsWebp, Backend, Held, Known, Area
<1> QED
  BY <1>1, <1>2, <1>3, <1>4

-----------------------------------------------------------------------------
\* What a step says of a defect, and which defects of a format the backends look for
\* (the others are met before, by ph_decode_buffer(), or after): a backend meets all of
\* them by step `look`, where the library decodes the pixels, and Early ones before it.
AnswerTo(defect) ==
    IF defect \in {"wide", "area", "side"} THEN "IMAGE_TOO_LARGE"
    ELSE IF defect = "abi" THEN "DECODER_UNAVAILABLE" ELSE "CORRUPT_DATA"

Early == {"wide", "area", "side", "abi"}

Sought == Defects(file.format) \ ({"none", "zero", "long"} \cup IF file.format = "png" THEN {"wide"} ELSE {})

Looks(step, defect) == step.do \in {"call", "test"} /\ defect \in step.finds

Tells(steps, look) ==
    /\ \A k \in 1..Len(steps) :
          /\ steps[k].do = "test" =>
                /\ steps[k].finds \subseteq {"header", "tables", "wide", "area", "side", "abi"}
                /\ \A defect \in steps[k].finds : steps[k].error = AnswerTo(defect)
          /\ steps[k].do = "call" =>
                /\ steps[k].finds \subseteq {"header", "tables", "pixels", "unknown", "too_large", "side"}
                /\ "side" \in steps[k].finds => steps[k].jumps /\ file.format = "png"
                /\ "pixels" \in steps[k].finds => k = look
    /\ look \in 1..Len(steps) - 1 /\ Looks(steps[look], "pixels")
    /\ \A defect \in Sought : \E k \in 1..look : Looks(steps[k], defect) /\ (defect \in Early => k # look)

\* What the kinds of steps have for it.
LEMMA KindsTell ==
    /\ \A finds, error, frees : /\ Test(finds, error, frees).do = "test"
                                /\ Test(finds, error, frees).finds = finds
                                /\ Test(finds, error, frees).error = error
    /\ \A frees : /\ TestArea(frees).do = "test" /\ TestArea(frees).finds = {"area", "side"}
                  /\ TestArea(frees).error = "IMAGE_TOO_LARGE"
    /\ \A finds : /\ Jumping(finds).do = "call" /\ Jumping(finds).finds = finds /\ Jumping(finds).jumps
    /\ \A finds, frees : Calling(finds, frees).do = "call" /\ Calling(finds, frees).finds = finds
    /\ \A what, frees : Get(what, frees).do = "get"
    /\ \A what : /\ Free(what).do = "free" /\ Create(what).do = "create" /\ Return(what).do = "return"
                 /\ Register(what).do = "register" /\ Unregister(what).do = "unregister"
BY DEF Test, TestArea, Jumping, Calling, Get, Free, Create, Return, Register, Unregister

LEMMA JpegTells ==
    ASSUME file.format = "jpeg"
    PROVE  Tells(DecodeJpeg, 8)
<1>1. JpegLayout
  BY JpegSteps
<1>2. Sought = {"area", "header", "pixels", "tables"}
  BY DEF Sought, Defects
<1>3. Looks(DecodeJpeg[2], "header") /\ Looks(DecodeJpeg[3], "tables") /\ Looks(DecodeJpeg[4], "area")
      /\ Looks(DecodeJpeg[8], "pixels")
  BY <1>1, KindsTell DEF Looks, JpegLayout
<1>4. ASSUME NEW k \in 1..10
      PROVE  /\ DecodeJpeg[k].do = "test" =>
                /\ DecodeJpeg[k].finds \subseteq {"header", "tables", "wide", "area", "side", "abi"}
                /\ \A defect \in DecodeJpeg[k].finds : DecodeJpeg[k].error = AnswerTo(defect)
             /\ DecodeJpeg[k].do = "call" =>
                /\ DecodeJpeg[k].finds \subseteq {"header", "tables", "pixels", "unknown", "too_large", "side"}
                /\ "side" \notin DecodeJpeg[k].finds
                /\ "pixels" \in DecodeJpeg[k].finds => k = 8
  BY <1>1, KindsTell DEF JpegLayout, AnswerTo
<1> QED
  BY <1>1, <1>2, <1>3, <1>4 DEF Tells, Early, JpegLayout

LEMMA RowsTells ==
    ASSUME gray, file.color, ~file.interlaced, file.format = "png"
    PROVE  Tells(DecodePng, 11)
<1>1. RowsLayout
  BY RowsSteps
<1>2. Sought = {"area", "header", "pixels", "side"}
  BY DEF Sought, Defects
<1>3. /\ Looks(DecodePng[4], "header")
      /\ Looks(DecodePng[4], "side")
      /\ Looks(DecodePng[5], "area")
      /\ Looks(DecodePng[11], "pixels")
  BY <1>1, KindsTell DEF Looks, RowsLayout
<1>4. ASSUME NEW k \in 1..15
      PROVE  /\ DecodePng[k].do = "test" =>
                /\ DecodePng[k].finds \subseteq {"header", "tables", "wide", "area", "side", "abi"}
                /\ \A defect \in DecodePng[k].finds : DecodePng[k].error = AnswerTo(defect)
             /\ DecodePng[k].do = "call" =>
                /\ DecodePng[k].finds \subseteq {"header", "tables", "pixels", "unknown", "too_large", "side"}
                /\ "side" \in DecodePng[k].finds => DecodePng[k].jumps
                /\ "pixels" \in DecodePng[k].finds => k = 11
  BY <1>1, KindsTell DEF RowsLayout, AnswerTo
<1> QED
  BY <1>1, <1>2, <1>3, <1>4 DEF Tells, Early, RowsLayout

LEMMA DecodedTells ==
    ASSUME gray, file.color, file.interlaced, file.format = "png"
    PROVE  Tells(DecodePng, 13)
<1>1. DecodedLayout
  BY DecodedSteps
<1>2. Sought = {"area", "header", "pixels", "side"}
  BY DEF Sought, Defects
<1>3. /\ Looks(DecodePng[4], "header")
      /\ Looks(DecodePng[4], "side")
      /\ Looks(DecodePng[5], "area")
      /\ Looks(DecodePng[13], "pixels")
  BY <1>1, KindsTell DEF Looks, DecodedLayout
<1>4. ASSUME NEW k \in 1..17
      PROVE  /\ DecodePng[k].do = "test" =>
                /\ DecodePng[k].finds \subseteq {"header", "tables", "wide", "area", "side", "abi"}
                /\ \A defect \in DecodePng[k].finds : DecodePng[k].error = AnswerTo(defect)
             /\ DecodePng[k].do = "call" =>
                /\ DecodePng[k].finds \subseteq {"header", "tables", "pixels", "unknown", "too_large", "side"}
                /\ "side" \in DecodePng[k].finds => DecodePng[k].jumps
                /\ "pixels" \in DecodePng[k].finds => k = 13
  BY <1>1, KindsTell DEF DecodedLayout, AnswerTo
<1> QED
  BY <1>1, <1>2, <1>3, <1>4 DEF Tells, Early, DecodedLayout

LEMMA PlainTells ==
    ASSUME ~(gray /\ file.color), file.format = "png"
    PROVE  Tells(DecodePng, 11)
<1>1. PlainLayout
  BY PlainSteps
<1>2. Sought = {"area", "header", "pixels", "side"}
  BY DEF Sought, Defects
<1>3. /\ Looks(DecodePng[4], "header")
      /\ Looks(DecodePng[4], "side")
      /\ Looks(DecodePng[5], "area")
      /\ Looks(DecodePng[11], "pixels")
  BY <1>1, KindsTell DEF Looks, PlainLayout
<1>4. ASSUME NEW k \in 1..14
      PROVE  /\ DecodePng[k].do = "test" =>
                /\ DecodePng[k].finds \subseteq {"header", "tables", "wide", "area", "side", "abi"}
                /\ \A defect \in DecodePng[k].finds : DecodePng[k].error = AnswerTo(defect)
             /\ DecodePng[k].do = "call" =>
                /\ DecodePng[k].finds \subseteq {"header", "tables", "pixels", "unknown", "too_large", "side"}
                /\ "side" \in DecodePng[k].finds => DecodePng[k].jumps
                /\ "pixels" \in DecodePng[k].finds => k = 11
  BY <1>1, KindsTell DEF PlainLayout, AnswerTo
<1> QED
  BY <1>1, <1>2, <1>3, <1>4 DEF Tells, Early, PlainLayout

LEMMA WebpGrayTells ==
    ASSUME gray, file.format = "webp"
    PROVE  Tells(DecodeWebp, 5)
<1>1. WebpGrayLayout
  BY WebpGraySteps
<1>2. Sought = {"area", "header", "pixels", "abi"}
  BY DEF Sought, Defects
<1>3. /\ Looks(DecodeWebp[1], "header")
      /\ Looks(DecodeWebp[2], "area")
      /\ Looks(DecodeWebp[4], "abi")
      /\ Looks(DecodeWebp[5], "pixels")
  BY <1>1, KindsTell DEF Looks, WebpGrayLayout
<1>4. ASSUME NEW k \in 1..8
      PROVE  /\ DecodeWebp[k].do = "test" =>
                /\ DecodeWebp[k].finds \subseteq {"header", "tables", "wide", "area", "side", "abi"}
                /\ \A defect \in DecodeWebp[k].finds : DecodeWebp[k].error = AnswerTo(defect)
             /\ DecodeWebp[k].do = "call" =>
                /\ DecodeWebp[k].finds \subseteq {"header", "tables", "pixels", "unknown", "too_large", "side"}
                /\ "side" \notin DecodeWebp[k].finds
                /\ "pixels" \in DecodeWebp[k].finds => k = 5
  BY <1>1, KindsTell DEF WebpGrayLayout, AnswerTo
<1> QED
  BY <1>1, <1>2, <1>3, <1>4 DEF Tells, Early, WebpGrayLayout

LEMMA WebpColorTells ==
    ASSUME ~gray, file.format = "webp"
    PROVE  Tells(DecodeWebp, 5)
<1>1. WebpColorLayout
  BY WebpColorSteps
<1>2. Sought = {"area", "header", "pixels", "abi"}
  BY DEF Sought, Defects
<1>3. /\ Looks(DecodeWebp[1], "header")
      /\ Looks(DecodeWebp[2], "area")
      /\ Looks(DecodeWebp[4], "abi")
      /\ Looks(DecodeWebp[5], "pixels")
  BY <1>1, KindsTell DEF Looks, WebpColorLayout
<1>4. ASSUME NEW k \in 1..6
      PROVE  /\ DecodeWebp[k].do = "test" =>
                /\ DecodeWebp[k].finds \subseteq {"header", "tables", "wide", "area", "side", "abi"}
                /\ \A defect \in DecodeWebp[k].finds : DecodeWebp[k].error = AnswerTo(defect)
             /\ DecodeWebp[k].do = "call" =>
                /\ DecodeWebp[k].finds \subseteq {"header", "tables", "pixels", "unknown", "too_large", "side"}
                /\ "side" \notin DecodeWebp[k].finds
                /\ "pixels" \in DecodeWebp[k].finds => k = 5
  BY <1>1, KindsTell DEF WebpColorLayout, AnswerTo
<1> QED
  BY <1>1, <1>2, <1>3, <1>4 DEF Tells, Early, WebpColorLayout

LEMMA StbExpandingTells ==
    ASSUME ~gray /\ ~file.color, file.format # "webp"
    PROVE  Tells(DecodeStb, 3)
<1>1. StbExpandingLayout
  BY StbExpandingSteps
<1>2. Sought \subseteq {"area", "header", "pixels", "tables", "side", "wide", "unknown", "too_large"}
  BY DEF Sought, Defects
<1>3. /\ Looks(DecodeStb[1], "wide")
      /\ Looks(DecodeStb[2], "area")
      /\ Looks(DecodeStb[2], "side")
      /\ Looks(DecodeStb[3], "header")
      /\ Looks(DecodeStb[3], "tables")
      /\ Looks(DecodeStb[3], "pixels")
      /\ Looks(DecodeStb[3], "unknown")
      /\ Looks(DecodeStb[3], "too_large")
  BY <1>1, KindsTell DEF Looks, StbExpandingLayout
<1>4. ASSUME NEW k \in 1..7
      PROVE  /\ DecodeStb[k].do = "test" =>
                /\ DecodeStb[k].finds \subseteq {"header", "tables", "wide", "area", "side", "abi"}
                /\ \A defect \in DecodeStb[k].finds : DecodeStb[k].error = AnswerTo(defect)
             /\ DecodeStb[k].do = "call" =>
                /\ DecodeStb[k].finds \subseteq {"header", "tables", "pixels", "unknown", "too_large", "side"}
                /\ "side" \notin DecodeStb[k].finds
                /\ "pixels" \in DecodeStb[k].finds => k = 3
  BY <1>1, KindsTell DEF StbExpandingLayout, AnswerTo
<1> QED
  BY <1>1, <1>2, <1>3, <1>4 DEF Tells, Early, StbExpandingLayout

LEMMA StbPlainTells ==
    ASSUME ~(~gray /\ ~file.color), file.format # "webp"
    PROVE  Tells(DecodeStb, 3)
<1>1. StbPlainLayout
  BY StbPlainSteps
<1>2. Sought \subseteq {"area", "header", "pixels", "tables", "side", "wide", "unknown", "too_large"}
  BY DEF Sought, Defects
<1>3. /\ Looks(DecodeStb[1], "wide")
      /\ Looks(DecodeStb[2], "area")
      /\ Looks(DecodeStb[2], "side")
      /\ Looks(DecodeStb[3], "header")
      /\ Looks(DecodeStb[3], "tables")
      /\ Looks(DecodeStb[3], "pixels")
      /\ Looks(DecodeStb[3], "unknown")
      /\ Looks(DecodeStb[3], "too_large")
  BY <1>1, KindsTell DEF Looks, StbPlainLayout
<1>4. ASSUME NEW k \in 1..5
      PROVE  /\ DecodeStb[k].do = "test" =>
                /\ DecodeStb[k].finds \subseteq {"header", "tables", "wide", "area", "side", "abi"}
                /\ \A defect \in DecodeStb[k].finds : DecodeStb[k].error = AnswerTo(defect)
             /\ DecodeStb[k].do = "call" =>
                /\ DecodeStb[k].finds \subseteq {"header", "tables", "pixels", "unknown", "too_large", "side"}
                /\ "side" \notin DecodeStb[k].finds
                /\ "pixels" \in DecodeStb[k].finds => k = 3
  BY <1>1, KindsTell DEF StbPlainLayout, AnswerTo
<1> QED
  BY <1>1, <1>2, <1>3, <1>4 DEF Tells, Early, StbPlainLayout

Look ==
    IF IsJpeg THEN 8 ELSE IF IsPng THEN (IF gray /\ file.color /\ file.interlaced THEN 13 ELSE 11)
    ELSE IF IsWebp THEN 5 ELSE 3

\* Every backend tells what it finds as the others do.
LEMMA BackendTells ==
    ASSUME file.format = "webp" => native
    PROVE  Tells(Backend, Look)
<1>1. CASE IsJpeg
  BY <1>1, JpegTells DEF IsJpeg, Backend, Look
<1>2. CASE IsPng
  <2>1. Tells(DecodePng, IF gray /\ file.color /\ file.interlaced THEN 13 ELSE 11)
    BY <1>2, RowsTells, DecodedTells, PlainTells DEF IsPng
  <2> QED
    BY <1>2, <2>1 DEF IsJpeg, IsPng, Backend, Look
<1>3. CASE IsWebp
  <2>1. Tells(DecodeWebp, 5)
    BY <1>3, WebpGrayTells, WebpColorTells DEF IsWebp
  <2> QED
    BY <1>3, <2>1 DEF IsJpeg, IsPng, IsWebp, Backend, Look
<1>4. CASE ~IsJpeg /\ ~IsPng /\ ~IsWebp
  <2>1. Tells(DecodeStb, 3)
    BY <1>4, StbExpandingTells, StbPlainTells DEF IsWebp
  <2> QED
    BY <1>4, <2>1 DEF IsJpeg, IsPng, IsWebp, Backend, Look
<1> QED
  BY <1>1, <1>2, <1>3, <1>4

-----------------------------------------------------------------------------
\* What is left of a program from step k on.
Rest(steps, k) == [i \in 1..Len(steps) - k + 1 |-> steps[k + i - 1]]

LEMMA RestSteps ==
    ASSUME NEW steps, IsProgram(steps), NEW k \in 1..Len(steps)
    PROVE  /\ Rest(steps, 1) = steps
           /\ Head(Rest(steps, k)) = steps[k]
           /\ Tail(Rest(steps, k)) = Rest(steps, k + 1)
<1> DEFINE S == {steps[i] : i \in 1..Len(steps)}
<1>1. Rest(steps, k) \in Seq(S) /\ Len(Rest(steps, k)) = Len(steps) - k + 1
  BY DEF Rest, IsProgram
<1>2. Head(Rest(steps, k)) = steps[k] /\ Rest(steps, 1) = steps
  BY <1>1 DEF Rest, IsProgram
<1> DEFINE n == Len(steps) - k
<1>3. n \in Nat /\ Len(Rest(steps, k)) = n + 1
  BY <1>1 DEF IsProgram
<1>4. Tail(Rest(steps, k)) = [i \in 1..n |-> Rest(steps, k)[i + 1]]
  <2> DEFINE rest == Rest(steps, k)
  <2>1. rest \in Seq(S) /\ Len(rest) = n + 1
    BY <1>1, <1>3
  <2> HIDE DEF rest, S, n
  <2>2. Tail(rest) \in Seq(S) /\ Len(Tail(rest)) = n /\ \A i \in 1..n : Tail(rest)[i] = rest[i + 1]
    BY <1>3, <2>1
  <2>3. Tail(rest) = [i \in 1..n |-> rest[i + 1]]
    <3>1. Tail(rest) \in [1..n -> S]
      BY <2>2, LenProperties
    <3> QED
      BY <2>2, <3>1
  <2> QED
    BY <2>3 DEF rest
<1>5. \A i \in 1..n : Rest(steps, k)[i + 1] = steps[k + i]
  BY <1>3 DEF Rest, IsProgram
<1>6. Rest(steps, k + 1) = [i \in 1..n |-> steps[k + i]]
  BY <1>3 DEF Rest, IsProgram
<1> QED
  BY <1>2, <1>4, <1>5, <1>6

-----------------------------------------------------------------------------
\* A decode at step k of its backend, with what the earlier steps have not found.
Passed(k) == \A j \in 1..k - 1 : Backend[j].do \in {"call", "test"} => Misses(Backend[j])

AtStep(k) ==
    /\ todo = Rest(Backend, k)
    /\ held = Held[k] /\ cleanup = Known[k]
    /\ Passed(k)

Limits == {"long", "wide", "area", "side"}

Given ==
    /\ file \in Files /\ native \in BOOLEAN /\ gray \in BOOLEAN
    /\ file.format = "other" => ~native

Place ==
    /\ status = "called" => held = {} /\ cleanup = {} /\ message = "none"
    /\ status = "decoding" =>
          /\ message = "none"
          /\ file.defect # "long" /\ ~(file.defect = "wide" /\ file.format = "png")
          /\ \E k \in 1..Len(Backend) : AtStep(k)

Outcome ==
    Finished =>
        IF status = "SUCCESS"
        THEN (\E image \in Images : held = {image}) /\ file.defect \notin Limits /\ message = "none"
        ELSE held = {} /\ message = status

IInv == Given /\ Place /\ Outcome

\* The backend, its outline and what a step finds depend on the call alone.
LEMMA CallDecides ==
    ASSUME UNCHANGED <<file, native, gray>>
    PROVE  /\ Backend' = Backend /\ Held' = Held /\ Known' = Known
           /\ \A step : Misses(step)' = Misses(step)
<1>1. Backend' = Backend
  BY DEF Backend, DecodeJpeg, DecodePng, PngHeader, PngPixels, PngRows, PngImage, DecodeWebp, DecodeStb
<1>2. Held' = Held /\ Known' = Known
  BY DEF Held, Known, IsJpeg, IsPng, IsWebp, PngHeld, PngKnown, WebpHeld, StbHeld
<1>3. \A step : Misses(step)' = Misses(step)
  BY DEF Misses, Trouble, Complete, LibpngIsContent
<1> QED
  BY <1>1, <1>2, <1>3

\* An image that is over a limit is not decoded beyond the test of its area.
LEMMA LimitsHold ==
    ASSUME IInv, status = "decoding", NEW k \in 1..Len(Backend), AtStep(k), file.defect \in Limits
    PROVE  Held[k] \subseteq {"codec", "info"}
<1>1. Judges(Backend, Held, Area)
  BY BackendSound DEF Sound
<1>2. CASE k <= Area
  BY <1>1, <1>2 DEF Judges
<1>3. CASE ~(k <= Area)
  <2>1. Len(Backend) \in Nat /\ Area \in 1..k - 1
    BY <1>1, <1>3, BackendSound DEF Sound, IsProgram, Judges
  <2>2. file.defect \notin {"area", "side"}
    BY <1>1, <2>1 DEF AtStep, Passed, Misses, Judges
  <2>3. file.defect = "wide" /\ file.format # "png"
    BY <2>2 DEF IInv, Place, Limits
  <2>4. file.format = "other" /\ ~native
    BY <2>3, DecodeAssumption DEF IInv, Given, Defects
  <2>5. Backend = DecodeStb
    BY <2>4 DEF Backend
  <2>6. Backend[1].do = "test" /\ "wide" \in Backend[1].finds
    <3>1. Backend[1] = Test({"wide"}, "IMAGE_TOO_LARGE", {})
      BY <2>5, StbExpandingSound, StbPlainSound DEF DecodeStb
    <3> QED
      BY <3>1 DEF Test, Free
  <2>7. 1 \in 1..k - 1
    BY <2>1, <1>1 DEF Judges
  <2> QED
    BY <2>3, <2>6, <2>7 DEF AtStep, Passed, Misses
<1> QED
  BY <1>2, <1>3

\* A step that succeeds leads to the next place of the outline.
LEMMA NextPlace ==
    ASSUME IInv, status = "decoding", NEW k \in 1..Len(Backend), AtStep(k),
           Advance, k < Len(Backend), held' = Held[k + 1], cleanup' = Known[k + 1],
           Backend[k].do \in {"call", "test"} => Misses(Backend[k])
    PROVE  IInv'
<1>1. /\ todo' = Tail(todo) /\ file' = file /\ native' = native /\ gray' = gray
      /\ message' = message /\ status' = status
  BY DEF Advance
<1>2. Backend' = Backend /\ Held' = Held /\ Known' = Known /\ \A step : Misses(step)' = Misses(step)
  BY <1>1, CallDecides
<1>3. IsProgram(Backend) /\ Len(Backend) \in Nat /\ k + 1 \in 1..Len(Backend)
  BY BackendSound DEF Sound, IsProgram
<1>4. todo' = Rest(Backend, k + 1)
  BY <1>1, <1>3, RestSteps DEF AtStep
<1>5. Passed(k + 1)
  BY <1>3 DEF AtStep, Passed
<1>6. AtStep(k + 1)'
  BY <1>2, <1>4, <1>5 DEF AtStep, Passed
<1>7. Place'
  BY <1>1, <1>2, <1>3, <1>6 DEF IInv, Place
<1>8. Given' /\ Outcome'
  BY <1>1 DEF IInv, Given, Outcome, Finished
<1> QED
  BY <1>7, <1>8 DEF IInv

\* A step that fails and has given back everything ends the call.
LEMMA FailureEnds ==
    ASSUME IInv, NEW code, NEW text, Answer(code, text), code = text,
           code \in {"IMAGE_TOO_LARGE", "CORRUPT_DATA", "DECODER_UNAVAILABLE", "UNSUPPORTED_FORMAT", "ALLOCATION_FAILED"},
           held' = {}
    PROVE  IInv'
BY DEF IInv, Answer, Given, Place, Outcome, Finished

\* The step the program is at, and what its outline says of it.
LEMMA StepOfOutline ==
    ASSUME IInv, status = "decoding"
    PROVE  \E k \in 1..Len(Backend) :
              /\ AtStep(k) /\ Step = Backend[k]
              /\ held = Held[k] /\ cleanup = Known[k] /\ k + 1 \in Nat
              /\ Step.do # "return" =>
                    k < Len(Backend) /\ Follows(Step, held, cleanup, Held[k + 1], Known[k + 1])
              /\ Step.do = "return" => k = Len(Backend) /\ Ends(Step, held)
<1>1. PICK k \in 1..Len(Backend) : AtStep(k)
  BY DEF IInv, Place
<1>2. Sound(Backend, Held, Known, Area) /\ Len(Backend) \in Nat \ {0} /\ IsProgram(Backend)
  BY BackendSound DEF Sound, IsProgram
<1>3. Step = Backend[k] /\ held = Held[k] /\ cleanup = Known[k]
  BY <1>1, <1>2, RestSteps DEF AtStep, Step
<1>4. CASE k = Len(Backend)
  <2>1. Ends(Step, held)
    BY <1>2, <1>3, <1>4 DEF Sound
  <2>2. Step.do = "return"
    BY <2>1 DEF Ends
  <2> QED
    BY <1>1, <1>2, <1>3, <1>4, <2>1, <2>2
<1>5. CASE k # Len(Backend)
  <2>1. k \in 1..Len(Backend) - 1 /\ k < Len(Backend) /\ k + 1 \in Nat
    BY <1>2, <1>5
  <2>2. Follows(Step, held, cleanup, Held[k + 1], Known[k + 1])
    BY <1>2, <1>3, <2>1 DEF Sound
  <2>3. Step.do # "return"
    BY <2>2 DEF Follows
  <2> QED
    BY <1>1, <1>3, <2>1, <2>2, <2>3
<1> QED
  BY <1>4, <1>5

-----------------------------------------------------------------------------
Errors == {"IMAGE_TOO_LARGE", "CORRUPT_DATA", "DECODER_UNAVAILABLE", "UNSUPPORTED_FORMAT", "ALLOCATION_FAILED"}

\* A library call or a test that fails gives back what is held, whether it returns to
\* the backend or jumps out of it.
LEMMA FailEmpties ==
    ASSUME IInv, At("call") \/ At("test"), NEW code \in Errors, Fail(code), UNCHANGED cleanup
    PROVE  IInv'
<1>1. PICK k \in 1..Len(Backend) :
         AtStep(k) /\ Step = Backend[k] /\ Follows(Step, held, cleanup, Held[k + 1], Known[k + 1])
  BY StepOfOutline DEF At
<1>2. CASE Step.jumps
  <2>1. At("call") /\ held = cleanup \cup {"codec"}
    BY <1>1, <1>2 DEF At, Follows
  <2>2. PICK word \in Errors : held' = held \ (cleanup \cup {"codec"}) /\ Answer(word, word)
    BY <1>2 DEF Fail, Jump, PngReport, Errors
  <2> QED
    BY <2>1, <2>2, FailureEnds DEF Errors
<1>3. CASE ~Step.jumps
  <2>1. held = Step.frees
    BY <1>1, <1>3 DEF At, Follows
  <2>2. held' = {} /\ Answer(code, code)
    BY <1>3, <2>1 DEF Fail
  <2> QED
    BY <2>2, FailureEnds DEF Errors
<1> QED
  BY <1>2, <1>3

\* Every step keeps the invariant: the call is refused or begins,
LEMMA BeginningKeeps == IInv /\ (Refuse \/ Dispatch) => IInv'
<1>1. ASSUME IInv, Refuse PROVE IInv'
  <2>1. status = "called" /\ held = {} /\ held' = {}
    BY <1>1 DEF Refuse, IInv, Place
  <2>2. PICK code \in Errors : Answer(code, code)
    BY <1>1 DEF Refuse, Errors
  <2> QED
    BY <1>1, <2>1, <2>2, FailureEnds DEF Errors
<1>2. ASSUME IInv, Dispatch PROVE IInv'
  <2>1. /\ status = "called" /\ held = {} /\ cleanup = {} /\ message = "none"
        /\ file.defect # "long" /\ ~(file.defect = "wide" /\ file.format = "png")
        /\ todo' = Backend /\ status' = "decoding"
        /\ UNCHANGED <<file, native, gray, held, cleanup, message>>
    BY <1>2 DEF Dispatch, IInv, Place
  <2>2. Backend' = Backend /\ Held' = Held /\ Known' = Known
    BY <2>1, CallDecides
  <2>3. IsProgram(Backend) /\ 1 \in 1..Len(Backend) /\ Held[1] = {} /\ Known[1] = {}
    BY BackendSound DEF Sound, IsProgram
  <2>4. todo' = Rest(Backend, 1)
    BY <2>1, <2>3, RestSteps
  <2>5. AtStep(1)'
    BY <2>1, <2>2, <2>3, <2>4 DEF AtStep, Passed
  <2>6. Place'
    BY <2>1, <2>2, <2>3, <2>5 DEF Place
  <2>7. Given' /\ Outcome'
    BY <1>2, <2>1 DEF IInv, Given, Outcome, Finished
  <2> QED
    BY <2>6, <2>7 DEF IInv
<1> QED
  BY <1>1, <1>2

\* a call or a test fails,
LEMMA FailingKeeps == IInv /\ (CallFails \/ CallRunsOut \/ TestFails) => IInv'
<1>1. ASSUME IInv, CallFails PROVE IInv'
  BY <1>1, FailEmpties DEF CallFails, Errors
<1>2. ASSUME IInv, CallRunsOut PROVE IInv'
  BY <1>2, FailEmpties DEF CallRunsOut, Errors
<1>3. ASSUME IInv, TestFails PROVE IInv'
  <2>1. Step.error \in Errors
    BY <1>3, StepOfOutline DEF TestFails, At, Follows, Errors
  <2> QED
    BY <1>3, <2>1, FailEmpties DEF TestFails
<1> QED
  BY <1>1, <1>2, <1>3

\* an allocation fails, of everything or of some of the blocks,
LEMMA GetFailsKeeps == IInv /\ GetFails => IInv'
<1> SUFFICES ASSUME IInv, GetFails PROVE IInv'
  OBVIOUS
<1>1. PICK some \in SUBSET Step.what : some # Step.what /\ held' = (held \cup some) \ Step.frees
  BY DEF GetFails
<1>2. held \cup some \subseteq Step.frees
  BY <1>1, StepOfOutline DEF GetFails, At, Follows
<1>3. held' = {} /\ Answer("ALLOCATION_FAILED", "ALLOCATION_FAILED")
  BY <1>1, <1>2 DEF GetFails
<1> QED
  BY <1>3, FailureEnds

\* a step succeeds,
LEMMA AdvancingKeeps ==
    IInv /\ (CallSucceeds \/ TestPasses \/ GetAll \/ GiveBack \/ SetCleanup) => IInv'
<1> SUFFICES ASSUME IInv, CallSucceeds \/ TestPasses \/ GetAll \/ GiveBack \/ SetCleanup
             PROVE  IInv'
  OBVIOUS
<1>1. status = "decoding" /\ Step.do # "return" /\ Advance
  BY DEF CallSucceeds, TestPasses, GetAll, GiveBack, SetCleanup, At
<1>2. PICK k \in 1..Len(Backend) :
         /\ AtStep(k) /\ Step = Backend[k] /\ k < Len(Backend)
         /\ Follows(Step, held, cleanup, Held[k + 1], Known[k + 1])
  BY <1>1, StepOfOutline
<1>3. held' = Held[k + 1] /\ cleanup' = Known[k + 1]
  BY <1>2 DEF Follows, CallSucceeds, TestPasses, GetAll, GiveBack, SetCleanup, At
<1>4. Backend[k].do \in {"call", "test"} => Misses(Backend[k])
  BY <1>2 DEF CallSucceeds, TestPasses, GetAll, GiveBack, SetCleanup, At
<1> QED
  BY <1>1, <1>2, <1>3, <1>4, NextPlace

\* and a decoded image is judged.
LEMMA JudgeKeeps == IInv /\ Judge => IInv'
<1> SUFFICES ASSUME IInv, Judge PROVE IInv'
  OBVIOUS
<1>1. PICK k \in 1..Len(Backend) : AtStep(k) /\ held = Held[k] /\ Ends(Step, held)
  BY StepOfOutline DEF Judge, At
<1>2. CASE file.defect = "zero" \/ Truncation # "whole"
  <2>1. held' = {} /\ Answer("CORRUPT_DATA", "CORRUPT_DATA")
    BY <1>1, <1>2 DEF Judge, Ends
  <2> QED
    BY <2>1, FailureEnds
<1>3. CASE ~(file.defect = "zero" \/ Truncation # "whole")
  <2>1. held' = held /\ Answer("SUCCESS", "none")
    BY <1>3 DEF Judge
  <2>2. \E image \in Images : held = {image}
    BY <1>1 DEF Ends
  <2>3. file.defect \notin Limits
    BY <1>1, <2>2, LimitsHold DEF Judge, At, Images
  <2> QED
    BY <2>1, <2>2, <2>3 DEF Answer, IInv, Given, Place, Outcome, Finished
<1> QED
  BY <1>2, <1>3

\* A decode is always at a place of its backend's outline, and has given back
\* everything but the image when it ends.
THEOREM InductiveInvariant == Spec => []IInv
<1>1. Init => IInv
  BY DEF Init, IInv, Given, Place, Outcome, Finished
<1>2. IInv /\ [Next]_vars => IInv'
  <2> SUFFICES ASSUME IInv, [Next]_vars PROVE IInv'
    OBVIOUS
  <2>1. CASE UNCHANGED vars
    <3>1. UNCHANGED <<file, native, gray, todo, held, cleanup, message, status>>
      BY <2>1 DEF vars
    <3>2. /\ Backend' = Backend /\ Held' = Held /\ Known' = Known
          /\ \A step : Misses(step)' = Misses(step)
      BY <3>1, CallDecides
    <3>3. Place'
      BY <3>1, <3>2 DEF IInv, Place, AtStep, Passed
    <3> QED
      BY <3>1, <3>3 DEF IInv, Given, Outcome, Finished
  <2>2. CASE Next
    BY <2>1, <2>2, BeginningKeeps, FailingKeeps, GetFailsKeeps, AdvancingKeeps, JudgeKeeps DEF Next, Done
  <2> QED
    BY <2>1, <2>2
<1> QED
  BY <1>1, <1>2, PTL DEF Spec

\* Every allocation of a decode is freed exactly once on every path, longjmp()
\* included, and the one buffer left after PH_SUCCESS is the image (the backends of
\* src/loaders/ and ph_decode_buffer()).
THEOREM DecodeFreesOnce == Spec => []FreedOnce
<1>1. IInv => FreedOnce
  <2> SUFFICES ASSUME IInv PROVE FreedOnce
    OBVIOUS
  <2>1. Finished => IF status = "SUCCESS" THEN \E image \in Images : held = {image} ELSE held = {}
    BY DEF IInv, Outcome
  <2>2. ASSUME status = "decoding", Step.do # "return"
        PROVE  /\ Step.do = "call" /\ Step.jumps => cleanup \cup {"codec"} \subseteq held
               /\ Step.do = "free" => Step.what \subseteq held
               /\ Step.do \in {"test", "call"} => Step.frees \subseteq held
    BY <2>2, StepOfOutline DEF Follows
  <2> QED
    BY <2>1, <2>2 DEF FreedOnce, At
<1> QED
  BY <1>1, InductiveInvariant, PTL

\* No pixel buffer is allocated for an image that one of the limits refuses
\* (the contract of the backends in src/loaders/loader.h).
THEOREM LimitsAreFirst == Spec => []LimitsComeFirst
<1>1. IInv /\ (status \in {"called", "decoding"} \/ Finished) => LimitsComeFirst
  <2> SUFFICES ASSUME IInv, file.defect \in Limits PROVE held \subseteq {"codec", "info"}
    BY DEF LimitsComeFirst, Limits
  <2>1. CASE status = "called"
    BY <2>1 DEF IInv, Place
  <2>2. CASE status = "decoding"
    BY <2>2, LimitsHold DEF IInv, Place, AtStep
  <2>3. CASE Finished
    BY <2>3 DEF IInv, Outcome
  <2> QED
    BY <2>1, <2>2, <2>3 DEF Finished
<1>2. status \in {"called", "decoding"} \/ Finished
  BY DEF Finished
<1> QED
  BY <1>1, <1>2, InductiveInvariant, PTL
-----------------------------------------------------------------------------
\* What is known of the file.
LEMMA FileKnown ==
    ASSUME IInv
    PROVE  /\ file.format \in {"jpeg", "png", "webp", "other"} /\ file.defect \in Defects(file.format)
           /\ file.format = "jpeg" => IsJpegFile(file.container)
           /\ file.format = "png" => IsPngFile(file.container) /\ HasImageData(file.container.chunks)
           /\ file.format = "png" /\ file.defect # "long" => file.container.bytes <= MaxChunk
           /\ native \in BOOLEAN
BY DecodeAssumption DEF IInv, Given

\* A whole and sound file gives no backend trouble.
LEMMA WholeIsNoTrouble ==
    ASSUME IInv, file.defect # "long", Complete, file.format = "png" => PngSound(file.container)
    PROVE  ~Trouble
<1>1. CASE native /\ file.format = "png"
  <2>1. PngComplete(file.container)
    BY <1>1 DEF Complete
  <2>2. LibpngIsContent
    BY <1>1, <2>1, FileKnown, WholeIsContent DEF LibpngIsContent
  <2> QED
    BY <1>1, <2>2 DEF Trouble
<1>2. CASE ~(native /\ file.format = "png")
  BY <1>2 DEF Trouble
<1> QED
  BY <1>1, <1>2

\* The container check accepts the whole files; without the native decoder of PNG, the
\* sound ones.
LEMMA TruncationTells ==
    ASSUME IInv, file.defect # "long"
    PROVE  Truncation = "whole" <=> Complete /\ (file.format = "png" /\ ~native => PngSound(file.container))
<1>1. CASE file.format = "jpeg"
  <2>1. Truncation = "whole" <=> JpegReachesEoi(file.container)
    BY <1>1 DEF Truncation
  <2>2. Complete <=> JpegComplete(file.container)
    BY <1>1 DEF Complete
  <2> QED
    BY <1>1, <2>1, <2>2, FileKnown, JpegWalkIsRight
<1>2. CASE file.format = "png"
  <2>1. Truncation = PngCheck(file.container, ~native)
    BY <1>2 DEF Truncation
  <2>2. Complete <=> PngComplete(file.container)
    BY <1>2 DEF Complete
  <2>3. PngCheck(file.container, ~native) = "whole" <=>
           PngComplete(file.container) /\ (~native => PngSound(file.container))
    BY <1>2, FileKnown, PngCheckIsRight
  <2> QED
    BY <1>2, <2>1, <2>2, <2>3
<1>3. CASE file.format = "webp"
  BY <1>3 DEF Truncation, Complete
<1>4. CASE file.format = "other"
  BY <1>4 DEF Truncation, Complete
<1> QED
  BY <1>1, <1>2, <1>3, <1>4, FileKnown

\* The cases the promise is about, and an answer it allows.
Promised    == ~LateDamage /\ (file.format = "webp" => native)
Right(code) == Promised => code \in {Verdict, "ALLOCATION_FAILED"}

Judged == Finished => Right(status)

LEMMA AnswerIsJudged ==
    ASSUME NEW code, NEW text, Answer(code, text), Right(code)
    PROVE  Judged'
<1>1. file' = file /\ native' = native /\ status' = code
  BY DEF Answer
<1>2. Verdict' = Verdict /\ Promised' = Promised
  BY <1>1 DEF Verdict, Promised, LateDamage, LibpngIsContent, Complete
<1> QED
  BY <1>1, <1>2 DEF Judged, Right

\* A backend that decodes the pixels has looked for all that is said of the image early,
\* and one that returns an image for all that can be wrong with it.
LEMMA LookedFor ==
    ASSUME IInv, status = "decoding", NEW k \in 1..Len(Backend), AtStep(k), file.format = "webp" => native
    PROVE  /\ file.defect \in Sought \cup {"none", "zero"}
           /\ k = Look => file.defect \notin Early
           /\ k = Len(Backend) => file.defect \in {"none", "zero"} /\ (native => ~Trouble)
<1>1. Tells(Backend, Look)
  BY BackendTells
<1>2. Len(Backend) \in Nat /\ Look \in 1..Len(Backend) - 1
  BY <1>1, BackendSound DEF Tells, Sound, IsProgram
<1>3. file.defect # "long" /\ ~(file.defect = "wide" /\ file.format = "png")
  BY DEF IInv, Place
<1>4. file.defect \in Sought \cup {"none", "zero"}
  BY <1>3, FileKnown DEF Sought
<1>5. \A j \in 1..k - 1 : ~Looks(Backend[j], file.defect)
  BY DEF AtStep, Passed, Misses, Looks
<1>6. ASSUME k = Look PROVE file.defect \notin Early
  <2> SUFFICES ASSUME file.defect \in Early PROVE FALSE
    OBVIOUS
  <2>1. file.defect \in Sought
    BY <1>4 DEF Early
  <2>2. PICK j \in 1..Look : Looks(Backend[j], file.defect) /\ j # Look
    BY <1>1, <2>1 DEF Tells
  <2>3. j \in 1..k - 1
    BY <1>2, <1>6, <2>2
  <2> QED
    BY <1>5, <2>2, <2>3
<1>7. ASSUME k = Len(Backend) PROVE file.defect \in {"none", "zero"} /\ (native => ~Trouble)
  <2>1. \A j \in 1..Look : j \in 1..k - 1
    BY <1>2, <1>7
  <2>2. file.defect \notin Sought
    BY <1>1, <1>5, <2>1 DEF Tells
  <2>3. Look \in 1..k - 1 /\ Looks(Backend[Look], "pixels")
    BY <1>1, <1>2, <1>7 DEF Tells
  <2>4. native => ~Trouble
    BY <2>3 DEF AtStep, Passed, Misses, Looks
  <2> QED
    BY <1>4, <2>2, <2>4
<1> QED
  BY <1>4, <1>6, <1>7

\* So what fails, fails with the verdict: before the backend,
LEMMA RefuseIsRight == IInv /\ Refuse => Judged'
<1> SUFFICES ASSUME IInv, Refuse PROVE Judged'
  OBVIOUS
<1>1. CASE file.defect = "long" /\ Answer("IMAGE_TOO_LARGE", "IMAGE_TOO_LARGE")
  BY <1>1, AnswerIsJudged DEF Right, Verdict
<1>2. CASE file.defect = "wide" /\ Answer("IMAGE_TOO_LARGE", "IMAGE_TOO_LARGE")
  BY <1>2, AnswerIsJudged DEF Right, Verdict
<1>3. CASE file.format = "webp" /\ ~native /\ Answer("DECODER_UNAVAILABLE", "DECODER_UNAVAILABLE")
  BY <1>3, AnswerIsJudged DEF Right, Promised
<1> QED
  BY <1>1, <1>2, <1>3 DEF Refuse

\* at a test,
LEMMA TestFailsIsRight == IInv /\ TestFails => Judged'
<1> SUFFICES ASSUME IInv, TestFails PROVE Judged'
  OBVIOUS
<1>1. PICK k \in 1..Len(Backend) :
         AtStep(k) /\ Step = Backend[k] /\ Follows(Step, held, cleanup, Held[k + 1], Known[k + 1])
  BY StepOfOutline DEF TestFails, At
<1>2. Step.do = "test" /\ ~Step.jumps /\ Answer(Step.error, Step.error) /\ Finds(Step)
  BY <1>1 DEF TestFails, At, Fail, Follows
<1>3. file.defect # "long"
  BY DEF TestFails, At, IInv, Place
<1>4. ASSUME Promised PROVE Step.error = Verdict
  <2>1. /\ Step.finds \subseteq {"header", "tables", "wide", "area", "side", "abi"}
        /\ \A defect \in Step.finds : Step.error = AnswerTo(defect)
    BY <1>1, <1>2, <1>4, BackendTells DEF Tells, Promised
  <2>2. CASE file.defect \in Step.finds
    BY <2>1, <2>2 DEF Verdict, AnswerTo
  <2>3. CASE Trouble /\ "header" \in Step.finds /\ file.defect = "none"
    <3>1. Step.error = "CORRUPT_DATA"
      BY <2>1, <2>3 DEF AnswerTo
    <3>2. ~Complete \/ (file.format = "png" /\ ~PngSound(file.container))
      BY <1>3, <2>3, WholeIsNoTrouble
    <3> QED
      BY <2>3, <3>1, <3>2 DEF Verdict
  <2> QED
    BY <1>2, <2>1, <2>2, <2>3 DEF Finds
<1> QED
  BY <1>2, <1>4, AnswerIsJudged DEF Right

\* in a call of the library,
LEMMA CallFailsIsRight == IInv /\ CallFails => Judged'
<1> SUFFICES ASSUME IInv, CallFails PROVE Judged'
  OBVIOUS
<1> DEFINE code == CASE file.defect = "unknown"   -> "UNSUPPORTED_FORMAT"
                     [] file.defect = "too_large" -> "IMAGE_TOO_LARGE"
                     [] OTHER                     -> "CORRUPT_DATA"
     said == IF Step.jumps /\ file.format = "png" /\ file.defect = "side" THEN "IMAGE_TOO_LARGE" ELSE code
<1>1. PICK k \in 1..Len(Backend) : AtStep(k) /\ Step = Backend[k]
  BY StepOfOutline DEF CallFails, At
<1>2. Step.do = "call" /\ status = "decoding" /\ Finds(Step) /\ Fail(code)
  BY DEF CallFails, At
<1>3. code = IF file.defect = "unknown" THEN "UNSUPPORTED_FORMAT"
             ELSE IF file.defect = "too_large" THEN "IMAGE_TOO_LARGE" ELSE "CORRUPT_DATA"
  OBVIOUS
<1> HIDE DEF code
<1>4. \E text : Answer(said, text)
  BY <1>2, <1>3 DEF Fail, Jump, PngReport
<1>5. file.defect # "long"
  BY <1>2 DEF IInv, Place
<1>6. ASSUME Promised PROVE said = Verdict
  <2>1. file.format = "webp" => native
    BY <1>6 DEF Promised
  <2>2. /\ Step.finds \subseteq {"header", "tables", "pixels", "unknown", "too_large", "side"}
        /\ "side" \in Step.finds => Step.jumps /\ file.format = "png"
        /\ "pixels" \in Step.finds => k = Look
    BY <1>1, <1>2, <2>1, BackendTells DEF Tells
  <2>3. CASE file.defect \in Step.finds
    BY <1>3, <2>2, <2>3 DEF Verdict
  <2>4. CASE Trouble /\ "pixels" \in Step.finds
    <3>1. file.defect \in Sought \cup {"none", "zero"} /\ file.defect \notin Early
      BY <1>1, <1>2, <2>1, <2>2, <2>4, LookedFor
    <3>2. file.defect \in {"none", "zero", "header", "tables", "pixels", "unknown", "too_large"}
      BY <3>1 DEF Sought, Early, Defects
    <3>3. ~Complete \/ (file.format = "png" /\ ~PngSound(file.container))
      BY <1>5, <2>4, WholeIsNoTrouble
    <3> QED
      BY <1>3, <3>2, <3>3 DEF Verdict
  <2>5. CASE Trouble /\ "header" \in Step.finds /\ file.defect = "none"
    <3>1. ~Complete \/ (file.format = "png" /\ ~PngSound(file.container))
      BY <1>5, <2>5, WholeIsNoTrouble
    <3> QED
      BY <1>3, <2>5, <3>1 DEF Verdict
  <2> QED
    BY <1>2, <2>3, <2>4, <2>5 DEF Finds
<1> QED
  BY <1>4, <1>6, AnswerIsJudged DEF Right

\* for want of memory,
LEMMA MemoryIsRight == IInv /\ (CallRunsOut \/ GetFails) => Judged'
<1>1. ASSUME IInv, CallRunsOut PROVE Judged'
  <2>1. \E text : Answer("ALLOCATION_FAILED", text)
    BY <1>1 DEF CallRunsOut, Fail, Jump, PngReport
  <2> QED
    BY <2>1, AnswerIsJudged DEF Right
<1>2. ASSUME IInv, GetFails PROVE Judged'
  BY <1>2, AnswerIsJudged DEF GetFails, Right
<1> QED
  BY <1>1, <1>2

\* and what is decoded is judged by its container.
LEMMA JudgeIsRight == IInv /\ Judge => Judged'
<1> SUFFICES ASSUME IInv, Judge PROVE Judged'
  OBVIOUS
<1>1. status = "decoding" /\ file.defect # "long"
  BY DEF Judge, At, IInv, Place
<1>2. PICK k \in 1..Len(Backend) : AtStep(k) /\ k = Len(Backend)
  BY StepOfOutline DEF Judge, At
<1>3. ASSUME Promised
      PROVE  /\ file.defect \in {"none", "zero"}
             /\ file.defect = "zero" \/ Truncation # "whole" => Verdict = "CORRUPT_DATA"
             /\ ~(file.defect = "zero" \/ Truncation # "whole") => Verdict = "SUCCESS"
  <2>1. file.defect \in {"none", "zero"} /\ (native => ~Trouble)
    BY <1>1, <1>2, <1>3, LookedFor DEF Promised
  <2>2. Verdict = IF file.defect = "zero" \/ ~Complete \/ (file.format = "png" /\ ~PngSound(file.container))
                  THEN "CORRUPT_DATA" ELSE "SUCCESS"
    BY <2>1 DEF Verdict
  <2>3. Truncation = "whole" <=> Complete /\ (file.format = "png" /\ ~native => PngSound(file.container))
    BY <1>1, TruncationTells
  <2>4. native /\ file.format = "png" => PngSound(file.container)
    BY <1>3, <2>1 DEF Promised, LateDamage, Trouble
  <2> QED
    BY <2>1, <2>2, <2>3, <2>4, FileKnown
<1>4. CASE file.defect = "zero" \/ Truncation # "whole"
  <2>1. Answer("CORRUPT_DATA", "CORRUPT_DATA")
    BY <1>4 DEF Judge
  <2> QED
    BY <1>3, <1>4, <2>1, AnswerIsJudged DEF Right
<1>5. CASE ~(file.defect = "zero" \/ Truncation # "whole")
  <2>1. Answer("SUCCESS", "none")
    BY <1>5 DEF Judge
  <2> QED
    BY <1>3, <1>5, <2>1, AnswerIsJudged DEF Right
<1> QED
  BY <1>4, <1>5

\* The same file gets the same answer in every build that has a decoder for its format,
\* whole, truncated or damaged, and the diagnostic is of the answer's kind
\* (ph_decode_buffer() and the backends).
THEOREM VerdictIsOne == Spec => []OneVerdict
<1>1. Init => Judged
  BY DEF Init, Judged, Finished
<1>2. IInv /\ Judged /\ [Next]_vars => Judged'
  <2> SUFFICES ASSUME IInv, Judged, [Next]_vars PROVE Judged'
    OBVIOUS
  <2>1. CASE UNCHANGED vars \/ Done
    <3>1. file' = file /\ native' = native /\ status' = status
      BY <2>1 DEF vars, Done
    <3>2. Verdict' = Verdict /\ Promised' = Promised
      BY <3>1 DEF Verdict, Promised, LateDamage, LibpngIsContent, Complete
    <3> QED
      BY <3>1, <3>2 DEF Judged, Right, Finished
  <2>2. CASE Dispatch \/ CallSucceeds \/ TestPasses \/ GetAll \/ GiveBack \/ SetCleanup
    <3>1. status' = "decoding"
      BY <2>2 DEF Dispatch, CallSucceeds, TestPasses, GetAll, GiveBack, SetCleanup, Advance, At
    <3> QED
      BY <3>1 DEF Judged, Finished
  <2>3. CASE Refuse \/ CallFails \/ CallRunsOut \/ TestFails \/ GetFails \/ Judge
    BY <2>3, RefuseIsRight, CallFailsIsRight, TestFailsIsRight, MemoryIsRight, JudgeIsRight
  <2> QED
    BY <2>1, <2>2, <2>3 DEF Next
<1>3. IInv /\ Judged => OneVerdict
  BY DEF IInv, Outcome, Judged, Right, Promised, OneVerdict
<1> QED
  BY <1>1, <1>2, <1>3, InductiveInvariant, PTL DEF Spec
=============================================================================
