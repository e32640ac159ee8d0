----------------------------- MODULE Containers -----------------------------
(***************************************************************************)
(* The container walkers of src/loader.c.  After a successful decode they   *)
(* ask whether the file reaches its own end, so that a truncated file is    *)
(* refused in every build, also by stb_image, which decodes what it can.    *)
(*                                                                         *)
(* A JPEG is its bytes, of which only the values the walker tells apart are *)
(* used.  A PNG is its chunks, as the length fields delimit them, and the   *)
(* number of its bytes that are there.  A WebP is the size its RIFF header  *)
(* states, and its length.  Positions count from 0, as in the code.         *)
(***************************************************************************)
EXTENDS Integers, Sequences

CONSTANT MaxChunk       \* the longest length a PNG chunk may state: 2^31 - 1 in the code

ASSUME MaxChunkAssumption == MaxChunk \in Nat

FF  == 255
SOI == 216
EOI == 217
SOS == 218

IsRestart(m)  == m \in 208..215
Standalone(m) == m \in {0, 1} \/ IsRestart(m)

\* A JPEG: its bytes.
IsJpegFile(p) == p \in Seq(0..255)

-----------------------------------------------------------------------------
\* ph_jpeg_reaches_eoi(), as the position it continues at: `Segment[pos]` between
\* segments, `Entropy[pos]` in the data after SOS.  NoEnd and End are its verdicts.
Byte(p, pos) == p[pos + 1]

\* The first position from `pos` on whose byte is (or is not) FF; n if there is none.
Skip(p, pos, isFF) ==
    CHOOSE k \in pos..Len(p) :
        /\ k = Len(p) \/ (Byte(p, k) = FF) # isFF
        /\ \A i \in pos..k-1 : (Byte(p, i) = FF) = isFF

Be16(p, pos) == Byte(p, pos) * 256 + Byte(p, pos + 1)

\* Where the entropy-coded data that starts at `pos` gives way to a marker.
EntropyEnd(p, pos) ==
    LET n == Len(p)
        f[k \in 0..n] ==
            IF k = n THEN n
            ELSE IF Byte(p, k) # FF THEN f[k + 1]
            ELSE IF k + 1 >= n THEN n
            ELSE IF Byte(p, k + 1) = 0 \/ IsRestart(Byte(p, k + 1)) THEN f[k + 2]
            ELSE k
    IN  f[pos]

\* Fault: any end marker counts, also that of a thumbnail in a segment.
FindsEoi(p) ==
    \E k \in 0..Len(p) - 2 : Byte(p, k) = FF /\ Byte(p, k + 1) = EOI

JpegReachesEoi(p) ==
    LET n == Len(p)
        Walk[pos \in 0..n] ==
            LET k == Skip(p, Skip(p, pos, FALSE), TRUE) IN
            IF k >= n THEN FALSE
            ELSE LET m == Byte(p, k) IN
                 IF m = EOI THEN TRUE
                 ELSE IF Standalone(m) THEN Walk[k + 1]
                 ELSE IF n - (k + 1) < 2 THEN FALSE
                 ELSE LET length == Be16(p, k + 1) IN
                      IF length < 2 \/ length > n - (k + 1) THEN FALSE
                      ELSE LET next == k + 1 + length IN
                           IF m # SOS THEN Walk[next] ELSE Walk[EntropyEnd(p, next)]
    IN  n >= 2 /\ Byte(p, 0) = FF /\ Byte(p, 1) = SOI /\ Walk[2]

\* What it means: from `i`, the rest is stray bytes, markers without a length,
\* whole segments, and scans whose data holds no other marker, up to an EOI.
JpegComplete(p) ==
    LET n == Len(p)
        B(i) == Byte(p, i)
        Marker(i, k)  == k \in i+1..n-1 /\ B(k) # FF /\ \A j \in i..k-1 : B(j) = FF
        Data(i, j)    == \A q \in i..j-1 : B(q) = FF => q + 1 < j /\ (B(q + 1) = 0 \/ IsRestart(B(q + 1)))
        Ends[i \in 0..n] ==
            /\ i < n
            /\ \/ B(i) # FF /\ Ends[i + 1]
               \/ \E k \in i+1..n-1 :
                    /\ Marker(i, k)
                    /\ \/ B(k) = EOI
                       \/ Standalone(B(k)) /\ Ends[k + 1]
                       \/ /\ B(k) # EOI /\ ~Standalone(B(k)) /\ k + 2 < n
                          /\ \E after \in k+3..n :
                               /\ after - (k + 1) = Be16(p, k + 1)
                               /\ IF B(k) = SOS THEN \E j \in after..n : Data(after, j) /\ Ends[j]
                                                ELSE Ends[after]
    IN  n >= 2 /\ B(0) = FF /\ B(1) = SOI /\ Ends[2]

-----------------------------------------------------------------------------
\* A PNG: chunks of [type, length, sound], `sound` telling whether the checksum
\* agrees; bytes: how many are there, the signature of 8 included.
IsPngFile(png) ==
    /\ png.chunks \in Seq([type : STRING, length : Nat, sound : BOOLEAN])
    /\ png.bytes \in Nat

Overhead == 12                  \* length, type and checksum fields

Critical(chunk) == chunk.type # "tEXt"

\* Where the chunks start: chunk k at Start(png)[k].
Start(png) ==
    LET f[k \in 1..Len(png.chunks) + 1] ==
            IF k = 1 THEN 8 ELSE f[k - 1] + Overhead + png.chunks[k - 1].length
    IN  f

\* ph_png_check_chunks(): "whole", "truncated", or "checksum" when `checking`
\* (PH_PNG_CHECK_CRC) and a critical chunk is damaged.  Fault: the room of the
\* overhead is not subtracted before the length is compared.
PngCheckLoose(png, checking) ==
    LET n == png.bytes
        Walk[k \in 1..Len(png.chunks) + 1] ==
            LET pos == Start(png)[k] IN
            IF k > Len(png.chunks) \/ n - pos < Overhead THEN "truncated"
            ELSE LET chunk == png.chunks[k] IN
                 IF chunk.length > MaxChunk \/ chunk.length > n - pos THEN "truncated"
                 ELSE IF checking /\ Critical(chunk) /\ ~chunk.sound THEN "checksum"
                 ELSE IF chunk.type = "IEND" THEN "whole"
                 ELSE Walk[k + 1]
    IN  Walk[1]

PngCheck(png, checking) ==
    LET n == png.bytes
        Walk[k \in 1..Len(png.chunks) + 1] ==
            LET pos == Start(png)[k] IN
            IF k > Len(png.chunks) \/ n - pos < Overhead THEN "truncated"
            ELSE LET chunk == png.chunks[k] IN
                 IF chunk.length > MaxChunk \/ chunk.length > n - pos - Overhead THEN "truncated"
                 ELSE IF checking /\ Critical(chunk) /\ ~chunk.sound THEN "checksum"
                 ELSE IF chunk.type = "IEND" THEN "whole"
                 ELSE Walk[k + 1]
    IN  Walk[1]

\* What it means: all bytes up to the end of the first IEND are there.
PngEnd(png) == {k \in DOMAIN png.chunks : /\ png.chunks[k].type = "IEND"
                                          /\ \A j \in 1..k-1 : png.chunks[j].type # "IEND"}

PngComplete(png) == \E k \in PngEnd(png) : Start(png)[k + 1] <= png.bytes

PngSound(png) == \A k \in PngEnd(png), j \in DOMAIN png.chunks :
                    j <= k /\ Critical(png.chunks[j]) => png.chunks[j].sound

-----------------------------------------------------------------------------
\* ph_webp_riff_complete(): the stated size does not count the first 8 bytes.
RiffComplete(webp) == webp.bytes >= 12 /\ webp.stated <= webp.bytes - 8
=============================================================================
