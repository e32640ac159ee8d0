------------------------------ MODULE Digests ------------------------------
(***************************************************************************)
(* The comparisons of src/compare.c that need no loop over shifts, and the  *)
(* text form of a digest.  A digest is a struct that callers fill in by     *)
(* hand: its size may be beyond its array and its kind any number.  A       *)
(* distance is the sum of squares under the root, in the features' units; a *)
(* similarity is the pair of integers that is divided last.                 *)
(***************************************************************************)
EXTENDS Integers, Sequences, FiniteSetsExt, Calls

CONSTANTS
    DigestMax,  \* PH_DIGEST_MAX_BYTES, 128
    WordBytes   \* sizeof(uint64_t), 8

ASSUME DigestAssumption == DigestMax \in Nat \ {0} /\ WordBytes \in 1..DigestMax

\* [size, kind, data], with data a function on 0..DigestMax - 1; kinds that have no
\* name are "unnamed".
Kinds == {"unspecified", "bits", "coefficients", "vector", "histogram", "vector16"}

Valid(digest)      == digest.size <= DigestMax
Comparable(digest) == Valid(digest) /\ digest.size > 0

Allows(digest, kind) == digest.kind \in {"unspecified", kind}

\* ph_digests_comparable_as()
ComparableAs(a, b, kind) ==
    /\ Comparable(a) /\ Comparable(b) /\ a.size = b.size
    /\ Allows(a, kind) /\ Allows(b, kind)

NoAnswer     == [ok |-> FALSE, num |-> 0, den |-> 1]
Value(num, den) == [ok |-> TRUE, num |-> num, den |-> den]

TotalOf(f) == LET at(k) == f[k] IN MapThenSumSet(at, DOMAIN f)

\* 1 << (8 * k)
ByteWeight[k \in 0..WordBytes] == IF k = 0 THEN 1 ELSE 256 * ByteWeight[k - 1]

-----------------------------------------------------------------------------
Bits(byte) == {k \in 0..7 : (byte \div 2^k) % 2 = 1}

\* popcount(a ^ b), of a byte, and of `count` bytes from i on.
Xor(x, y) == (Bits(x) \ Bits(y)) \cup (Bits(y) \ Bits(x))

Differing(a, b, i, count) ==
    TotalOf([k \in i..i + count - 1 |-> Cardinality(Xor(a.data[k], b.data[k]))])

\* ph_hamming_distance_digest(): words, then the bytes that are left.
Hamming(a, b) ==
    LET Words[i \in 0..a.size] ==
            IF i + WordBytes <= a.size THEN Differing(a, b, i, WordBytes) + Words[i + WordBytes]
            ELSE Differing(a, b, i, a.size - i)
    IN  IF ComparableAs(a, b, "bits") THEN Value(Words[0], 1) ELSE NoAnswer

\* ph_similarity_digest()
Similarity(a, b) ==
    IF Hamming(a, b).ok THEN Value(a.size * 8 - Hamming(a, b).num, a.size * 8) ELSE NoAnswer

\* ph_read_i16_be()
Int16(digest, i) ==
    LET u == digest.data[i] * 256 + digest.data[i + 1] IN IF u >= 32768 THEN u - 65536 ELSE u

Square(n) == n * n

\* ph_l2_distance().  Fault: only the first digest is asked for its encoding.
FirstIsVector16(a, b) == a.kind = "vector16"
IsVector16(a, b)      == "vector16" \in {a.kind, b.kind}

Distance(a, b) ==
    LET words == [k \in 0..a.size \div 2 - 1 |-> Square(Int16(a, 2 * k) - Int16(b, 2 * k))]
        bytes == [k \in 0..a.size - 1 |-> Square(a.data[k] - b.data[k])]
    IN  IF IsVector16(a, b)
        THEN IF ComparableAs(a, b, "vector16") /\ a.size % 2 = 0
             THEN Value(TotalOf(words), 1) ELSE NoAnswer
        ELSE IF ComparableAs(a, b, "vector")
             THEN Value(TotalOf(bytes), 1) ELSE NoAnswer

\* ph_histogram_intersection()
Intersection(a, b) ==
    LET of(x) == TotalOf([k \in 0..a.size - 1 |-> x.data[k]])
        smaller == [k \in 0..a.size - 1 |-> Min({a.data[k] * of(b), b.data[k] * of(a)})]
    IN  IF ~ComparableAs(a, b, "histogram") THEN NoAnswer
        ELSE IF of(a) = 0 \/ of(b) = 0 THEN Value(IF of(a) = of(b) THEN 1 ELSE 0, 1)
        ELSE Value(TotalOf(smaller), of(a) * of(b))

Metric(name, a, b) ==
    CASE name = "hamming"      -> Hamming(a, b)
      [] name = "similarity"   -> Similarity(a, b)
      [] name = "l2"           -> Distance(a, b)
      [] name = "intersection" -> Intersection(a, b)

Compare(name, a, b) == Answer("compare", [name |-> name, a |-> a, b |-> b], Metric(name, a, b))

-----------------------------------------------------------------------------
\* A text is [name, digits]: what stands before the colon ("none" if there is no
\* colon) and the hexadecimal digits after it, -1 for what is no digit.
NoText == [name |-> "none", digits |-> <<>>]

NameLength(kind) ==
    CASE kind = "bits" -> 4 [] kind = "vector" -> 6 [] kind = "vector16" -> 8 [] kind = "histogram" -> 9
      [] kind = "unspecified" -> 11 [] kind = "coefficients" -> 12

\* ph_digest_to_hex(), into a buffer of `room` bytes.
TextOf(digest) ==
    [name   |-> digest.kind,
     digits |-> [k \in 1..2 * digest.size |->
                    LET byte == digest.data[(k - 1) \div 2] IN IF k % 2 = 1 THEN byte \div 16 ELSE byte % 16]]

Needed(digest) == NameLength(digest.kind) + 1 + 2 * digest.size + 1

ToHex(digest, room) ==
    IF ~Valid(digest) \/ digest.kind \notin Kinds THEN [ok |-> FALSE, text |-> NoText]
    ELSE IF room < Needed(digest) THEN [ok |-> FALSE, text |-> NoText]
    ELSE [ok |-> TRUE, text |-> TextOf(digest)]

\* ph_digest_from_hex(): what `out` is afterwards.  Fault: the bytes before a
\* malformed one are already written.
WellFormed(digits) == \A k \in DOMAIN digits : digits[k] \in 0..15

DecodedInto(out, text) ==
    [out EXCEPT !.data = [k \in DOMAIN out.data |->
        IF 2 * k + 2 <= Len(text.digits) /\ WellFormed(SubSeq(text.digits, 1, 2 * k + 2))
        THEN text.digits[2 * k + 1] * 16 + text.digits[2 * k + 2] ELSE out.data[k]]]
Untouched(out, text) == out

Decoded(text) ==
    [size |-> Len(text.digits) \div 2, kind |-> text.name,
     data |-> [k \in 0..DigestMax - 1 |->
                IF 2 * k + 2 <= Len(text.digits)
                THEN text.digits[2 * k + 1] * 16 + text.digits[2 * k + 2] ELSE 0]]

FromHex(text, out) ==
    IF text.name \notin Kinds \/ Len(text.digits) % 2 # 0 \/ Len(text.digits) \div 2 > DigestMax
    THEN [ok |-> FALSE, out |-> out]
    ELSE IF ~WellFormed(text.digits) THEN [ok |-> FALSE, out |-> Untouched(out, text)]
    ELSE [ok |-> TRUE, out |-> Decoded(text)]

\* ph_hash_to_hex(), ph_hash_from_hex(): a hash of WordBytes bytes, most significant
\* first; -1 stands for the argument left as it was.
HashToHex(hash) ==
    LET byte(i) == (hash \div ByteWeight[WordBytes - 1 - i]) % 256
    IN  [k \in 1..2 * WordBytes |->
            IF k % 2 = 1 THEN byte((k - 1) \div 2) \div 16 ELSE byte((k - 1) \div 2) % 16]

HashFromHex(digits) ==
    LET value[k \in 0..2 * WordBytes] == IF k = 0 THEN 0 ELSE value[k - 1] * 16 + digits[k]
    IN  IF Len(digits) # 2 * WordBytes \/ ~WellFormed(digits) THEN -1 ELSE value[2 * WordBytes]

\* ph_uint64_digest() of a computed hash: how many bytes each byte of the digest is
\* shifted by.  Fault: least significant first.
ShiftFromLow(k) == k
ShiftOf(k)      == WordBytes - 1 - k

HashDigest(hash) ==
    [size |-> WordBytes, kind |-> "bits",
     data |-> [k \in 0..DigestMax - 1 |-> IF k < WordBytes THEN (hash \div ByteWeight[ShiftOf(k)]) % 256 ELSE 0]]

Write(digest, room)  == Answer("to_hex", [digest |-> digest, room |-> room], ToHex(digest, room))
Read(text, out)      == Answer("from_hex", [text |-> text, out |-> out], FromHex(text, out))
WriteHash(hash)      == Answer("hash_to_hex", hash, HashToHex(hash))
ReadHash(digits)     == Answer("hash_from_hex", digits, HashFromHex(digits))
DigestHash(hash)     == Answer("hash_digest", hash, HashDigest(hash))

-----------------------------------------------------------------------------
\* What the digests say of themselves permits a metric for `kind`.
Permitted(a, b, kind) ==
    /\ a.size = b.size /\ a.size \in 1..DigestMax
    /\ {a.kind, b.kind} \subseteq {"unspecified", kind}

\* The bits that differ, over all the bits of the two digests.
DifferingBits(a, b) ==
    {place \in (0..a.size - 1) \X (0..7) :
        (place[2] \in Bits(a.data[place[1]])) # (place[2] \in Bits(b.data[place[1]]))}

\* Every comparison is symmetric, refusals included; it answers exactly if both digests
\* are whole, of one size, and neither says that it is for another metric (of 16-bit
\* features, whole ones); the distance counts every bit once whatever the size is to the
\* words; and a histogram intersects itself in exactly 1 and nothing in more.
ComparisonsAgree ==
    call.what = "compare" =>
        LET a == call.given.a
            b == call.given.b
            name == call.given.name
            answer == call.answer
        IN  /\ Metric(name, b, a) = answer
            /\ name \in {"hamming", "similarity"} =>
                  /\ answer.ok <=> Permitted(a, b, "bits")
                  /\ answer.ok => LET different == Cardinality(DifferingBits(a, b)) IN
                        IF name = "hamming" THEN answer = Value(different, 1)
                        ELSE answer = Value(8 * a.size - different, 8 * a.size)
            /\ name = "l2" =>
                  /\ answer.ok <=> \/ Permitted(a, b, "vector")
                                   \/ Permitted(a, b, "vector16") /\ a.size % 2 = 0
                  /\ answer.ok => (answer.num = 0 <=> \A k \in 0..a.size - 1 : a.data[k] = b.data[k])
            /\ name = "intersection" =>
                  /\ answer.ok <=> Permitted(a, b, "histogram")
                  /\ answer.num <= answer.den
                  /\ answer.ok /\ a = b => answer.num = answer.den

\* A digest survives being written and read: only what lies beyond its size is lost,
\* and a buffer of the needed size suffices.  What is read is what is written back, and
\* a text that is refused leaves the digest it was to be read into as it was.  A hash
\* has the same digits whether it is written as a number or as a digest.
TextRoundTrips ==
    /\ call.what = "to_hex" =>
          LET digest == call.given.digest
              again  == FromHex(call.answer.text, digest)
          IN  call.answer.ok =>
                /\ again.ok /\ again.out.size = digest.size /\ again.out.kind = digest.kind
                /\ \A k \in DOMAIN digest.data :
                        again.out.data[k] = (IF k < digest.size THEN digest.data[k] ELSE 0)
                /\ NameLength(digest.kind) + 1 + Len(call.answer.text.digits) < call.given.room
    /\ call.what = "from_hex" =>
          IF call.answer.ok
          THEN ToHex(call.answer.out, Needed(call.answer.out)) = [ok |-> TRUE, text |-> call.given.text]
          ELSE call.answer.out = call.given.out
    /\ call.what = "hash_to_hex" => HashFromHex(call.answer) = call.given
    /\ call.what = "hash_from_hex" /\ call.answer # -1 => HashToHex(call.answer) = call.given
    /\ call.what = "hash_digest" =>
          TextOf(call.answer) = [name |-> "bits", digits |-> HashToHex(call.given)]
=============================================================================
