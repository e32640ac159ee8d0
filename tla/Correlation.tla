---------------------------- MODULE Correlation ----------------------------
(***************************************************************************)
(* ph_radial_similarity() of src/compare.c: the peak, over the cyclic       *)
(* shifts of one digest, of its correlation with another.  All of it is     *)
(* integers but the last division, whose two parts are the answer here.     *)
(* The sums are kept in types of different widths: a product in 16 bits,    *)
(* the sum of products in 32, the rest in 64, of which 32 are claimed to    *)
(* do.  Each is modelled modulo the width of its type.                      *)
(***************************************************************************)
EXTENDS Integers, FiniteSetsExt

CONSTANTS
    ByteMax,        \* 255
    MaxBytes,       \* PH_DIGEST_MAX_BYTES, 128
    ProductModulus, \* 2^16
    DotModulus,     \* 2^32
    LongModulus     \* 2^31, which the comment claims for what is of type int64_t

ASSUME CorrelationAssumption ==
    /\ ByteMax \in Nat \ {0} /\ MaxBytes \in Nat \ {0}
    /\ ProductModulus \in Nat /\ DotModulus \in Nat /\ LongModulus \in Nat
    /\ ByteMax * ByteMax < ProductModulus
    /\ MaxBytes * (ByteMax * ByteMax) < DotModulus
    /\ (MaxBytes * MaxBytes) * (ByteMax * ByteMax) < LongModulus

VARIABLES
    first, second,  \* the digests, functions on 0..n - 1
    n,              \* their size
    stage,          \* "idle", "sums", "shift", "dot", "returned"
    i, d,           \* the loops' counters
    sums,           \* sum_a, sum_b, sum_aa, sum_bb
    dot,            \* the sum of products at shift d
    peak,           \* [found, num]: peak_num, which starts at INT64_MIN
    result          \* the status, the numerator and the two variances

correlationVars == <<first, second, n, stage, i, d, sums, dot, peak, result>>

NoSums   == [a |-> 0, b |-> 0, aa |-> 0, bb |-> 0]
NoPeak   == [found |-> FALSE, num |-> 0]
NoResult == [status |-> "none", num |-> 0, varA |-> 0, varB |-> 0]

CorrelationIdle ==
    /\ first = <<>> /\ second = <<>> /\ n = 0
    /\ stage = "idle" /\ i = 0 /\ d = 0
    /\ sums = NoSums /\ dot = 0 /\ peak = NoPeak /\ result = NoResult

\* The digests are comparable: of one size, which is at least 1.
CorrelationCall(size, a, b) ==
    /\ stage = "idle"
    /\ n' = size /\ first' = a /\ second' = b
    /\ stage' = "sums"
    /\ UNCHANGED <<i, d, sums, dot, peak, result>>

AddUp ==
    /\ stage = "sums" /\ i < n
    /\ sums' = [a  |-> sums.a + first[i],
                b  |-> sums.b + second[i],
                aa |-> sums.aa + first[i] * first[i],
                bb |-> sums.bb + second[i] * second[i]]
    /\ i' = i + 1
    /\ UNCHANGED <<first, second, n, stage, d, dot, peak, result>>

varA == n * sums.aa - sums.a * sums.a
varB == n * sums.bb - sums.b * sums.b

CorrelationAnswer(r) ==
    /\ result' = r
    /\ stage' = "returned"
    /\ UNCHANGED <<first, second, n, i, d, sums, dot, peak>>

\* A digest of equal bytes has no correlation with anything.
NoStructure ==
    /\ stage = "sums" /\ i >= n
    /\ varA <= 0 \/ varB <= 0
    /\ CorrelationAnswer([NoResult EXCEPT !.status = "NO_STRUCTURE"])

Structured ==
    /\ stage = "sums" /\ i >= n
    /\ varA > 0 /\ varB > 0
    /\ stage' = "shift"
    /\ UNCHANGED <<first, second, n, i, d, sums, dot, peak, result>>

\* b2, the second digest twice over, from b2 + n - d on.
Shifted(k) == LET at == k + n - d IN second[IF at >= n THEN at - n ELSE at]

StartShift ==
    /\ stage = "shift" /\ d < n
    /\ dot' = 0 /\ i' = 0
    /\ stage' = "dot"
    /\ UNCHANGED <<first, second, n, d, sums, peak, result>>

\* Fault: the sum of the products has a product's width, too.
Narrow(sum)  == sum % ProductModulus
Widened(sum) == sum % DotModulus

Multiply ==
    /\ stage = "dot" /\ i < n
    /\ dot' = Widened(dot + ((first[i] * Shifted(i)) % ProductModulus))
    /\ i' = i + 1
    /\ UNCHANGED <<first, second, n, stage, d, sums, peak, result>>

num == n * dot - sums.a * sums.b

\* Fault: the numerators are compared by their size.
StrongerThanPeak == peak.found => num * num > peak.num * peak.num
AbovePeak        == peak.found => num > peak.num

EndShift ==
    /\ stage = "dot" /\ i >= n
    /\ peak' = IF AbovePeak THEN [found |-> TRUE, num |-> num] ELSE peak
    /\ d' = d + 1
    /\ stage' = "shift"
    /\ UNCHANGED <<first, second, n, i, sums, dot, result>>

Score ==
    /\ stage = "shift" /\ d >= n
    /\ CorrelationAnswer([status |-> "SUCCESS", num |-> peak.num, varA |-> varA, varB |-> varB])

CorrelationReturn ==
    /\ stage = "returned"
    /\ first' = <<>> /\ second' = <<>> /\ n' = 0
    /\ stage' = "idle" /\ i' = 0 /\ d' = 0
    /\ sums' = NoSums /\ dot' = 0 /\ peak' = NoPeak /\ result' = NoResult

CorrelationNext ==
    \/ \E size \in 1..MaxBytes : \E a, b \in [0..size - 1 -> 0..ByteMax] : CorrelationCall(size, a, b)
    \/ AddUp \/ NoStructure \/ Structured \/ StartShift \/ Multiply \/ EndShift \/ Score
    \/ CorrelationReturn

CorrelationSpec == CorrelationIdle /\ [][CorrelationNext]_correlationVars

-----------------------------------------------------------------------------
\* The definition, over the deviations from the mean, n times each.
Total(digest) == LET at(k) == digest[k] IN MapThenSumSet(at, 0..n - 1)
Deviation(digest, k) == n * digest[k] - Total(digest)

Variance(digest) == LET square(k) == Deviation(digest, k) * Deviation(digest, k)
                    IN  MapThenSumSet(square, 0..n - 1)

Covariance(shift) ==
    LET term(k) == Deviation(first, k) * Deviation(second, (k - shift) % n)
    IN  MapThenSumSet(term, 0..n - 1)

\* The score is the largest correlation over all cyclic shifts, by the definition over
\* deviations, and in [-1, 1] before the final rounding; two digests have no score
\* exactly if one of them is constant.
PeakIsExact ==
    /\ result.status = "SUCCESS" =>
          LET covariances == {Covariance(shift) : shift \in 0..n - 1} IN
          /\ n * result.num \in covariances
          /\ \A c \in covariances : c <= n * result.num
          /\ n * result.varA = Variance(first) /\ n * result.varB = Variance(second)
          /\ result.num * result.num <= result.varA * result.varB
    /\ result.status # "none" =>
          (result.status = "NO_STRUCTURE" <=> 0 \in {Variance(first), Variance(second)})

\* The widths do: no product, sum of products, variance or numerator leaves its type.
NothingWraps ==
    /\ stage = "dot" /\ i < n =>
          /\ first[i] * Shifted(i) < ProductModulus
          /\ dot + first[i] * Shifted(i) < DotModulus
    /\ n * dot < LongModulus /\ sums.a * sums.b < LongModulus
    /\ n * sums.aa < LongModulus /\ n * sums.bb < LongModulus
    /\ sums.a * sums.a < LongModulus /\ sums.b * sums.b < LongModulus
=============================================================================
