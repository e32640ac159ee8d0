----------------------------- MODULE GridHashes -----------------------------
(***************************************************************************)
(* The hashes that turn a grid of samples into bits: aHash, dHash, BMH,     *)
(* wHash, the median threshold of pHash and the windows of mHash            *)
(* (src/hashes/).  A hash is the set of the cells whose bit is 1, or of the *)
(* places of the bits in the digest.  Samples are integers: the wavelet's   *)
(* factors 1/sqrt(2), two to a level, are one division by 2, before which   *)
(* all samples are multiplied by a power of 4 that leaves every quotient    *)
(* whole.  What the floats of wHash and mHash round is an error that each   *)
(* call chooses anew, of at most `within`: it decides the bit of a value    *)
(* that is as close as that to what it is compared with.                    *)
(***************************************************************************)
EXTENDS Integers, FiniteSetsExt, Calls

CONSTANTS
    HashSize,       \* PH_CORE_HASH_SIZE, 8
    MarginUnits,    \* what a whole range is in margins, 1000
    Window,         \* PH_MH_WINDOW, 3
    WindowStride,   \* PH_MH_WINDOW_STRIDE, 4
    WindowsPerAxis  \* PH_MH_WINDOWS_PER_AXIS, 8

ASSUME GridHashesAssumption ==
    /\ {MarginUnits, Window, WindowStride, WindowsPerAxis} \subseteq Nat \ {0}
    /\ HashSize \in {1, 2, 4, 8}      \* a hash has at most 64 bits
    /\ Window <= WindowStride

SumOf(samples, cells) == LET at(c) == samples[c] IN MapThenSumSet(at, cells)

-----------------------------------------------------------------------------
\* ph_compute_ahash(), from the cells of the grid on.  Fault: the mean is rounded down
\* before it is compared.
AtLeastRounded(v, n, total) == v >= total \div n
AtLeastMean(v, n, total)    == v * n >= total

AHash(samples) ==
    LET n == Cardinality(DOMAIN samples) IN
    {c \in DOMAIN samples : AtLeastMean(samples[c], n, SumOf(samples, DOMAIN samples))}

\* ph_compute_dhash(): each row has one cell more than bits.  Fault: it has not.
RowWidthOfBits == HashSize
RowWidth       == HashSize + 1

DHash(samples) ==
    LET at(c) == (c \div HashSize) * RowWidth + (c % HashSize)
    IN  {c \in 0..HashSize * HashSize - 1 : samples[at(c)] < samples[at(c) + 1]}

\* ph_compute_bmh(): the median from the histogram of the cells.  Fault: the value of
\* the rank before it.
SeenOneFewer(seen, rank) == seen >= rank
SeenEnough(seen, rank)   == seen > rank

Median(samples) ==
    LET seen(v) == Cardinality({c \in DOMAIN samples : samples[c] <= v})
    IN  Min({v \in 0..255 : SeenEnough(seen(v), Cardinality(DOMAIN samples) \div 2)})

Bmh(samples) == {c \in DOMAIN samples : samples[c] >= Median(samples)}

\* ph_median_bitpack_margin(): the insertion sort, which moves the value at i behind the
\* last before it that is not greater.
Inserted(sorted, i) ==
    LET j == Max({-1} \cup {k \in 0..i - 1 : sorted[k] <= sorted[i]})
    IN  [k \in DOMAIN sorted |->
            IF k <= j \/ k > i THEN sorted[k] ELSE IF k = j + 1 THEN sorted[i] ELSE sorted[k - 1]]

Sorted(unsorted, m) ==
    LET upTo[i \in 0..m - 1] == IF i = 0 THEN unsorted ELSE Inserted(upTo[i - 1], i)
    IN  upTo[m - 1]

\* Of values 0 to n - 1, those at `from` and behind make the median.  Fault: the lower of
\* two central values is the median.
TwiceLower(sorted, m)  == 2 * sorted[(m - 1) \div 2]
TwiceMedian(sorted, m) ==
    IF m % 2 = 0 THEN sorted[m \div 2 - 1] + sorted[m \div 2] ELSE 2 * sorted[m \div 2]

MedianBits(values, n, from, margin) ==
    LET m      == n - from
        sorted == Sorted([i \in 0..m - 1 |-> values[from + i]], m)
        twice  == TwiceMedian(sorted, m)
        range  == sorted[m - 1] - sorted[0]
    IN  IF n <= 0 \/ n > 64 \/ from < 0 \/ from >= n THEN {}
        ELSE {i \in 0..n - 1 : MarginUnits * (2 * values[i] - twice) > 2 * margin * range}

\* ph_compute_mhash(), from the sums of the blocks on, which are in rows of `side`: `off`
\* is what the rounding of its sum and quotient adds to a window's mean, times the blocks
\* of the window.  Fault: bytes are filled from the low bit.
Windows == (0..WindowsPerAxis - 1) \X (0..WindowsPerAxis - 1)

FromLow(bit)  == <<bit \div 8, bit % 8>>
FromHigh(bit) == <<bit \div 8, 7 - (bit % 8)>>

Mhash(sums, side, off) ==
    LET size == Window * Window
        value(w, i) == sums[(w[2] * WindowStride + (i \div Window)) * side + (w[1] * WindowStride + (i % Window))]
        total(w) == LET of(i) == value(w, i) IN MapThenSumSet(of, 0..size - 1)
        above == {b \in Windows \X (0..size - 1) : value(b[1], b[2]) * size > total(b[1]) + off[b[1]]}
    IN  {FromHigh((b[1][2] * WindowsPerAxis + b[1][1]) * size + b[2]) : b \in above}

-----------------------------------------------------------------------------
\* ph_haar_1d_float() and ph_haar_1d_inverse_float(), without the factors.
Haar(line) ==
    LET h == Cardinality(DOMAIN line) \div 2 IN
    [i \in DOMAIN line |-> IF i < h THEN line[2 * i] + line[2 * i + 1]
                        ELSE line[2 * (i - h)] - line[2 * (i - h) + 1]]

Unhaar(line) ==
    LET h == Cardinality(DOMAIN line) \div 2 IN
    [i \in DOMAIN line |-> IF i % 2 = 0 THEN line[i \div 2] + line[i \div 2 + h]
                        ELSE line[i \div 2] - line[i \div 2 + h]]

Pass(back, line) == IF back THEN Unhaar(line) ELSE Haar(line)

\* A pass over each row, and over each column, of the size x size corner of an image,
\* whose samples are at <<row, column>>.
Rows(d, size, back) ==
    LET row == [i \in 0..size - 1 |-> Pass(back, [j \in 0..size - 1 |-> d[<<i, j>>]])]
    IN  [p \in DOMAIN d |-> IF p[1] < size /\ p[2] < size THEN row[p[1]][p[2]] ELSE d[p]]

Columns(d, size, back) ==
    LET column == [j \in 0..size - 1 |-> Pass(back, [i \in 0..size - 1 |-> d[<<i, j>>]])]
    IN  [p \in DOMAIN d |-> IF p[1] < size /\ p[2] < size THEN column[p[2]][p[1]] ELSE d[p]]

Halved(d, size) == [p \in DOMAIN d |-> IF p[1] < size /\ p[2] < size THEN d[p] \div 2 ELSE d[p]]

\* ph_haar_2d_level() and ph_haar_2d_level_inverse().
Level2D(d, size)        == Halved(Columns(Rows(d, size, FALSE), size, FALSE), size)
Level2DInverse(d, size) == Halved(Rows(Columns(d, size, TRUE), size, TRUE), size)

\* ph_haar_2d_level_ll(), in place: output row i replaces a row that only rows up to i
\* read.  Fault: the rows are made from the last to the first.
LowRow(d, i, h) ==
    [p \in DOMAIN d |->
        IF p[1] = i /\ p[2] < h
        THEN (((d[<<2 * i, 2 * p[2]>>] + d[<<2 * i, 2 * p[2] + 1>>])
                  + d[<<2 * i + 1, 2 * p[2]>>]) + d[<<2 * i + 1, 2 * p[2] + 1>>]) \div 2
        ELSE d[p]]

Backwards(h) == [k \in 1..h |-> h - k]
RowOrder(h)  == [k \in 1..h |-> k - 1]

LevelLL(d, size) ==
    LET h == size \div 2
        rows[k \in 0..h] == IF k = 0 THEN d ELSE LowRow(rows[k - 1], RowOrder(h)[k], h)
    IN  rows[h]

\* ph_whash_remove_max_haar_ll(): the image when current_size is s, on the way down and
\* on the way up.
RemoveMaxLL(d, size) ==
    LET down[s \in 1..size] == IF 2 * s > size THEN d ELSE Level2D(down[2 * s], 2 * s)
        up[s \in 1..size] ==
            IF s = 1 THEN [down[1] EXCEPT ![<<0, 0>>] = 0] ELSE Level2DInverse(up[s \div 2], s)
    IN  up[size]

\* ph_compute_whash_full(): the image when current_size has come down to the hash's.
LowBand(d, size) ==
    LET down[s \in 1..size] == IF 2 * s > size THEN d ELSE LevelLL(down[2 * s], 2 * s)
    IN  down[HashSize]

\* ph_compute_whash_full(): the side the image is brought to.
NatScale(min_dim)   ==
    LET doubled[s \in 1..min_dim] == IF 2 * s > min_dim THEN s ELSE doubled[2 * s]
    IN  doubled[1]
ImageScale(min_dim) == IF NatScale(min_dim) > HashSize THEN NatScale(min_dim) ELSE HashSize

\* ph_compute_whash_fast() makes one whole level of twice the hash's side.
WhashSize(mode, min_dim) == IF mode = "full" THEN ImageScale(min_dim) ELSE 2 * HashSize

Band(mode, d, size) ==
    LET level == IF mode = "full" THEN LowBand(d, size) ELSE Level2D(d, size)
    IN  [i \in 0..HashSize * HashSize - 1 |-> level[<<i \div HashSize, i % HashSize>>]]

\* What the floats add to the band, the rounding of the median included.  A coefficient is
\* made from its square alone, unless the image has gone through all levels and back: the
\* same square gives the same float.  An even image stays even on that way, too.
SquareAt(samples, k, c) ==
    [q \in (0..k - 1) \X (0..k - 1) |->
        samples[<<(c \div HashSize) * k + q[1], (c % HashSize) * k + q[2]>>]]

Even(samples) == \A p, q \in DOMAIN samples : samples[p] = samples[q]

Roundings(remove, samples, k, within) ==
    {error \in [0..HashSize * HashSize - 1 -> -within..within] :
        ~remove \/ Even(samples) =>
            \A c, d \in DOMAIN error :
                SquareAt(samples, k, c) = SquareAt(samples, k, d) => error[c] = error[d]}

\* ph_compute_whash() of an image brought to that size: the hashes that rounding can make.
Whash(mode, remove, samples, size, within) ==
    LET exact == [p \in DOMAIN samples |-> samples[p] * size * size]
        d     == IF remove THEN RemoveMaxLL(exact, size) ELSE exact
    IN  {MedianBits([c \in DOMAIN band |-> band[c] + error[c]], HashSize * HashSize, 0, 0) :
            band \in {Band(mode, d, size)}, error \in Roundings(remove, samples, size \div HashSize, within)}

-----------------------------------------------------------------------------
ComputeAHash(samples) == Answer("ahash", samples, AHash(samples))
ComputeDHash(grid)    ==
    Answer("dhash", grid, DHash([k \in 0..(HashSize + 1) * HashSize - 1 |->
                                    grid[<<k % (HashSize + 1), k \div (HashSize + 1)>>]]))
ComputeMhash(grid, side, within) ==
    \E off \in [Windows -> -within..within] :
        Answer("mhash", [grid |-> grid, side |-> side, within |-> within],
               Mhash([k \in 0..side * side - 1 |-> grid[<<k % side, k \div side>>]], side, off))
ComputeBmh(samples)   == Answer("bmh", samples, Bmh(samples))

PackMedian(values, n, from, margin) ==
    Answer("median", [values |-> values, n |-> n, from |-> from, margin |-> margin],
           MedianBits(values, n, from, margin))

ComputeWhash(mode, remove, min_dim, samples, within) ==
    LET size == WhashSize(mode, min_dim)
    IN  \E answer \in Whash(mode, remove, samples, size, within) :
            Answer("whash", [size |-> size, min_dim |-> min_dim, mode |-> mode, remove |-> remove,
                             samples |-> samples, within |-> within], answer)

-----------------------------------------------------------------------------
\* The cells not darker than the average: those whose differences to all cells do not
\* add up to less than 0.
AHashAsDefined(samples, answer) ==
    \A c \in DOMAIN samples :
        LET above(o) == samples[c] - samples[o]
        IN  c \in answer <=> MapThenSumSet(above, DOMAIN samples) >= 0

\* The cells that are darker than their neighbour to the right.
DHashAsDefined(grid, answer) ==
    \A x, y \in 0..HashSize - 1 :
        y * HashSize + x \in answer <=> grid[<<x + 1, y>>] > grid[<<x, y>>]

\* The digest, read from its first byte's highest bit on, tells of the blocks of each
\* window that fits, window by window and row by row, whether a block is above the
\* window's mean: wherever rounding cannot decide it, and never of a block without those
\* of its window that are as large.
MhashAsDefined(given, answer) ==
    LET size    == Window * Window
        origins == {o \in 0..given.side - Window : o % WindowStride = 0}
        cells   == {c \in (0..given.side - 1) \X (0..given.side - 1) :
                        \E ox, oy \in origins : c[1] - ox \in 0..Window - 1 /\ c[2] - oy \in 0..Window - 1}
        key(c)  == <<c[2] \div WindowStride, c[1] \div WindowStride, c[2] % WindowStride, c[1] % WindowStride>>
        sooner(c, d) == \E k \in 1..4 : key(c)[k] < key(d)[k] /\ \A j \in 1..k - 1 : key(c)[j] = key(d)[j]
        fellows(c) == {d \in cells : key(d)[1] = key(c)[1] /\ key(d)[2] = key(c)[2]}
        isSet(c) == LET bit == Cardinality({d \in cells : sooner(d, c)})
                    IN  \E p \in answer : 8 * p[1] + (7 - p[2]) = bit
        above(c) == given.grid[c] * size - SumOf(given.grid, fellows(c))
    IN  \A c \in cells :
            /\ above(c) > given.within => isSet(c)
            /\ isSet(c) => above(c) > -given.within
            /\ \A d \in fellows(c) : isSet(c) /\ given.grid[d] >= given.grid[c] => isSet(d)

\* The cells that more than half of the cells are not brighter than: half of them, or
\* more where values are equal.
BmhAsDefined(samples, answer) ==
    /\ \A c \in DOMAIN samples :
           c \in answer <=> 2 * Cardinality({o \in DOMAIN samples : samples[o] <= samples[c]})
                                > Cardinality(DOMAIN samples)
    /\ 2 * Cardinality(answer) >= Cardinality(DOMAIN samples)

\* The values above the middle, by more than the margin: the middle is halfway between
\* the least and the largest value that half of those that make the median do not
\* exceed and half do not fall below.  At most half of those are above it.
MedianAsDefined(given, answer) ==
    LET making == {given.values[i] : i \in given.from..given.n - 1}
        share(Chosen(_)) == 2 * Cardinality({i \in given.from..given.n - 1 : Chosen(given.values[i])})
        half   == given.n - given.from
        middle == {v \in making : share(LAMBDA u : u <= v) >= half /\ share(LAMBDA u : u >= v) >= half}
        twiceAbove(v) == (2 * v - Min(middle)) - Max(middle)
    IN  IF given.from >= given.n THEN answer = {}
        ELSE /\ \A i \in 0..given.n - 1 :
                    i \in answer <=> MarginUnits * twiceAbove(given.values[i])
                                        > 2 * given.margin * (Max(making) - Min(making))
             /\ 2 * Cardinality(answer \cap given.from..given.n - 1) <= half

\* wHash is the median of the means of equal squares, one to a bit, of the largest power
\* of two that fits into the image or the hash: whichever mode, and with the coarsest
\* coefficient removed or not.  A cell's bit is 1 if half of the cells are darker than it by
\* more than rounding reaches, and only if half are darker or as close to it as that; half
\* of the bits are 1 at most.  Ties are left to rounding, except that equal squares of an
\* image that kept its mean, and all of an even image, have equal bits.
WhashAsDefined(given, answer) ==
    LET k == given.size \div HashSize
        cells == 0..HashSize * HashSize - 1
        square(c) == {p \in DOMAIN given.samples : p[1] \div k = c \div HashSize /\ p[2] \div k = c % HashSize}
        sums == [c \in cells |-> given.size * HashSize * SumOf(given.samples, square(c))]
        darker(c, by) == Cardinality({o \in cells \ {c} : sums[o] + by < sums[c]})
        same(c, d) == SquareAt(given.samples, k, c) = SquareAt(given.samples, k, d)
    IN  /\ \A c \in cells :
               /\ 2 * darker(c, 2 * given.within) >= HashSize * HashSize => c \in answer
               /\ c \in answer => 2 * darker(c, -(2 * given.within)) >= HashSize * HashSize
        /\ 2 * Cardinality(answer) <= HashSize * HashSize
        /\ ~given.remove \/ Even(given.samples) =>
               \A c, d \in cells : same(c, d) => (c \in answer <=> d \in answer)
        /\ given.mode = "full" =>
               /\ given.size > HashSize => given.size <= given.min_dim
               /\ 2 * given.size > given.min_dim

\* Each hash has the bits its definition gives it: compared with the mean or median, from
\* bands that were made in place, the ties of wHash and mHash left to rounding.
HashesAsDefined ==
    /\ call.what = "ahash"  => AHashAsDefined(call.given, call.answer)
    /\ call.what = "dhash"  => DHashAsDefined(call.given, call.answer)
    /\ call.what = "mhash"  => MhashAsDefined(call.given, call.answer)
    /\ call.what = "bmh"    => BmhAsDefined(call.given, call.answer)
    /\ call.what = "median" => MedianAsDefined(call.given, call.answer)
    /\ call.what = "whash"  => WhashAsDefined(call.given, call.answer)
=============================================================================
