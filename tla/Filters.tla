------------------------------ MODULE Filters ------------------------------
(***************************************************************************)
(* The filters that are computed in another order than they are defined in: *)
(* the Gaussian blur and the equalisation of src/image/filters.c, the block *)
(* sums of src/hashes/mhash.c, and the gray conversion of src/image/color.c *)
(* with vector lanes.  A sum of floats depends on the order of its terms:   *)
(* of a blurred sample the model keeps which samples its taps take, in      *)
(* order.  What is summed in integers is computed.                          *)
(***************************************************************************)
EXTENDS Integers, FiniteSetsExt, Calls

CONSTANTS
    MaxRadius,      \* PH_BLUR_MAX_RADIUS, 64
    Strip,          \* PH_BLUR_STRIP, 256
    Blocks,         \* PH_MH_GRID, 31
    VectorLanes     \* 8, the pixels of one vector instruction

ASSUME FiltersAssumption == {MaxRadius, Strip, Blocks, VectorLanes} \subseteq Nat \ {0}

Clamp(v, size) == IF v < 0 THEN 0 ELSE IF v >= size THEN size - 1 ELSE v

-----------------------------------------------------------------------------
\* ph_gaussian_blur_sigma(), where `reach` is 3 sigma rounded up.
Radius(reach) == IF reach < 1 THEN 1 ELSE IF reach > MaxRadius THEN MaxRadius ELSE reach

\* The samples of taps 0 to 2 * radius, along a row or a column of `size`.
ClampedTaps(at, size, radius) == [t \in 0..2 * radius |-> Clamp((at + t) - radius, size)]

\* blur_row_horizontal(): columns lo to hi - 1 are not clamped, and are taken in strips
\* whose samples, and `radius` more at each end, are converted first.  Fault: one
\* column too many.
Lo(w, radius)         == IF radius < w THEN radius ELSE w
HiOneMore(w, radius)  == IF w - radius >= Lo(w, radius) THEN (w - radius) + 1 ELSE Lo(w, radius)
Hi(w, radius)         == IF w - radius > Lo(w, radius) THEN w - radius ELSE Lo(w, radius)

StripTaps(x, w, radius) ==
    LET i  == (x - Lo(w, radius)) % Strip
        x0 == x - i
        converted == [k \in 0..(Strip + 2 * radius) - 1 |-> (x0 - radius) + k]
    IN  [t \in 0..2 * radius |-> converted[t + i]]

Across(w, radius) ==
    [x \in 0..w - 1 |->
        IF x < Lo(w, radius) \/ x >= Hi(w, radius) THEN ClampedTaps(x, w, radius)
        ELSE StripTaps(x, w, radius)]

\* The vertical pass in strips of columns: offsets into `scratch`.  Rows that reach past
\* an edge gather the rows they take, the others step by the width.  Fault: the last of
\* the rows that reach past it does not.
ReachesInLast(y, h, radius) == y >= radius /\ y + radius <= h
ReachesIn(y, h, radius)     == y >= radius /\ y + radius < h

DownTaps(x, y, w, h, radius) ==
    LET i  == x % Strip
        x0 == x - i
    IN  IF ReachesIn(y, h, radius)
        THEN [t \in 0..2 * radius |-> ((y - radius) * w + x0) + (t * w + i)]
        ELSE [t \in 0..2 * radius |-> (ClampedTaps(y, h, radius)[t] * w + x0) + i]

Blur(w, h, reach) ==
    LET radius == Radius(reach) IN
    Answer("blur", [w |-> w, h |-> h, radius |-> radius],
           [across |-> Across(w, radius),
            down   |-> [p \in (0..w - 1) \X (0..h - 1) |-> DownTaps(p[1], p[2], w, h, radius)]])

-----------------------------------------------------------------------------
\* ph_equalize_histogram(), at PH_MH_EQUALIZE_LEVELS = 256: a tone becomes its rank, of
\* which the darkest is 0, rounded half up.  `data` is a sequence of bytes.
UpToTone(data, v) == Cardinality({i \in DOMAIN data : data[i] <= v})

\* Fault: the darkest pixels count as well.
DenomOfAll(data) == Cardinality(DOMAIN data)
Denom(data) ==
    Cardinality(DOMAIN data) - UpToTone(data, Min({data[i] : i \in DOMAIN data}))

Tone(data, v) ==
    LET cdf_min == UpToTone(data, Min({data[i] : i \in DOMAIN data}))
    IN  IF Denom(data) = 0 THEN 0
        ELSE (2 * 255 * (UpToTone(data, v) - cdf_min) + Denom(data)) \div (2 * Denom(data))

Equalize(data) == Answer("equalize", data, [i \in DOMAIN data |-> Tone(data, data[i])])

-----------------------------------------------------------------------------
\* ph_mh_block_sums() up to the multiplication by the kernel: for each block of an
\* n x n image, and each tap of a kernel of `side` (odd), the sum of the block's pixels
\* moved by that tap.  Images are functions on <<x, y>>.
Padded(image, n, half) ==
    [p \in (0..(n + 2 * half) - 1) \X (0..(n + 2 * half) - 1) |->
        image[<<Clamp(p[1] - half, n), Clamp(p[2] - half, n)>>]]

Integral(padded, pad) ==
    LET rowSum[p \in (0..pad) \X (0..pad - 1)] ==
            IF p[1] = 0 THEN 0 ELSE rowSum[<<p[1] - 1, p[2]>>] + padded[<<p[1] - 1, p[2]>>]
        sums[p \in (0..pad) \X (0..pad)] ==
            IF p[1] = 0 \/ p[2] = 0 THEN 0 ELSE sums[<<p[1], p[2] - 1>>] + rowSum[<<p[1], p[2] - 1>>]
    IN  sums

\* Four lookups.  Fault: the corner that was taken away twice is not given back.
BoxWithoutCorner(sums, x, y, block) ==
    (sums[<<x + block, y + block>>] - sums[<<x, y + block>>]) - sums[<<x + block, y>>]
Box(sums, x, y, block) ==
    ((sums[<<x + block, y + block>>] - sums[<<x, y + block>>]) - sums[<<x + block, y>>]) + sums[<<x, y>>]

BlockSums(image, n, side) ==
    LET block == n \div Blocks
        half  == side \div 2
        sums  == Integral(Padded(image, n, half), n + 2 * half)
    IN  [b \in (0..Blocks - 1) \X (0..Blocks - 1) |->
            [k \in (0..side - 1) \X (0..side - 1) |->
                Box(sums, b[1] * block + k[1], b[2] * block + k[2], block)]]

SumBlocks(image, n, side) ==
    Answer("blocks", [image |-> image, n |-> n, side |-> side], BlockSums(image, n, side))

-----------------------------------------------------------------------------
\* ph_to_grayscale() of color pixels: the shift by PH_GRAY_WEIGHT_SHIFT, the weights of
\* 8 bits and the sums of 16 in a vector lane, and the plain loop for what is left.
Shifted7(sum) == (sum \div 128) % 256

GrayInLane(c, weights) ==
    Shifted7((((c[1] * (weights[1] % 256)) + c[2] * (weights[2] % 256)) + c[3] * (weights[3] % 256)) % 65536)

GrayAlone(c, weights) == Shifted7((c[1] * weights[1] + c[2] * weights[2]) + c[3] * weights[3])

\* How many pixels whole vectors take, with vectors and without them.
InVectors(n, vectors) == IF vectors THEN n - (n % VectorLanes) ELSE 0

ToGray(pixels, weights, vectors) ==
    Answer("gray", [pixels |-> pixels, weights |-> weights],
           [i \in DOMAIN pixels |->
               IF i <= InVectors(Cardinality(DOMAIN pixels), vectors)
               THEN GrayInLane(pixels[i], weights)
               ELSE GrayAlone(pixels[i], weights)])

-----------------------------------------------------------------------------
\* The sample nearest to position v, which is what clamping to the edge means.
Distant(u, v)    == IF u > v THEN u - v ELSE v - u
Nearest(v, size) == CHOOSE s \in 0..size - 1 : \A o \in 0..size - 1 : Distant(s, v) <= Distant(o, v)

\* Every sample is the sum of the same taps in the same order as in the direct loop,
\* whichever part of a row, column or strip it is in: so that no hash moves by a
\* rounding.
BlurAsDefined(given, answer) ==
    LET r == given.radius IN
    \A x \in 0..given.w - 1, t \in 0..2 * r :
        /\ answer.across[x][t] = Nearest((x + t) - r, given.w)
        /\ \A y \in 0..given.h - 1 :
               answer.down[<<x, y>>][t] = Nearest((y + t) - r, given.h) * given.w + x

\* The share of the pixels above the darkest tone that are at most this bright, to the
\* nearest of 256 levels.
RankAsDefined(data, answer) ==
    LET darkest  == Min({data[i] : i \in DOMAIN data})
        above    == {i \in DOMAIN data : data[i] > darkest}
        upTo(i)  == Cardinality({j \in above : data[j] <= data[i]})
        twice(i) == 2 * (255 * upTo(i) - answer[i] * Cardinality(above))
    IN  \A i \in DOMAIN data :
            IF above = {} THEN answer[i] = 0
            ELSE twice(i) < Cardinality(above) /\ twice(i) >= -Cardinality(above)

MovedSum(image, n, block, b, offset) ==
    LET pixels  == (b[1] * block..(b[1] + 1) * block - 1) \X (b[2] * block..(b[2] + 1) * block - 1)
        term(p) == image[<<Nearest(p[1] + offset[1], n), Nearest(p[2] + offset[2], n)>>]
    IN  MapThenSumSet(term, pixels)

BlocksAsDefined(given, answer) ==
    LET half == given.side \div 2 IN
    \A b \in DOMAIN answer : \A k \in DOMAIN answer[b] :
        answer[b][k] =
            MovedSum(given.image, given.n, given.n \div Blocks, b, <<k[1] - half, k[2] - half>>)

\* The weighted mean, whose weights are parts of 128, rounded down.
GrayAsDefined(given, answer) ==
    \A i \in DOMAIN answer :
        LET c == given.pixels[i]
            sum == (c[1] * given.weights[1] + c[2] * given.weights[2]) + c[3] * given.weights[3]
        IN  128 * answer[i] <= sum /\ sum < 128 * (answer[i] + 1)

\* Strips, unclamped interiors, integral images, cumulative histograms and vector lanes
\* give what the plain definitions give, at the edges as inside, and no lane overflows.
FiltersAsDefined ==
    /\ call.what = "blur"     => BlurAsDefined(call.given, call.answer)
    /\ call.what = "equalize" => RankAsDefined(call.given, call.answer)
    /\ call.what = "blocks"   => BlocksAsDefined(call.given, call.answer)
    /\ call.what = "gray"     => GrayAsDefined(call.given, call.answer)
=============================================================================
