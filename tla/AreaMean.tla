------------------------------ MODULE AreaMean ------------------------------
(***************************************************************************)
(* ph_area_downscale() of src/image/resize.c: the mean of every cell of a   *)
(* small grid laid over the gray image, by the area each pixel shares with  *)
(* the cell, in integers.  An image of at least Grid pixels a side has its  *)
(* sums made once on a Grid x Grid grid, from which every grid whose sides  *)
(* divide Grid is read (Context says when the sums are current).            *)
(*                                                                         *)
(* A gray image is [width, height, pixel], `pixel` a function on its        *)
(* positions <<x, y>>.  Positions are size_t values and wrap; the sums are   *)
(* of type uint64_t and exact: a gray image has less than 2^31 pixels and a *)
(* grid at most 32 cells a side.                                            *)
(***************************************************************************)
EXTENDS SizeT, FiniteSetsExt, Calls

CONSTANT Grid           \* PH_AREA_GRID, 32 in the code

ASSUME GridAssumption == Grid \in Nat \ {0}

Added(f) == LET at(x) == f[x] IN MapThenSumSet(at, DOMAIN f)

-----------------------------------------------------------------------------
\* ph_area_span(): what cell k of an axis of src pixels and dst cells takes.
Span(k, src, dst) ==
    LET lo    == Wrap(k * src)
        hi    == Wrap((k + 1) * src)
        first == lo \div dst
        last  == Wrap(hi - 1) \div dst
    IN  IF first = last THEN [first |-> first, last |-> last, wFirst |-> src, wLast |-> 0]
        ELSE [first |-> first, last |-> last,
              wFirst |-> Wrap((first + 1) * dst - lo),
              wLast  |-> Wrap(hi - last * dst)]

\* ph_area_sums(): what row y adds to column c, and the sums of the cells.
RowSum(image, y, c, dw) ==
    LET sp == Span(c, image.width, dw)
        p(x) == image.pixel[<<x, y>>]
    IN  sp.wFirst * p(sp.first)
            + (IF sp.last > sp.first THEN dw * Added([x \in sp.first + 1..sp.last - 1 |-> p(x)]) + sp.wLast * p(sp.last) ELSE 0)

Larger(m, n)  == IF m > n THEN m ELSE n
Smaller(m, n) == IF m < n THEN m ELSE n

\* Source row y covers [y * dh, (y + 1) * dh) of an axis where cell r covers
\* [r * height, (r + 1) * height).
RowWeight(image, y, r, dh) ==
    Wrap(Smaller(Wrap((y + 1) * dh), Wrap((r + 1) * image.height))
            - Larger(Wrap(y * dh), Wrap(r * image.height)))

Overlaps(image, y, dh) ==
    Wrap(y * dh) \div image.height..Wrap(Wrap((y + 1) * dh) - 1) \div image.height

AreaSums(image, dw, dh) ==
    [cell \in (0..dw - 1) \X (0..dh - 1) |->
        LET rows == {y \in 0..image.height - 1 : cell[2] \in Overlaps(image, y, dh)}
        IN  Added([y \in rows |-> RowWeight(image, y, cell[2], dh) * RowSum(image, y, cell[1], dw)])]

\* ph_area_round(): half up.
AreaRound(sum, den) == (2 * sum + den) \div (2 * den)

UsesGrid(image, dw, dh) ==
    image.width >= Grid /\ image.height >= Grid /\ Grid % dw = 0 /\ Grid % dh = 0

\* Fault: the sums of the grid are taken over the area of one of its cells.
DenOfCell(image, kx, ky) == image.width * image.height
DenOfGrid(image, kx, ky) == image.width * image.height * kx * ky

FromGrid(image, dw, dh) ==
    LET kx == Grid \div dw
        ky == Grid \div dh
        grid == AreaSums(image, Grid, Grid)
        part(c, r) == (c * kx..(c + 1) * kx - 1) \X (r * ky..(r + 1) * ky - 1)
    IN  [cell \in (0..dw - 1) \X (0..dh - 1) |->
            AreaRound(Added([at \in part(cell[1], cell[2]) |-> grid[at]]), DenOfGrid(image, kx, ky))]

Direct(image, dw, dh) ==
    LET sums == AreaSums(image, dw, dh)
    IN  [cell \in DOMAIN sums |-> AreaRound(sums[cell], image.width * image.height)]

AreaDownscale(image, dw, dh) ==
    IF UsesGrid(image, dw, dh) THEN FromGrid(image, dw, dh) ELSE Direct(image, dw, dh)

Downscale(image, dw, dh) ==
    Answer("area", [image |-> image, dw |-> dw, dh |-> dh], AreaDownscale(image, dw, dh))

-----------------------------------------------------------------------------
\* How much of pixel i lies in cell k: the axis cut in src * dst equal parts.
Shared(i, k, src, dst) == Cardinality({u \in 0..src * dst - 1 : u \div dst = i /\ u \div src = k})

\* The exact sum of a cell, of which the mean is the share of width * height.
ExactSum(image, cell, dw, dh) ==
    Added([at \in DOMAIN image.pixel |->
              (Shared(at[1], cell[1], image.width, dw) * Shared(at[2], cell[2], image.height, dh))
                  * image.pixel[at]])

IsMean(given, answer) ==
    LET area == given.image.width * given.image.height
    IN  \A cell \in DOMAIN answer :
            LET sum == ExactSum(given.image, cell, given.dw, given.dh) IN
            /\ 2 * sum >= (2 * answer[cell] - 1) * area
            /\ 2 * sum < (2 * answer[cell] + 1) * area

\* The positions along both axes are size_t values.
Representable(given) ==
    LET along(cells) == IF UsesGrid(given.image, given.dw, given.dh) THEN Grid ELSE cells
    IN  /\ given.image.width * along(given.dw) <= SizeMax
        /\ given.image.height * along(given.dh) <= SizeMax

\* Every cell holds the exact mean of the area under it, rounded half up, however the
\* cell borders cut the pixels, fewer pixels than cells included, and whichever way it
\* was come by: read from the grid of sums or summed for this size.  An axis must fit
\* into size_t; of 64 bits every image does.
MeansAreExact == call.what = "area" /\ Representable(call.given) => IsMean(call.given, call.answer)

\* What README.md says of the platforms, 32-bit x86 among them: "the same hash values
\* on all of them".
SameOnEveryPlatform == call.what = "area" => IsMean(call.given, call.answer)
=============================================================================
