----------------------------- MODULE ColorBins -----------------------------
(***************************************************************************)
(* The colour histogram of src/hashes/color_histogram.c: three opponent     *)
(* axes cut into bins, looked up in tables, and counted in Lanes histograms *)
(* that are added up.  A picture is the sequence of its pixels, of [r, g,   *)
(* b], of which each is at most Level.                                      *)
(***************************************************************************)
EXTENDS Integers, FiniteSetsExt, SequencesExt, Calls

CONSTANTS
    Level,                  \* 255
    BinsRG, BinsBY, BinsWB, \* 6, 6, 3
    Lanes,                  \* 4
    Scale                   \* 255, what the largest bin becomes

ASSUME ColorAssumption ==
    /\ {Level, BinsRG, BinsBY, BinsWB, Lanes, Scale} \subseteq Nat \ {0}
    /\ BinsRG * BinsBY * BinsWB <= 256

RGValues == 2 * Level + 1
BYValues == 4 * Level + 1
WBValues == 3 * Level + 1
Bins     == BinsRG * BinsBY * BinsWB

\* The values of the axes, shifted to start at 0.
RedGreen(c)   == (c.r - c.g) + Level
BlueYellow(c) == ((2 * c.b - c.r) - c.g) + 2 * Level
LightDark(c)  == c.r + c.g + c.b

\* ph_color_axis_bin()
AxisBin(shifted, bins, values) ==
    LET k == (shifted * bins) \div values IN IF k < bins THEN k ELSE bins - 1

\* ph_color_histogram_bin()
HistogramBin(c) ==
    (AxisBin(RedGreen(c), BinsRG, RGValues) * BinsBY + AxisBin(BlueYellow(c), BinsBY, BYValues)) * BinsWB
        + AxisBin(LightDark(c), BinsWB, WBValues)

\* ph_color_bin_table_init(), with entries of 8 bits; ph_color_bin_lookup().
TableRG == [v \in 0..RGValues - 1 |-> (AxisBin(v, BinsRG, RGValues) * BinsBY * BinsWB) % 256]
TableBY == [v \in 0..BYValues - 1 |-> (AxisBin(v, BinsBY, BYValues) * BinsWB) % 256]
TableWB == [v \in 0..WBValues - 1 |-> AxisBin(v, BinsWB, WBValues) % 256]

Lookup(c) == TableRG[RedGreen(c)] + TableBY[BlueYellow(c)] + TableWB[LightDark(c)]

\* Which pixels are counted in lane k: whole groups in turn, what is left in the first.
\* Fault: what is left is counted with the lane after the groups'.
Grouped(n) == Lanes * (n \div Lanes)
LaneTurned(n, i) == IF i <= Grouped(n) THEN (i - 1) % Lanes ELSE Lanes
LaneOf(n, i)     == IF i <= Grouped(n) THEN (i - 1) % Lanes ELSE 0

LaneCount(pixels, lane, bin) ==
    Cardinality({i \in DOMAIN pixels : LaneOf(Len(pixels), i) = lane /\ Lookup(pixels[i]) = bin})

LanesAdded(pixels, bin) ==
    LET count(lane) == LaneCount(pixels, lane, bin) IN MapThenSumSet(count, 0..Lanes - 1)

Counts(pixels) == [bin \in 0..Bins - 1 |-> LanesAdded(pixels, bin)]

\* ph_compute_color_hash(): bins by the largest one, rounded to nearest.
ColorHash(pixels) ==
    LET counts == Counts(pixels)
        max == Max({counts[bin] : bin \in 0..Bins - 1})
    IN  [bin \in 0..Bins - 1 |-> IF max = 0 THEN 0 ELSE (counts[bin] * Scale + max \div 2) \div max]

Count(pixels) == Answer("color", pixels, ColorHash(pixels))

-----------------------------------------------------------------------------
\* Value v of an axis is in part k of `bins` equal parts of it.
InPart(v, k, bins, values) == k * values <= v * bins /\ v * bins < (k + 1) * values

Holds(bin, c) ==
    /\ InPart(RedGreen(c), bin \div (BinsBY * BinsWB), BinsRG, RGValues)
    /\ InPart(BlueYellow(c), (bin \div BinsWB) % BinsBY, BinsBY, BYValues)
    /\ InPart(LightDark(c), bin % BinsWB, BinsWB, WBValues)

\* Every pixel is counted once, in the bin its colour is in, whether its group of lanes
\* is whole or not, and the digest is the histogram by its largest bin to the nearest
\* level; the tables say the same as the direct computation.
HistogramCounts ==
    call.what = "color" =>
        LET pixels == call.given
            counted(bin) == Cardinality({i \in DOMAIN pixels : Holds(bin, pixels[i])})
            max == Max({counted(bin) : bin \in 0..Bins - 1})
        IN  /\ \A i \in DOMAIN pixels : Lookup(pixels[i]) = HistogramBin(pixels[i])
            /\ \A bin \in 0..Bins - 1 :
                   /\ 2 * counted(bin) * Scale < (2 * call.answer[bin] + 1) * max \/ max = 0
                   /\ (2 * call.answer[bin] - 1) * max <= 2 * counted(bin) * Scale
=============================================================================
