------------------------------- MODULE Config -------------------------------
(***************************************************************************)
(* The configuration of a context: ph_config_init_defaults() and the        *)
(* setters of src/config.c, and what the computations need of it, which     *)
(* they find out themselves (src/hashes/).                                  *)
(*                                                                         *)
(* Floating-point parameters are integers in a unit that makes the limits   *)
(* whole: gamma in thousandths, the radial sigma in sixths, alpha and level *)
(* of Marr-Hildreth in units.  Infinity and NaN stand beyond all of them.   *)
(***************************************************************************)
EXTENDS Integers

CONSTANT Arguments      \* a record: the arguments each setter is called with

VARIABLE config

Infinity == 1000000000
NaN      == Infinity + 1

Finite(x)   == -Infinity < x /\ x < Infinity
Above(x, y) == x # NaN /\ x > y

\* include/libphash.h, image/image.h, hashes/hashes.h
DigestBytes == 128
GrayScale   == 128
GrayMaxSum  == 2147483647 \div 255
MhGrid      == 31
RadialCoeffs == 40
MhBytes     == 72
ColorBytes  == 108
MomentBytes == 18

AlphaModes  == {"BLEND_GREY", "BLEND_WHITE", "BLEND_BLACK", "IGNORE"}
WhashModes  == {"FAST", "FULL"}
DecodeScales == {"FULL", "HALF", "QUARTER", "EIGHTH"}

\* ph_config_init_defaults()
Defaults ==
    [gray |-> <<38, 75, 15>>, dct |-> 32, reduction |-> 8,
     mhAlpha |-> 2, mhLevel |-> 1, mhSize |-> 512,
     projections |-> 180, samples |-> 128, sigma |-> 21,
     block |-> 16, gamma |-> 1000,
     whash |-> "FAST", removeLL |-> 0, maxPixels |-> 268435456, scale |-> "FULL",
     loadGray |-> 0, alpha |-> "BLEND_GREY", autoOrient |-> 1]

ConfigIdle == config = Defaults

\* A setter: all of its arguments are installed, or none.
Installs(accepted, new) == accepted /\ config' = new

SetGamma(gamma) ==
    Installs(Finite(gamma) /\ gamma > 1 /\ gamma <= 1000000, [config EXCEPT !.gamma = gamma])

Sum3(w) == w[1] + w[2] + w[3]

\* The last weight is what the others leave.  Fault: each is rounded down.
RoundedDown(w) == [k \in 1..3 |-> (w[k] * GrayScale) \div Sum3(w)]
Normalised(w) ==
    LET r == (w[1] * GrayScale) \div Sum3(w)
        g == (w[2] * GrayScale) \div Sum3(w)
    IN  <<r, g, (GrayScale - r) - g>>

SetGrayWeights(w) ==
    Installs((\A k \in 1..3 : w[k] >= 0) /\ Sum3(w) > 0 /\ Sum3(w) <= GrayMaxSum,
             [config EXCEPT !.gray = Normalised(w)])

\* Fault: the two sizes are bounded, not related.
DctBounded(dct, reduction) == dct \in 1..32 /\ reduction \in 4..8
DctAccepted(dct, reduction) == dct \in 1..32 /\ reduction \in 4..8 /\ reduction <= dct

SetPhash(p) ==
    Installs(DctAccepted(p.dct, p.reduction), [config EXCEPT !.dct = p.dct, !.reduction = p.reduction])

SetRadial(p) ==
    Installs(/\ p.projections \in RadialCoeffs..4096 /\ p.samples \in 2..4096
             /\ Finite(p.sigma) /\ Above(p.sigma, 0) /\ p.sigma <= 128,
             [config EXCEPT !.projections = p.projections, !.samples = p.samples, !.sigma = p.sigma])

\* The half-width of the kernel, 4 * alpha^level.
HalfWidth(alpha, level) == 4 * alpha^level

\* C's arguments are integers, or floating-point numbers in these units; the power of a
\* number of at least 1 is one.
ASSUME ConfigAssumption ==
    /\ Arguments.gamma \subseteq Int /\ Arguments.block \subseteq Int
    /\ \A w \in Arguments.gray : \A k \in 1..3 : w[k] \in Int
    /\ \A p \in Arguments.phash : p.dct \in Int /\ p.reduction \in Int
    /\ \A p \in Arguments.radial : p.projections \in Int /\ p.samples \in Int /\ p.sigma \in Int
    /\ \A p \in Arguments.mhash :
          /\ p.alpha \in Int /\ p.level \in Int /\ p.size \in Int
          /\ Finite(p.alpha) /\ Finite(p.level) /\ p.alpha >= 1 /\ p.level >= 0 =>
                HalfWidth(p.alpha, p.level) \in Nat \ {0}

SetMhash(p) ==
    Installs(/\ Above(p.alpha, 1) /\ p.level >= 0 /\ Finite(p.alpha) /\ Finite(p.level)
             /\ p.size \in 2 * MhGrid..4096
             /\ 2 * HalfWidth(p.alpha, p.level) + 1 <= 65,
             [config EXCEPT !.mhAlpha = p.alpha, !.mhLevel = p.level, !.mhSize = p.size])

SetBlock(size) == Installs(size \in 2..32, [config EXCEPT !.block = size])

Flag(enable) == IF enable # 0 THEN 1 ELSE 0

SetLoadGrayscale(enable) == config' = [config EXCEPT !.loadGray = Flag(enable)]
SetAutoOrient(enable)    == config' = [config EXCEPT !.autoOrient = Flag(enable)]
SetRemoveLL(enable)      == config' = [config EXCEPT !.removeLL = Flag(enable)]
SetMaxPixels(limit)      == config' = [config EXCEPT !.maxPixels = limit]

SetAlphaMode(mode)    == Installs(mode \in AlphaModes, [config EXCEPT !.alpha = mode])
SetWhashMode(mode)    == Installs(mode \in WhashModes, [config EXCEPT !.whash = mode])
SetDecodeScale(scale) == Installs(scale \in DecodeScales, [config EXCEPT !.scale = scale])

ConfigNext ==
    \/ \E gamma \in Arguments.gamma : SetGamma(gamma)
    \/ \E w \in Arguments.gray : SetGrayWeights(w)
    \/ \E p \in Arguments.phash : SetPhash(p)
    \/ \E p \in Arguments.radial : SetRadial(p)
    \/ \E p \in Arguments.mhash : SetMhash(p)
    \/ \E size \in Arguments.block : SetBlock(size)
    \/ \E enable \in Arguments.flag :
          SetLoadGrayscale(enable) \/ SetAutoOrient(enable) \/ SetRemoveLL(enable)
    \/ \E limit \in Arguments.maxPixels : SetMaxPixels(limit)
    \/ \E mode \in Arguments.mode : SetAlphaMode(mode) \/ SetWhashMode(mode) \/ SetDecodeScale(mode)

ConfigSpec == ConfigIdle /\ [][ConfigNext]_config

-----------------------------------------------------------------------------
\* ph_digest_shape(): the size in bytes of the digest of each algorithm.
ShapeSize(algo) ==
    CASE algo \in {"ahash", "dhash", "phash", "whash"} -> 8
      [] algo = "bmh" -> LET bytes == (config.block * config.block + 7) \div 8
                         IN  IF bytes > DigestBytes THEN DigestBytes ELSE bytes
      [] algo = "mhash" -> MhBytes
      [] algo = "radial" -> RadialCoeffs
      [] algo = "color_hash" -> ColorBytes
      [] algo = "color_moments" -> MomentBytes

\* How many bits each algorithm makes: of the DCT block, of the grid of blocks, of
\* windows, or in bytes of coefficients, bins and moments.
BitsMade(algo) ==
    CASE algo = "phash" -> config.reduction * config.reduction
      [] algo = "bmh" -> config.block * config.block
      [] algo = "mhash" -> 576
      [] algo = "radial" -> 8 * (IF config.projections < RadialCoeffs THEN config.projections ELSE RadialCoeffs)
      [] OTHER -> 8 * ShapeSize(algo)

Algorithms == {"ahash", "dhash", "phash", "whash", "bmh", "mhash", "radial", "color_hash", "color_moments"}

\* ph_dct2_partial()'s own bounds; ph_mh_kernel()'s; the radius the blur's kernel is
\* cut at, ceil(3 * sigma) or 64; a weighted sum of three bytes, shifted.
DctComputes    == config.dct \in 1..32 /\ config.reduction \in 1..8 /\ config.reduction <= config.dct
KernelFits     == HalfWidth(config.mhAlpha, config.mhLevel) \in 1..32
BlurUncut      == config.sigma > 0 /\ (config.sigma + 1) \div 2 <= 64
GrayOf(c)      == (c[1] * config.gray[1] + c[2] * config.gray[2] + c[3] * config.gray[3]) \div GrayScale

\* Whatever setters are called, in whatever order, with whatever arguments, no computation
\* is left with a configuration it refuses or has no room for: fixed buffers suffice, the
\* blur is not cut short, a block has a pixel, every digest holds exactly the bits that
\* are made and at least one; white stays white in gray, black black.
ConfigurationUsable ==
    /\ DctComputes /\ KernelFits /\ BlurUncut
    /\ config.mhSize \div MhGrid >= 2 /\ config.samples >= 2
    /\ \A algo \in Algorithms :
          /\ ShapeSize(algo) \in 1..DigestBytes
          /\ BitsMade(algo) <= 8 * ShapeSize(algo)
          /\ algo \in {"bmh", "mhash", "radial"} => 8 * ShapeSize(algo) - BitsMade(algo) < 8
    /\ GrayOf(<<255, 255, 255>>) = 255 /\ GrayOf(<<0, 0, 0>>) = 0
    /\ \A k \in 1..3 : config.gray[k] >= 0
    /\ config.alpha \in AlphaModes /\ config.whash \in WhashModes /\ config.scale \in DecodeScales
=============================================================================
