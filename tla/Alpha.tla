------------------------------- MODULE Alpha -------------------------------
(***************************************************************************)
(* ph_resolve_alpha() of src/image/color.c: the alpha channel of a decoded  *)
(* image is blended over a background, or dropped, in the buffer the pixels *)
(* were decoded into, which is then made smaller.  One step writes one      *)
(* byte: the bytes read later must not be among those written so far.       *)
(***************************************************************************)
EXTENDS Integers

CONSTANT Pictures       \* the buffers it is called with: [channels, count, bytes]

ASSUME AlphaAssumption ==
    \A picture \in Pictures :
        /\ picture.channels \in 1..4 /\ picture.count \in Nat
        /\ picture.bytes \in [0..(picture.count * picture.channels) - 1 -> 0..255]

VARIABLES
    picture,    \* the decoded image: [channels, count, bytes]
    mode,       \* the alpha mode
    doing,      \* "idle", "called", "pixels", "bytes", "returned"
    pixel, channel,     \* the byte written next
    alpha,      \* the alpha of that pixel
    bytes,      \* the buffer
    channels    \* *channels

alphaVars == <<picture, mode, doing, pixel, channel, alpha, bytes, channels>>

Modes == {"BLEND_GREY", "BLEND_WHITE", "BLEND_BLACK", "IGNORE"}

NoPicture == [channels |-> 1, count |-> 0, bytes |-> <<>>]

in_px  == picture.channels
out_px == picture.channels - 1

bg == IF mode = "BLEND_WHITE" THEN 255 ELSE IF mode \in {"BLEND_BLACK", "IGNORE"} THEN 0 ELSE 128

-----------------------------------------------------------------------------
AlphaIdle ==
    /\ picture = NoPicture /\ mode = "BLEND_GREY" /\ doing = "idle"
    /\ pixel = 0 /\ channel = 0 /\ alpha = 0 /\ bytes = <<>> /\ channels = 1

AlphaCall(given, how) ==
    /\ doing = "idle"
    /\ picture' = given /\ bytes' = given.bytes /\ channels' = given.channels
    /\ mode' = how
    /\ doing' = "called"
    /\ UNCHANGED <<pixel, channel, alpha>>

\* No alpha channel: nothing to do.
NoAlpha ==
    /\ doing = "called" /\ channels \notin {2, 4}
    /\ doing' = "returned"
    /\ UNCHANGED <<picture, mode, pixel, channel, alpha, bytes, channels>>

HasAlpha ==
    /\ doing = "called" /\ channels \in {2, 4}
    /\ doing' = "pixels"
    /\ UNCHANGED <<picture, mode, pixel, channel, alpha, bytes, channels>>

\* Where pixel i is read.  Fault: where the result was written, not the pixel.
ReadAtOut(i) == i * out_px
ReadAt(i)    == i * in_px

Blended(s, a) == IF mode = "IGNORE" THEN s ELSE ((s * a + bg * (255 - a)) + 127) \div 255

ReadAlpha ==
    /\ doing = "pixels" /\ pixel < picture.count
    /\ alpha' = bytes[ReadAt(pixel) + out_px]
    /\ channel' = 0
    /\ doing' = "bytes"
    /\ UNCHANGED <<picture, mode, pixel, bytes, channels>>

WriteByte ==
    /\ doing = "bytes" /\ channel < out_px
    /\ bytes' = [bytes EXCEPT ![pixel * out_px + channel] = Blended(bytes[ReadAt(pixel) + channel], alpha)]
    /\ channel' = channel + 1
    /\ UNCHANGED <<picture, mode, doing, pixel, alpha, channels>>

NextPixel ==
    /\ doing = "bytes" /\ channel >= out_px
    /\ pixel' = pixel + 1
    /\ doing' = "pixels"
    /\ UNCHANGED <<picture, mode, channel, alpha, bytes, channels>>

\* realloc() to the bytes used, which may fail: the larger buffer stays then.
Shrink ==
    /\ doing = "pixels" /\ pixel >= picture.count
    /\ channels' = out_px
    /\ \/ bytes' = [k \in 0..(picture.count * out_px) - 1 |-> bytes[k]]
       \/ bytes' = bytes
    /\ doing' = "returned"
    /\ UNCHANGED <<picture, mode, pixel, channel, alpha>>

AlphaReturn ==
    /\ doing = "returned"
    /\ picture' = NoPicture /\ mode' = "BLEND_GREY" /\ doing' = "idle"
    /\ pixel' = 0 /\ channel' = 0 /\ alpha' = 0 /\ bytes' = <<>> /\ channels' = 1

AlphaNext ==
    \/ \E given \in Pictures, how \in Modes : AlphaCall(given, how)
    \/ NoAlpha \/ HasAlpha \/ ReadAlpha \/ WriteByte \/ NextPixel \/ Shrink \/ AlphaReturn

AlphaSpec == AlphaIdle /\ [][AlphaNext]_alphaVars

-----------------------------------------------------------------------------
\* The background of a mode, and s over it with weight a, to the nearest byte (255 is
\* odd: there is always one).
Background == [m \in Modes |-> CASE m = "BLEND_WHITE" -> 255 [] m = "BLEND_BLACK" -> 0 [] OTHER -> 128]

IsBlend(d, s, a) ==
    IF mode = "IGNORE" THEN d = s
    ELSE LET exact == s * a + Background[mode] * (255 - a) IN
         /\ 255 * d - exact <= 127
         /\ exact - 255 * d <= 127

\* On return every pixel is the decoded one without its alpha: blended, to the nearest
\* byte, with the background of the mode, or as it was; and an image without alpha is
\* as it was.  No byte was overwritten before it was read.
AlphaResolvedInPlace ==
    doing = "returned" =>
        IF picture.channels \in {2, 4}
        THEN /\ channels = out_px
             /\ \A i \in 0..picture.count - 1, c \in 0..out_px - 1 :
                    IsBlend(bytes[i * out_px + c], picture.bytes[i * in_px + c],
                            picture.bytes[i * in_px + out_px])
        ELSE channels = picture.channels /\ bytes = picture.bytes
=============================================================================
