------------------------------- MODULE Decode -------------------------------
(***************************************************************************)
(* One call of ph_decode_buffer() (src/loader.c) on a file of any format,   *)
(* in a build with or without the native decoder of that format: the choice *)
(* of the backend, the limits, the backends of src/loaders/ with what they  *)
(* allocate and give back on every path, longjmp() included, and the        *)
(* verdict, which must depend on the file and not on the build.             *)
(*                                                                         *)
(* A backend is the sequence of its steps.  The libraries are external: a   *)
(* call of one meets what is wrong with the file, runs out of memory, or    *)
(* succeeds.                                                                *)
(***************************************************************************)
EXTENDS Containers

CONSTANT Files
    \* The files the call may get, each [format, defect, container, color, interlaced]:
    \* format: "jpeg", "png", "webp" or "other"; defect: what is wrong with the image in
    \* it, or "none"; container: what Containers walks; color: more than gray.

\* What can be wrong with the image in a file, besides its container.  A JPEG states its
\* sides in 16 bits, a WebP in 14: neither has one too wide for stb_image.
Defects(format) ==
    {"none", "long", "area", "header", "pixels"} \cup
    CASE format = "jpeg" -> {"tables"}
      [] format = "png"  -> {"wide", "side"}
      [] format = "webp" -> {"abi"}
      [] OTHER           -> {"wide", "zero", "unknown", "too_large"}

\* A PNG has image data, all of it before its end; one without is a defect of pixels.
HasImageData(chunks) ==
    /\ \E k \in DOMAIN chunks : chunks[k].type = "IDAT"
    /\ \A j, k \in DOMAIN chunks : chunks[j].type = "IEND" /\ chunks[k].type = "IDAT" => k < j

\* A file of more than INT_MAX bytes is "long", so that a chunk too long for a PNG does
\* not fit into any other.
ASSUME DecodeAssumption == \A given \in Files :
    /\ given.format \in {"jpeg", "png", "webp", "other"} /\ given.defect \in Defects(given.format)
    /\ given.format = "jpeg" => IsJpegFile(given.container)
    /\ given.format = "png" =>
          /\ IsPngFile(given.container) /\ HasImageData(given.container.chunks)
          /\ given.defect # "long" => given.container.bytes <= MaxChunk

VARIABLES
    file,       \* the buffer
    native,     \* this build has the native decoder of the file's format
    gray,       \* req_comp is 1
    todo,       \* the steps of the backend still to run
    held,       \* what is allocated: library structs and buffers
    cleanup,    \* what the volatile variables of the jump branch point to
    message,    \* the kind of diagnostic in err_msg
    status      \* "called", "decoding", then the answer

vars == <<file, native, gray, todo, held, cleanup, message, status>>

-----------------------------------------------------------------------------
Complete ==
    CASE file.format = "jpeg" -> JpegComplete(file.container)
      [] file.format = "png"  -> PngComplete(file.container)
      [] file.format = "webp" -> RiffComplete(file.container)
      [] OTHER                -> TRUE

\* libpng reads up to the end of the image data and checks the critical checksums
\* on its way; it is never asked to go on to IEND.
LibpngIsContent ==
    LET chunks == file.container.chunks
        last == CHOOSE k \in DOMAIN chunks :
                    /\ chunks[k].type = "IDAT"
                    /\ \A j \in DOMAIN chunks : chunks[j].type = "IDAT" => j <= k
    IN  /\ Start(file.container)[last + 1] <= file.container.bytes
        /\ \A j \in 1..last : chunks[j].length <= MaxChunk /\ (Critical(chunks[j]) => chunks[j].sound)

\* A native decoder misses what it needs; stb_image may or may not notice.
Trouble == IF native /\ file.format = "png" THEN ~LibpngIsContent ELSE ~Complete

-----------------------------------------------------------------------------
\* The steps.  `frees`: what the backend gives back before it returns the error.
Free(what) ==
    [do |-> "free", what |-> what, finds |-> {}, error |-> "none", frees |-> {}, jumps |-> FALSE]

\* A library call that may meet one of `finds` or run out of memory, and then jumps
\* or has a status the backend looks at.
Jumping(finds)        == [Free({}) EXCEPT !.do = "call", !.finds = finds, !.jumps = TRUE]
Calling(finds, frees) == [Free({}) EXCEPT !.do = "call", !.finds = finds, !.frees = frees]

Test(finds, error, frees) ==
    [Free({}) EXCEPT !.do = "test", !.finds = finds, !.error = error, !.frees = frees]

Get(what, frees) == [Free(what) EXCEPT !.do = "get", !.frees = frees]
Create(what)     == [Free(what) EXCEPT !.do = "create"]
Register(what)   == [Free(what) EXCEPT !.do = "register"]
Unregister(what) == [Free(what) EXCEPT !.do = "unregister"]
Return(what)     == [Free(what) EXCEPT !.do = "return"]

\* Fault: the decode begins without a look at the header's size.
TestAreaSkipped(frees) == Test({}, "IMAGE_TOO_LARGE", frees)

\* ph_exceeds_pixel_limit(); "side": a side is above max_pixels, and so is the area.
TestArea(frees) == Test({"area", "side"}, "IMAGE_TOO_LARGE", frees)

\* Fault: the row pointers go before the last call that may jump.
DecodeJpegRowsEarly ==
    <<Create({"codec"}), Jumping({"header"}), Test({"tables"}, "CORRUPT_DATA", {"codec"}), TestArea({"codec"}),
      Jumping({}), Get({"output", "rows"}, {"codec", "output", "rows"}), Register({"output", "rows"}),
      Free({"rows"}), Jumping({"pixels"}), Free({"codec"}), Return({"output"})>>

\* ph_decode_jpeg_mem(): `output` and `rows` are themselves the volatile variables.
DecodeJpeg ==
    <<Create({"codec"}), Jumping({"header"}), Test({"tables"}, "CORRUPT_DATA", {"codec"}), TestArea({"codec"}),
      Jumping({}), Get({"output", "rows"}, {"codec", "output", "rows"}), Register({"output", "rows"}),
      Jumping({"pixels"}), Free({"codec", "rows"}), Return({"output"})>>

\* A color image asked for as gray is folded row by row unless it is interlaced.
PngRows ==
    <<Get({"row"}, {"data", "codec", "info"}), Register({"row"}), Jumping({"pixels"}),
      Unregister({"row"}), Free({"row"}), Free({"codec", "info"})>>

PngImage(decoded) ==
    (IF decoded = {} THEN <<>> ELSE <<Get(decoded, {"data", "codec", "info"}), Register(decoded)>>) \o
    <<Get({"row_ptrs"}, {"data", "codec", "info"} \cup decoded), Register({"row_ptrs"}), Jumping({"pixels"}),
      Free({"row_ptrs"}), Free({"codec", "info"})>> \o
    (IF decoded = {} THEN <<>> ELSE <<Free(decoded)>>)

PngPixels ==
    IF gray /\ file.color THEN (IF file.interlaced THEN PngImage({"decoded"}) ELSE PngRows)
                          ELSE PngImage({})

PngHeader ==
    <<Get({"codec"}, {}), Get({"info"}, {"codec"}), Register({"info"}), Jumping({"header", "side"}),
      TestArea({"codec", "info"}), Jumping({}), Get({"data"}, {"codec", "info"})>>

\* Fault: the jump branch does not know of the image.
DecodePngUnregistered == PngHeader \o PngPixels \o <<Return({"data"})>>

\* ph_decode_png_mem()
DecodePng == PngHeader \o <<Register({"data"})>> \o PngPixels \o <<Return({"data"})>>

\* ph_decode_webp_mem(): no jumps; "abi": libwebp is not the version of its header.
DecodeWebp ==
    <<Test({"header"}, "CORRUPT_DATA", {}), TestArea({}), Get({"output"}, {}),
      Test({"abi"}, "DECODER_UNAVAILABLE", {"output"}), Calling({"pixels"}, {"output"})>> \o
    (IF gray THEN <<Get({"folded"}, {"output"}), Free({"output"}), Return({"folded"})>>
             ELSE <<Return({"output"})>>)

\* ph_decode_stb_mem(), ph_stb_normalise_channels(): folding is done in place,
\* expanding gray to color is not.
DecodeStb ==
    <<Test({"wide"}, "IMAGE_TOO_LARGE", {}), TestArea({}),
      Calling({"header", "tables", "pixels", "unknown", "too_large"}, {}), Create({"pixels"})>> \o
    (IF ~gray /\ ~file.color
     THEN <<Get({"expanded"}, {"pixels"}), Free({"pixels"}), Return({"expanded"})>>
     ELSE <<Return({"pixels"})>>)

\* The table `backends`: the first one that can read the file decides.
Backend ==
    CASE native /\ file.format = "jpeg" -> DecodeJpeg
      [] native /\ file.format = "png"  -> DecodePng
      [] native /\ file.format = "webp" -> DecodeWebp
      [] OTHER                          -> DecodeStb

-----------------------------------------------------------------------------
Step     == Head(todo)
At(kind) == status = "decoding" /\ Step.do = kind

Advance == todo' = Tail(todo) /\ UNCHANGED <<file, native, gray, message, status>>

\* The call is over: the code, and the text for err_msg.
Answer(code, text) ==
    /\ status' = code
    /\ message' = text
    /\ todo' = <<>>
    /\ UNCHANGED <<file, native, gray>>

\* Before any backend: length, PNG dimensions, and WebP without its decoder, which
\* stb_image declines.
Refuse ==
    /\ status = "called"
    /\ \/ file.defect = "long" /\ Answer("IMAGE_TOO_LARGE", "IMAGE_TOO_LARGE")
       \/ file.defect = "wide" /\ file.format = "png" /\ Answer("IMAGE_TOO_LARGE", "IMAGE_TOO_LARGE")
       \/ /\ file.defect # "long" /\ file.format = "webp" /\ ~native
          /\ Answer("DECODER_UNAVAILABLE", "DECODER_UNAVAILABLE")
    /\ UNCHANGED <<held, cleanup>>

Dispatch ==
    /\ status = "called"
    /\ file.defect # "long" /\ ~(file.defect = "wide" /\ file.format = "png")
    /\ file.format = "webp" => native
    /\ todo' = Backend
    /\ status' = "decoding"
    /\ UNCHANGED <<file, native, gray, held, cleanup, message>>

\* What the code and the message become when libpng reports `code`, which a warning
\* about the user limits has preceded or not.  Fault: the text of the last report wins.
PngReportLast(warned, code) == <<IF warned THEN "IMAGE_TOO_LARGE" ELSE code, code>>

PngReport(warned, code) == IF warned THEN <<"IMAGE_TOO_LARGE", "IMAGE_TOO_LARGE">> ELSE <<code, code>>

\* error_exit() or png_error_fn(), and the setjmp() branch.
Jump(code) ==
    LET report == IF file.format = "png" THEN PngReport(file.defect = "side" /\ code # "ALLOCATION_FAILED", code)
                                         ELSE <<code, code>>
    IN  /\ held' = held \ (cleanup \cup {"codec"})
        /\ Answer(report[1], report[2])

Fail(code) ==
    IF Step.jumps THEN Jump(code)
    ELSE held' = held \ Step.frees /\ Answer(code, code)

\* What is wrong with the container may be met with the pixels, or already with the
\* header; a header with a defect of its own is there to be read.
Finds(step) ==
    \/ file.defect \in step.finds
    \/ Trouble /\ "pixels" \in step.finds
    \/ Trouble /\ "header" \in step.finds /\ file.defect = "none"

Misses(step) ==
    /\ file.defect \notin step.finds
    /\ native /\ "pixels" \in step.finds => ~Trouble

CallFails ==
    /\ At("call") /\ Finds(Step)
    /\ Fail(CASE file.defect = "unknown"   -> "UNSUPPORTED_FORMAT"
              [] file.defect = "too_large" -> "IMAGE_TOO_LARGE"
              [] OTHER                     -> "CORRUPT_DATA")
    /\ UNCHANGED cleanup

CallRunsOut == At("call") /\ Fail("ALLOCATION_FAILED") /\ UNCHANGED cleanup

CallSucceeds == At("call") /\ Misses(Step) /\ Advance /\ UNCHANGED <<held, cleanup>>

TestFails  == At("test") /\ Finds(Step) /\ Fail(Step.error) /\ UNCHANGED cleanup

TestPasses == At("test") /\ Misses(Step) /\ Advance /\ UNCHANGED <<held, cleanup>>

GetAll == (At("get") \/ At("create")) /\ held' = held \cup Step.what /\ Advance /\ UNCHANGED cleanup

GetFails ==
    /\ At("get")
    /\ \E some \in SUBSET Step.what : some # Step.what /\ held' = (held \cup some) \ Step.frees
    /\ Answer("ALLOCATION_FAILED", "ALLOCATION_FAILED")
    /\ UNCHANGED cleanup

GiveBack == At("free") /\ held' = held \ Step.what /\ Advance /\ UNCHANGED cleanup

SetCleanup ==
    /\ \/ At("register") /\ cleanup' = cleanup \cup Step.what
       \/ At("unregister") /\ cleanup' = cleanup \ Step.what
    /\ Advance
    /\ UNCHANGED held

\* ph_container_truncation(): "whole" or the kind of refusal.
Truncation ==
    CASE file.format = "jpeg" -> IF JpegReachesEoi(file.container) THEN "whole" ELSE "truncated"
      [] file.format = "png"  -> PngCheck(file.container, ~native)
      [] file.format = "webp" -> IF RiffComplete(file.container) THEN "whole" ELSE "truncated"
      [] OTHER                -> "whole"

\* Fault: the refused image is not freed.
JudgeKeeping ==
    /\ At("return")
    /\ IF file.defect = "zero" \/ Truncation # "whole"
       THEN UNCHANGED held /\ Answer("CORRUPT_DATA", "CORRUPT_DATA")
       ELSE UNCHANGED held /\ Answer("SUCCESS", "none")
    /\ UNCHANGED cleanup

\* ph_decode_buffer() judges what a backend has decoded.
Judge ==
    /\ At("return")
    /\ IF file.defect = "zero" \/ Truncation # "whole"
       THEN held' = held \ Step.what /\ Answer("CORRUPT_DATA", "CORRUPT_DATA")
       ELSE UNCHANGED held /\ Answer("SUCCESS", "none")
    /\ UNCHANGED cleanup

Finished == status \notin {"called", "decoding"}

Done == Finished /\ UNCHANGED vars

Init ==
    /\ file \in Files
    /\ native \in BOOLEAN /\ (file.format = "other" => ~native)
    /\ gray \in BOOLEAN
    /\ todo = <<>> /\ held = {} /\ cleanup = {}
    /\ message = "none" /\ status = "called"

Next ==
    \/ Refuse \/ Dispatch \/ CallFails \/ CallRunsOut \/ CallSucceeds \/ TestFails \/ TestPasses
    \/ GetAll \/ GetFails \/ GiveBack \/ SetCleanup \/ Judge \/ Done

Spec == Init /\ [][Next]_vars

-----------------------------------------------------------------------------
Images == {"output", "data", "folded", "pixels", "expanded"}

\* Everything allocated is freed once: whenever a library call may jump, what the
\* jump branch frees is still allocated, and so is what any other step frees; and
\* however a decode ends, it has given back everything, but for the one buffer it
\* returns with PH_SUCCESS.
FreedOnce ==
    /\ Finished =>
          IF status = "SUCCESS" THEN \E image \in Images : held = {image} ELSE held = {}
    /\ At("call") /\ Step.jumps => cleanup \cup {"codec"} \subseteq held
    /\ At("free") => Step.what \subseteq held
    /\ At("test") \/ At("call") => Step.frees \subseteq held

\* No pixel buffer exists for an image over the limits (the contract of the
\* backends in loader.h: the header is judged before a buffer is allocated).
LimitsComeFirst == file.defect \in {"long", "wide", "area", "side"} => held \subseteq {"codec", "info"}

\* The answer for a file, in every build that can decode its format.
Verdict ==
    IF file.defect \in {"long", "wide", "area", "side", "too_large"} THEN "IMAGE_TOO_LARGE"
    ELSE IF file.defect = "unknown" THEN "UNSUPPORTED_FORMAT"
    ELSE IF file.defect = "abi" THEN "DECODER_UNAVAILABLE"
    ELSE IF \/ file.defect \in {"header", "tables", "pixels", "zero"} \/ ~Complete
            \/ file.format = "png" /\ ~PngSound(file.container)
         THEN "CORRUPT_DATA"
    ELSE "SUCCESS"

LateDamage == native /\ file.format = "png" /\ LibpngIsContent /\ ~PngSound(file.container)

\* The same file gets the same answer whether its decoder is the native one or
\* stb_image: a truncated or damaged file is refused by both, a whole one is loaded,
\* whatever bytes follow its end; and every error comes with a diagnostic of its own
\* kind, which a later generic report does not replace.  Left out of the first part:
\* memory that runs out, WebP without its decoder, and damage after the image data of
\* a PNG.
OneVerdict ==
    /\ Finished /\ ~LateDamage /\ (file.format = "webp" => native) =>
          status \in {Verdict, "ALLOCATION_FAILED"}
    /\ Finished => message = (IF status = "SUCCESS" THEN "none" ELSE status)

\* CHANGELOG.md: a bad checksum on a critical chunk returns PH_ERR_CORRUPT_DATA in
\* every build.
DamagedChunkRefused ==
    Finished /\ file.format = "png" /\ status = "SUCCESS" => PngSound(file.container)
=============================================================================
