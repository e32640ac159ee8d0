------------------------------ MODULE Compute ------------------------------
(***************************************************************************)
(* The ph_compute_*() functions of src/hashes/ and ph_compute_multi(): what *)
(* they take from the heap and from the context's arena, what every return  *)
(* path gives back, and when the caller's output is written.  A function is *)
(* the sequence of its steps; the numbers it computes are left out.         *)
(*                                                                         *)
(* Any allocation may fail.  The tests of parameters that the setters have  *)
(* already made may fail too: the model leaves the configuration open.      *)
(***************************************************************************)
EXTENDS Integers, Sequences

\* loaded, color: the image (color: three channels); large: both sides are at
\* least PH_AREA_GRID; divides: the configured pHash and BMH sizes divide it;
\* full: whash_mode is PH_WHASH_FULL.
Options == [loaded : BOOLEAN, color : BOOLEAN, large : BOOLEAN, divides : BOOLEAN, full : BOOLEAN]

VARIABLES
    options,    \* the image and the configuration, fixed while computing
    todo,       \* the steps left of the function that runs
    queue,      \* ph_compute_multi(): the algorithms that follow it
    heap,       \* heap blocks allocated: temporaries, "gray" and a valid "grid"
    blocks,     \* arena blocks handed out
    live,       \* the arena pointers that still point into its buffer
    slots,      \* the caller's outputs, in order: "callers" or "written"
    status      \* of the last call, "none" while it runs

resources == <<heap, blocks, live>>
vars      == <<options, todo, queue, resources, slots, status>>

-----------------------------------------------------------------------------
\* The kinds of steps.  `frees` and `releases` are what a failing step gives back
\* before it returns.
StepOf(kind, what, frees, rel, error) ==
    [do |-> kind, what |-> what, frees |-> frees, releases |-> rel, error |-> error]

Test(error)              == StepOf("test", {}, {}, FALSE, error)
TestReleasing(error)     == StepOf("test", {}, {}, TRUE, error)
Take(what, frees, rel)   == StepOf("take", what, frees, rel, "none")
Arena(what, frees)       == StepOf("arena", what, frees, FALSE, "none")
Resize(what, frees, rel) == StepOf("resize", what, frees, rel, "none")
Plain(kind, what)        == StepOf(kind, what, {}, FALSE, "none")
Use(what)                == Plain("use", what)
Free(what)               == Plain("free", what)
Release                  == Plain("release", {})
Write                    == Plain("write", {})

\* ph_get_gray() at the beginning of a function or of ph_area_downscale().
Gray(rel) ==
    IF options.color /\ "gray" \notin heap THEN <<Take({"gray"}, {}, rel)>> ELSE <<>>

\* ph_area_sums(), for a caller that holds `held` and gives it back on failure.
Sums(held, rel) ==
    <<Take({"cols", "row"}, {"cols", "row"} \cup held, rel), Use({"gray", "cols", "row"}),
      Free({"cols", "row"})>>

\* ph_area_downscale(): through the shared grid, built on first use, or directly.
Downscale(divides, rel) ==
    Gray(rel) \o
    IF options.large /\ divides
    THEN (IF "grid" \in heap THEN <<>> ELSE Sums({}, rel) \o <<Plain("valid", {})>>) \o <<Use({"grid"})>>
    ELSE <<Take({"sums"}, {"sums"}, rel)>> \o Sums({"sums"}, rel) \o <<Use({"sums"}), Free({"sums"})>>

\* The blur of ph_compute_mhash() and ph_compute_radial_hash().
Blur == Gray(FALSE) \o
    <<Take({"blurred", "blur_scratch"}, {"blurred", "blur_scratch"}, FALSE),
      Use({"gray", "blurred", "blur_scratch"}), Free({"blur_scratch"})>>

Ahash == Downscale(TRUE, FALSE) \o <<Write>>

Dhash == Gray(FALSE) \o <<Resize({"gray"}, {}, FALSE), Write>>

Phash ==
    <<Test("INVALID_ARGUMENT"), Arena({"scratch"}, {})>> \o Downscale(options.divides, TRUE)
        \o <<TestReleasing("INVALID_ARGUMENT"), Use({"scratch"}), Write, Release>>

Whash ==
    IF options.full
    THEN Gray(FALSE) \o <<Arena({"scratch"}, {}), Resize({"gray", "scratch"}, {}, TRUE), Use({"scratch"}),
                          Write, Release>>
    ELSE Downscale(TRUE, FALSE) \o <<Write>>

Bmh ==
    <<Test("INVALID_ARGUMENT"), Arena({"block_data"}, {})>> \o Downscale(options.divides, TRUE)
        \o <<Use({"block_data"}), Write, Release>>

\* Faults: the resized image has an arena block of its own, requested last; a
\* failed resize keeps the blurred image.
MhashInTwoBlocks ==
    <<Test("INVALID_ARGUMENT")>> \o Blur \o
    <<Arena({"work"}, {"blurred"}), Arena({"norm"}, {"blurred"}), Resize({"blurred", "norm"}, {"blurred"}, TRUE),
      Free({"blurred"}), TestReleasing("INVALID_ARGUMENT"), Use({"work", "norm"}), Write, Release>>

MhashKeepingBlurred ==
    <<Test("INVALID_ARGUMENT")>> \o Blur \o
    <<Arena({"work", "norm"}, {"blurred"}), Resize({"blurred", "norm"}, {}, TRUE), Free({"blurred"}),
      TestReleasing("INVALID_ARGUMENT"), Use({"work", "norm"}), Write, Release>>

\* One arena request for both buffers.
Mhash ==
    <<Test("INVALID_ARGUMENT")>> \o Blur \o
    <<Arena({"work", "norm"}, {"blurred"}), Resize({"blurred", "norm"}, {"blurred"}, TRUE), Free({"blurred"}),
      TestReleasing("INVALID_ARGUMENT"), Use({"work", "norm"}), Write, Release>>

\* Fault: the digest is begun before the transform is known to have worked.
RadialWritingEarly(flat) ==
    <<Test("INVALID_ARGUMENT")>> \o Blur \o
    <<Arena({"variances"}, {"blurred"}), Use({"blurred", "variances"}), Write, Use({"variances"}), Release,
      Free({"blurred"}), Test("INVALID_ARGUMENT")>>

\* A vector without spread gives an all-zero digest; another one is transformed,
\* and everything is given back before the transform's status is looked at.
Radial(flat) ==
    <<Test("INVALID_ARGUMENT")>> \o Blur \o
    <<Arena({"variances"}, {"blurred"}), Use({"blurred", "variances"})>> \o
    (IF flat THEN <<Release, Free({"blurred"}), Write>>
             ELSE <<Use({"variances"}), Release, Free({"blurred"}), Test("INVALID_ARGUMENT"), Write>>)

\* A gray image has no colors to bin; nothing after that test can fail.
ColorHash    == <<Test(IF options.color THEN "none" ELSE "REQUIRES_COLOR"), Write>>
ColorMoments == <<Test(IF options.color THEN "none" ELSE "REQUIRES_COLOR"), Write>>

Program(algorithm, flat) ==
    CASE algorithm = "ahash"   -> Ahash
      [] algorithm = "dhash"   -> Dhash
      [] algorithm = "phash"   -> Phash
      [] algorithm = "whash"   -> Whash
      [] algorithm = "bmh"     -> Bmh
      [] algorithm = "mhash"   -> Mhash
      [] algorithm = "radial"  -> Radial(flat)
      [] algorithm = "color"   -> ColorHash
      [] algorithm = "moments" -> ColorMoments

\* The algorithms of a call, in the order ph_compute_multi() runs them.
Single == {<<a>> : a \in {"ahash", "dhash", "phash", "whash", "bmh", "mhash", "radial", "color", "moments"}}
Multi  == {a \o d \o p \o w : a \in {<<>>, <<"ahash">>}, d \in {<<>>, <<"dhash">>},
                             p \in {<<>>, <<"phash">>}, w \in {<<>>, <<"whash">>}} \ {<<>>}

-----------------------------------------------------------------------------
Running == status = "none"
Step    == Head(todo)
At(kind) == Running /\ todo # <<>> /\ Step.do = kind

\* The call returns an error: ph_compute_multi() stops at the first one.  `got` is
\* what the failing step did get.
FailWith(error, got) ==
    /\ heap' = (heap \cup got) \ Step.frees
    /\ IF Step.releases THEN blocks' = 0 /\ live' = {} ELSE UNCHANGED <<blocks, live>>
    /\ status' = error
    /\ todo' = <<>> /\ queue' = <<>>
    /\ UNCHANGED <<options, slots>>

Fail(error) == FailWith(error, {})

Advance == todo' = Tail(todo) /\ UNCHANGED <<options, queue, status>>

\* A call with valid pointers, on an image that is loaded or not.
Call(algorithms) ==
    /\ ~Running
    /\ slots' = [k \in 1..Len(algorithms) |-> "callers"]
    /\ IF options.loaded
       THEN /\ \E flat \in BOOLEAN : todo' = Program(Head(algorithms), flat)
            /\ queue' = algorithms
            /\ status' = "none"
       ELSE status' = "EMPTY_IMAGE" /\ UNCHANGED <<todo, queue>>
    /\ UNCHANGED <<options, resources>>

\* NULL pointers, no flag or an unknown one.
CallRefused ==
    /\ ~Running
    /\ slots' = <<"callers">>
    /\ status' = "INVALID_ARGUMENT"
    /\ UNCHANGED <<options, todo, queue, resources>>

TestPasses == At("test") /\ Step.error # "REQUIRES_COLOR" /\ Advance /\ UNCHANGED <<resources, slots>>
TestFails  == At("test") /\ Step.error # "none" /\ Fail(Step.error)

\* malloc() of every block of the step, or of some of them only.
TakeAll ==
    /\ At("take")
    /\ heap' = heap \cup Step.what
    /\ Advance
    /\ UNCHANGED <<blocks, live, slots>>

TakeFails ==
    /\ At("take")
    /\ \E some \in SUBSET Step.what : some # Step.what /\ FailWith("ALLOCATION_FAILED", some)

\* ph_get_scratchpad(): if the buffer is replaced, what was handed out earlier
\* still exists, but the pointers to it do not.
GetBlock ==
    /\ At("arena")
    /\ blocks' = blocks + 1
    /\ live' \in {Step.what, live \cup Step.what}
    /\ Advance
    /\ UNCHANGED <<heap, slots>>

GetBlockFails == At("arena") /\ Fail("ALLOCATION_FAILED")

\* ph_area_downscale() marks the grid valid.
SetValid == At("valid") /\ heap' = heap \cup {"grid"} /\ Advance /\ UNCHANGED <<blocks, live, slots>>

Compute == (At("use") \/ At("resize")) /\ Advance /\ UNCHANGED <<resources, slots>>

\* stb_image_resize2 allocates and may fail.
ResizeFails == At("resize") /\ Fail("ALLOCATION_FAILED")

GiveBack ==
    \/ At("free") /\ heap' = heap \ Step.what /\ Advance /\ UNCHANGED <<blocks, live, slots>>
    \/ At("release") /\ blocks' = 0 /\ live' = {} /\ Advance /\ UNCHANGED <<heap, slots>>

\* The slot of the algorithm that runs: out[idx].
Slot == Len(slots) - Len(queue) + 1

WriteOutput ==
    /\ At("write")
    /\ slots' = [slots EXCEPT ![Slot] = "written"]
    /\ Advance
    /\ UNCHANGED resources

\* The function returns PH_SUCCESS, to the caller or to ph_compute_multi().
Succeed ==
    /\ Running /\ todo = <<>>
    /\ queue' = Tail(queue)
    /\ IF queue' = <<>> THEN status' = "SUCCESS" /\ UNCHANGED todo
                        ELSE todo' = Program(Head(queue'), FALSE) /\ UNCHANGED status
    /\ UNCHANGED <<options, resources, slots>>

Init ==
    /\ options \in Options
    /\ todo = <<>> /\ queue = <<>>
    /\ heap = {} /\ blocks = 0 /\ live = {}
    /\ slots = <<>>
    /\ status = "SUCCESS"

Next ==
    \/ \E algorithms \in Single \cup Multi : Call(algorithms)
    \/ CallRefused
    \/ TestPasses \/ TestFails \/ TakeAll \/ TakeFails \/ GetBlock \/ GetBlockFails \/ SetValid
    \/ Compute \/ ResizeFails \/ GiveBack \/ WriteOutput \/ Succeed

Spec == Init /\ [][Next]_vars

-----------------------------------------------------------------------------
Temporaries == {"sums", "cols", "row", "blurred", "blur_scratch"}

\* No step works on a buffer that is not allocated, was freed, or may have moved
\* when the arena grew after it was handed out; and whatever step fails, a returned
\* computation has given back every temporary and every arena block.  The gray copy
\* and the grid stay for the next one.
BuffersInTurn ==
    /\ ~Running => heap \cap Temporaries = {} /\ blocks = 0
    /\ (At("use") \/ At("resize")) =>
        Step.what \subseteq heap \cup live \cup (IF options.color THEN {} ELSE {"gray"})

\* The caller's outputs tell where a call stopped: all are written after a success,
\* and after an error those before the algorithm that failed, no other.
Written == {k \in DOMAIN slots : slots[k] = "written"}

OutputsTellStatus ==
    ~Running => /\ (status = "SUCCESS") <=> (Written = DOMAIN slots)
                /\ \E k \in 0..Len(slots) : Written = 1..k
=============================================================================
