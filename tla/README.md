# libphash: specifications, checks and proofs

TLA+ models of libphash, a C17 library that decodes images and computes perceptual
hashes, kept beside its source. Every definition is a translation of the C code under
`src/src/` and `src/include/libphash.h`; `PROJECT.json` names, for each one, the lines it
stands for.

## 1. The system

| Component | State | Operations | Interacts with |
| --- | --- | --- | --- |
| Batch engine (`batch.c`) | `ph_batch_shared_t`: atomics `next`, `done`, `stop`, `workers_ready`; the caller's item array; one context per worker | `ph_hash_files_ex()`, `ph_hash_buffers_ex()` | contexts, loads, `ph_compute_multi()`, the callbacks `should_continue` and `on_progress`, threads |
| CPU count, cgroup quota (`batch.c`) | none | `ph_available_cpus()`, `ph_cgroup_cpu_limit()`, `ph_cpu_quota_limit()` | batch engine |
| Scratch arena (`arena.c`, `arena.h`) | buffer, capacity, offset | get, mark, release, free | every computation |
| Context (`core.c`, `config.c`, `context.h`) | the image, its gray copy, its area grid, the configuration, the error text | create, free, loads, setters, computations | file bytes, loader, orientation, color, resize |
| Once-only tables (`phash.c`, `loader.c`) | three spinlocks with a flag and a table each | DCT matrix, CRC tables, decoder warm-up | computations, loader, zlib-ng |
| File bytes (`fileio.c`) | descriptor, mapping or heap copy | open, read, map, release | context, other processes |
| Decoder dispatch (`loader.c`) | none between calls | `ph_decode_buffer()` | backends, container walkers |
| Container walkers (`loader.c`, `bytes.h`) | none | JPEG end of image, PNG chunks and CRCs, RIFF length | dispatch |
| Native backends (`loaders/*.c`) | decoder objects across `setjmp()` | probe, decode | libjpeg-turbo, libpng, libwebp, stb |
| EXIF orientation (`image/orient.c`) | none | tag scanners, eight transforms | context |
| Hash computations (`hashes/*.c`) | none; arena blocks, heap buffers | fourteen `ph_compute_*()` | gray copy, grid, arena, DCT matrix |
| Resizing and filters (`image/*.c`) | the grid | area, box, blur, gray | computations |
| Comparison and digests (`compare.c`, `digest.h`) | none | distances, correlation, hex | the caller |
| Configuration (`config.c`, `hashes.h`) | the configuration fields | defaults, thirteen setters | every computation |
| Limits and messages (`safety.h`), version | none | checked products, limits, the cut of a message | everything |

### What is hard about it

* **Threads.** Workers share four atomics and nothing else, and no lock: who gets which
  item, how much starts after a cancellation, what is reported, and whether the number in
  `next` may be trusted after the join are all questions about interleavings. Three tables
  are built on first use by whichever thread comes first.
* **Partial failure.** A thread, a context, an item, one algorithm of an item, the
  orientation of a decoded image, a trim followed by a failed allocation, a read that stops
  half-way: each leaves something behind that the next step has to find consistent.
* **Stale data.** The gray copy and the grid are derived from the image and the weights and
  kept between calls; the grid is never cleared, only marked invalid.
* **Width.** Arena sizes and positions along an image are `size_t` sums and products that
  may wrap; the mirrored copies wrap on purpose; the radial correlation is computed in
  three integer types of different widths.
* **Bytes from outside.** Files are cut anywhere, digests are structs filled in by hand,
  texts are malformed, and parameters come in any order.
* **Other processes.** A path may be renamed over and a file rewritten while it is loaded.

### What makes each component correct

* Batch: each item is processed once; the result is true of the array; nothing is written
  after the return; progress values are exact; a refusal bounds what still starts; a
  failing thread never looks like a cancellation; the call returns.
* Arena: blocks are aligned, disjoint, inside the buffer and keep their bytes; one buffer;
  trimmed only between top-level uses.
* Context: nothing derived outlives what it was derived from; a load succeeds whole or
  leaves no image.
* Once: one builder, whole tables, failures retried, nobody locked out.
* File bytes: one inode, no leak, no overrun, an end.
* Dispatch: one input has one verdict in every build, and limits come before content.
* Container walkers: a container is complete exactly if it is by the format's definition.
* Backends and computations: every return path, `longjmp()` included, frees what was taken,
  once; an output is written if and only if the call succeeds.
* Orientation: the tag that was written is found wherever the file is cut, and the copy
  shows every pixel where the EXIF definition puts it.
* Area means, histogram, correlation, blending, quota: equal to their definitions, for every
  size, inside the types they are computed in.
* Filters: every sample takes the samples its definition says, in the same order, wherever in
  a strip, a vector or at an edge it is; a sum of floats in another order is another sum.
* Bits of the hashes: compared with the mean or median, from the samples of the original and
  not from ones already overwritten; ties of wHash and mHash are left to rounding.
* Comparison and text: symmetric, refused exactly when the digests say so, and a round trip.
* Configuration: no sequence of accepted parameters leaves one that a computation refuses.

`PROJECT.json` lists the hazards behind these at their lines.

## 2. The modules

| Module | Models | State and actions |
| --- | --- | --- |
| `Batch` | one call of a batch function, from the argument check to the result | one variable per atomic; `pc` is the place of each thread; every access to an atomic and every callback is an action |
| `BatchContract` | what the call promises | items start in order, overlap, finish once; the verdict tells which |
| `BatchRefinement` | `Batch` implements `BatchContract` | `Contract` is the refinement mapping |
| `Batch_proofs` | theorems of `Batch` and `BatchRefinement` | |
| `SizeT` | `size_t` | `Wrap`; extended by `Arena`, `Orient`, `AreaMean` |
| `Arena` | the scratch arena | `ph_get_scratchpad()` in its three outcomes (fits, grows, fails), mark, release, free; sums and products wrap at `SizeMax` |
| `Context` | one context | loads, failed loads, setters, computations; a buffer is named by what it was computed from |
| `Context_proofs` | theorems of `Context` and `FileLoad` | |
| `OnceInit` | the three once-only tables | test, lock, test again, first and last write, flag, unlock, use |
| `Recursion` | lemmas on induction and recursion | stated on sets and functions, which the provers can instantiate: least elements, induction over `0..n`, recursive functions and the loops they stand for, quotients, sums over finite sets and over pairs |
| `FileLoad` | one load from a path at a time | open, check, map or read loop, decode, scan, release; another process renames and rewrites |
| `Compute` | one `ph_compute_*()` or `ph_compute_multi()` at a time | a computation is the sequence of its steps: test, take from the heap or the arena, use, free, release, write; any step that can fail may |
| `Compute_proofs` | theorems of `Compute` | |
| `Containers` | the walkers that decide whether a file reaches its own end | recursive functions on bytes, chunks and sizes, next to a definition of a complete container |
| `Decode` | one `ph_decode_buffer()` on a file, native or through stb | a backend is the sequence of its steps; library calls meet what is wrong with the file, run out of memory or succeed |
| `Decode_proofs` | theorems of `Containers` and `Decode` | |
| `Exif` | the scanners for the orientation tag | one function for each container and one for the TIFF directory, on the files of `Containers` |
| `Orient` | `ph_apply_exif_orientation()` | one action for each pixel or row copied; tile, position and the two offsets are variables |
| `Alpha` | `ph_resolve_alpha()` | one action for each byte written in place |
| `AreaMean` | `ph_area_downscale()` | functions: span, row sums, cell sums, shared grid, rounding |
| `ColorBins` | the colour histogram | functions: axes, tables, lanes, counts |
| `Correlation` | `ph_radial_similarity()` | one action for each term added and each shift compared, modulo the widths |
| `Digests` | the other metrics and the text forms | functions on digests as callers may fill them in |
| `Config` | the configuration | one action per setter |
| `Filters` | blur, equalisation, block sums, gray conversion | functions: which samples a tap takes, in order; integer sums and lookups |
| `GridHashes` | aHash, dHash, BMH, wHash, mHash's windows, the median threshold | functions from samples to the set of bits; levels made in place, one row after the other |
| `Quota` | the number of usable CPUs | functions on the words of the cgroup files |
| `Messages` | the cut of a diagnostic message, and of the path in one | functions on the kinds of bytes |
| `Algorithms_proofs` | theorems of `Arena`, `Orient`, `Alpha`, `Correlation`, `Config`, `Quota` and `OnceInit` | |
| `Calls_proofs` | theorems of `Messages`, `Digests`, `ColorBins`, `Filters`, `AreaMean` and `Exif` | |
| `GridHashes_proofs` | the theorem of `GridHashes` | |
| `Calls` | a caller of the functions that keep nothing | what was given and answered, until it has been looked at |
| `MC*` | instances for TLC | `MCAlgorithms` composes the arena and the algorithms, one call at a time |

Some actions are written as a parameterised form and its instance (`EndRow` is `EndRowThen`
with the loop's real step). The other instances of the form, and the definitions marked
"Fault:", are the program with a plausible bug; nothing uses them except the mutants
`PROJECT.json` lists, which show that each property would notice.

**Batch.** A worker's `ph_batch_worker_run()` is the cycle `create`, `announce`, `check`
(`stop`), `ask` (`should_continue`), `claim` (fetch-and-add on `next`), `load`, `compute`,
`count` (fetch-and-add on `done`), `notify`, and `stopping`, `free`, `exited`. The caller
is thread 0: `validate`, then `alloc`, `spawn` and the join, or, with one thread, the same
labels as a worker for `ph_batch_run_sequential()`, where `idx[0]` is the counter
`started`. Reading an item's bytes and hashing them is one choice of outcome; the state of
its hash slots is kept, because `ph_compute_multi()` can leave some written. The history
variables `starts`, `refused`, `late`, `afterStop` and `reported` are read by properties
only. The Windows branch waits in groups of 64 handles for the same threads and is not
modelled separately.

**Arena.** `blocks` and `marks` are what callers hold. `TrimsAlways`, `NewSize` and the
rest use the same expressions as the C code, modulo `SizeMax + 1`. A caller that keeps a
block across `ph_arena_free()` is excluded: only `ph_free()` calls it.

**Exif and Orient.** A JPEG is its bytes; a PNG or WebP file is its chunks and the length at
which it is cut; a directory is its entries. `TagFound` compares the scanners with what the
file was made of. Of an image `Orient` keeps every byte, named by where it was stored, so
that one wrong offset shows. Null pointers are not modelled, here or elsewhere.

**AreaMean.** Positions wrap as `size_t`, sums are exact: of an image with less than 2^31
pixels and a grid of at most 32 cells, the largest sum, 255 * 2^31 * 32^2, fits `uint64_t`.
`MeansAreExact` speaks of images whose positions fit `size_t`, which of 64 bits is every
one; what happens beyond is the run `area_strip`.

**Correlation.** `NothingWraps`, which is proved and in no run, states that no intermediate
value leaves its type; `PeakIsExact` is the consequence that callers see. The last division and root are floating
point; the model ends with the exact numerator and variances, for which `PeakIsExact` has
the bound that makes the quotient at most 1.

**Digests.** A digest may have a size beyond its array and a kind that has no name. A
distance is the sum of squares, a similarity its two integers.

**Config.** A refused setter is a step that changes nothing. Floating-point parameters are
integers in units that make the limits whole numbers; `ConfigurationUsable` repeats the
computations' own requirements (`ph_dct2_partial()`, `ph_mh_kernel()`, the blur's radius)
and not the setters' conditions.

**Filters.** Floating-point sums are kept as the samples their taps take; the values of the
kernels are left out, and so is the conversion back to bytes. Blocks of 32 outputs kept in
registers (`blur_taps()`) are the same sums. Equalisation has the 256 levels of its only
caller and the exact quotient that the `double` stands for. Vector lanes are the arm build's;
the other has none, and both are checked.

**GridHashes.** The wavelet's two factors of 1/sqrt(2) in a level are one division by 2, of
samples multiplied so that it is exact. What the `float`s round is added where it can matter,
as an error that each call chooses anew from `-within..within`: to each coefficient of
wHash's band (`Roundings`), the rounding of the median included, and to the mean of each of
mHash's windows (`off`). So the bit of a value that ties with its threshold, or nearly does,
is open, as `whash.c:30-34`, `docs/theory/whash.md:462-474` and `mhash.c:94-96` say it is. Two
things are not open, because the code makes them the same: coefficients that are computed by
the same operations from the same square have the same error (`whash.c:123-129`; the build
forbids contracted operations, `-ffp-contract=off`), as long as the image has not been taken
down to one coefficient and back; and an image of one value comes back as one value, all its
differences being exactly 0 (`tests/src/test_whash.c:126-150`). aHash, dHash and BMH compare
integers, and the samples of the median threshold are the `float`s themselves, whose halved
sum is taken for exact. Images arrive already brought to their
grid, which is `AreaMean`'s part. The loops are recursive functions: the insertion sort over
its rounds, the levels over `current_size`. A hash has at most 64 bits (`uint64_t`, and the 64
values that `ph_median_bitpack_margin()` accepts), which is why `HashSize` is 1, 2, 4 or 8.

**Quota.** A file is its words, each a sequence of digits, so that numbers longer than
`long long` occur; `LongMax` and `IntMax` are small.

**Context.** Pixels are their origin: the picture, whether it was turned upright, and for
derived buffers the weights. `width` and `height` are one number, `side`, because only the
comparison with the grid size matters. `ph_free()` ends a context and is left out.

**OnceInit.** `dispatch` says, for the whole behaviour, which table is meant: one of the
library's own, whose construction cannot fail, or zlib-ng's, which `ph_warm_decoder_dispatch()`
fills by decoding a small image while other threads are kept out. After a warm-up that
failed for want of memory, a caller goes on to decode and fills the table itself without
the lock (`UseCold`, `src/src/loader.c:365`): `ReadersSeeWhole` is therefore claimed only as
long as no warm-up has failed, and the comment in the code says as much.

**FileLoad.** `named` is what the path names, `length` and `version` what is in each
inode. `read()` may return any number of bytes up to what was asked and what the file has.
A mapping of a file that is made shorter kills the process with a signal when it is read
beyond the new end; the model reads whole versions and does not show that.

**Compute.** A failing step carries what the code gives back at that return. Marks are taken
with an empty arena: computations are outermost, as the trim of `Arena` needs it to be for `BlocksAreSound`. The
tests of parameters that the setters have already made may still fail in the model, which
leaves the configuration open. For the radial hash, whose flat images return early, flatness
is chosen when the call starts.

**Decode and Containers.** A file is its format, what is wrong with the image in it
(`defect`), and the container the walkers see. Which steps meet which defect is in the
steps; trouble in the container may be met with the header or with the pixels, because the
code does not say how far a library reads. Left out: empty buffers, which both callers
refuse; the warm-up, which is `OnceInit`; the mock backend of the tests; checks that only a
32-bit `size_t` can fail, and the JPEG component-count check; how libjpeg takes stray bytes
between segments. `OneVerdict` does not speak of PNG damage behind the image data: there
the builds differ, which is the finding of `decode_checksum`.

## 3. The runs

| Run | Question | Bounds |
| --- | --- | --- |
| `batch` | Does every call, well-formed or not, return and keep the contract; who writes what and when, what is reported, what starts after a refusal? | no item and one item on up to two threads, and two items on one, with every combination of arguments and callbacks; three items on two workers for the longest interleavings; the load error is the status that items are reset to |
| `batch_refusal` | Does no item start after `should_continue` answered 0? (it does) | three items, three workers |
| `arena_failure` | Does a failed request leave the arena unchanged? (it does not) | two blocks |
| `context` | Is everything derived current? | four pictures: gray, color with a tag, alpha, too small for the grid; two weights |
| `once` | One builder, whole tables, everybody proceeds? | three threads, two failed warm-ups |
| `file` | No leak, no overrun, one inode, an end? | two files of up to three bytes, a FIFO, two changes, one interrupted read |
| `file_snapshot` | Do decoder and scan see one snapshot? (not of a mapping) | one change |
| `compute` | Is everything given back, in turn, and the output true of the status? | none: every image and configuration, any number of calls, every failure |
| `decode` | No leak, no double free, limits first, one verdict? | JPEGs: three prefixes followed by up to four bytes of `FF D9 DA 00 02 D0`; PNGs: up to four chunks cut at every byte; WebPs around the stated size; every defect in a whole and in a cut container |
| `algorithms` | Are the arena's blocks sound and is memory bounded; does each algorithm give what its definition says? | arena: three blocks and marks, 6-bit `size_t`, sizes at the boundaries of alignment, trim, doubling and overflow; images up to 5 x 5 with tiles of 2 and a grid of 4; files cut at every byte; digests of up to 5 bytes with words of 2; images up to 8 x 8 under a radius of up to 3 with strips of 3, and vectors of 3 lanes; hashes of 2 x 2 bits from images up to 8 x 8, and of 2 x 2 windows of 2 x 2 blocks; messages of up to four bytes and paths of up to four characters; arguments at both sides of every limit |
| `area_strip` | Are the means those of the definition whatever the width of `size_t`? (they are not) | a strip of 30 pixels, 6-bit `size_t` |
| `decode_checksum` | Does a bad checksum on a critical chunk refuse the file in every build? (it does not) | as `decode`, shorter JPEGs |

*Why the bounds are enough.* Workers are symmetric and meet only at the four counters, so a
pair of workers shows every conflict of two accesses; three items let one worker finish an
item, hold a second and leave a third unclaimed. The proofs of section 5 cover any number
of workers and items for the properties they name. The arena's expressions are linear in
their sizes: 6 bits give every order of the compared quantities, wrapped or not. A context's
history matters only through its current image, configuration and caches, so the runs reach
every state, not only those of short sequences. The byte values in `decode` are one of each
class the JPEG walker tells apart, and a segment, a scan and an end marker inside a segment
all fit; `MaxChunk` is 127 instead of 2^31 - 1, which, as there, is more than the bytes any
file has.

The algorithms' boundaries are relative to constants, which the instances make small: a
tile of 2 has images of less than one, of one, and of more than two tiles a side; a grid of
4 has images below, at and above it and cell borders that cut pixels; a word of 2 bytes has
digests with and without a rest; 7-bit and 4-bit integers have quotas on both sides of
their ends; strips of 3 have rows of less than one, of one and of several, and a radius of 3
has images that lie wholly at an edge; a hash of 2 x 2 bits has wavelets of up to two levels in
place and three when the coarsest coefficient is removed. Rounding errors are of at most 1 where
one gray level of one pixel makes 4 or more (8 or more in all images larger than the hash), so
exactly the ties are open in the run, and every way to decide them is taken, the errors of
four coefficients being independent. The widths in the run are the smallest that
`Correlation`'s assumptions allow.

*Deadlock* is checked in all of them: a returned batch call has the step `Over`, the other
models always accept another call.

*Fairness.* `Batch!Fairness` is weak fairness of the caller and of each worker: the
operating system schedules every thread, and callbacks and decoders return. It does not
say how a callback answers. `OnceInit!FairSpec` is weak fairness of each thread that has
entered, except for turns of the spin loop; that suffices for `CallersProceed` because once
a table is built nobody takes the lock any more, and failures are bounded. `FileLoad!FairSpec`
is weak fairness of a load that has begun, apart from read errors; the other process owes
nothing.

## 4. Disagreements met

* `src/include/libphash.h:1080` promises that after one 0 from `should_continue` "no worker
  starts another item". Workers that have passed their own checks still do, at most one
  item each (`CancellationBoundsClaims`).
* `src/src/arena.h:39` promises that a failed request leaves the arena unchanged. The
  automatic trim has already freed the buffer.
* `src/src/fileio.c:234` promises one snapshot. A mapping follows the file; only the heap
  copy is a snapshot (`CopyIsOneSnapshot`).
* `src/README.md:78` promises "the same hash values" on 32-bit x86. `ph_load_from_pixels()`
  limits an image's pixels and not its sides, and `ph_area_span()` (`src/src/image/resize.c:46`)
  multiplies the width by the number of cells in `size_t`: a strip of 2^28 pixels wraps.
* `src/CHANGELOG.md:645` promises that a bad checksum on a critical chunk "returns
  `PH_ERR_CORRUPT_DATA` in every build". With libpng, nothing behind the image data is read
  (`src/src/loaders/png_libpng.c:378`), so an `IEND` with a bad checksum loads; without
  libpng it is refused.

## 5. The proofs

TLAPS checks the theorems below for every value of the constants. `PROJECT.json` lists them
with the property each one states.

**`Batch_proofs`**, under `BatchAssumption` (sizes are numbers, at least one thread, the
calls are of the type of the arguments, the load errors are error codes): `TypeCorrect`,
`ItemsProcessedOnce`, `ReturnIsQuiet`, `ResultIsTrue`, `HashesWholeOrZero`,
`CancellationIsBounded`, `ProgressIsExact`, `FinishedStaysFinished` and
`BatchImplementsContract`. What they say of a call is true of its end, or of one item; the
inductive invariant `IInv` adds what is true in between:

* `Places`: where each thread can be while the caller is where it is, and which contexts
  exist. `QuietAfterReturn` follows from it.
* `Claims`: an item in a thread's hands lies below `next` (or is the sequential loop's) and
  no two threads hold the same one; a started item was started once; none below is skipped.
  The fetch-and-add of the claim is what keeps it, and `EachItemOnce` follows.
* `Contents`: what the array holds: nothing past `n` is written, what was not started is as
  the reset left it, what is finished has all its hashes or none. `NoPartialHashes` follows.
* `Verdicts`: nobody stops unless a callback refused; while no context was announced
  nothing was claimed; once one was, somebody is at work or there is a reason to have left.
  This is why the caller may read the result off `workers_ready`, `stop` and `next` after
  the join. `ResultTellsItems` follows.

One lemma shows that steps keep each part, with one step of the proof per action.
`FinishedStaysFinished` is an action property that rests on the same invariant. Two of the
invariants need to count: `CancellationBoundsClaims` is inductive with the number of workers
that have passed their checks and may still claim (`Overrun`), and `ProgressExact` with the
number of items that are finished but not yet counted in `done` (`Tally`) and with who is about
to report each value that was counted (`Reports`). `BatchImplementsContract` shows, step by step, that each action is a step of
`BatchContract` under the refinement mapping or leaves the mapped state alone; `IInv` gives the
guards that the mapping needs.

**`Context_proofs`**, under `ContextAssumption` (pictures have a size; `None` is no weight,
buffer or outcome): all four invariants of `Context`. They are inductive together: that a
computation reads the current image rests on the caches being current.

Its second part is `FileLoad`'s, under `FileAssumption` (files are not FIFOs, bounds are
numbers): `FileTypeCorrect`, `NothingIsLeaked`, `BufferIsKept`, `OneSnapshotOfACopy`. The
additions say what a load holds at each of its places (`Held`: descriptor, mapping, buffer),
what has been established about the sizes by then (`Established`), and of which inode and
version the bytes that were read are (`Provenance`): the read loop may meet a file that has
changed since its size was taken, so that the buffer's bound rests on what was asked for and
not on the file.

**`Recursion`** holds what most of the following need. Induction theorems that take a
predicate as a parameter cannot be instantiated by the provers; stated of a *set* of natural
numbers that contains 0 and with each member the next, they can. From them follow: a
recursive function `f[x \in D] == e` exists and satisfies its equation, where every call
goes to a place of smaller measure; a loop that is written as such a function is the same
as its step repeated; a sum over a finite set of integers is an integer, has one more term when
a member is added, is bounded when its terms are, and the sum of pointwise sums is the sum of the
sums; it may be taken part by part, in another order, or over pairs by rows or by columns, and
a set is counted like that too. Quotients and remainders are in it because a number has one
of each, which is how the other modules compute them.

**`Decode_proofs`**: `JpegWalkIsRight` and `PngCheckIsRight` state of the two walkers, for
bytes and chunks of any number, what `Containers` defines as a complete file; both by
induction on what is left of the file. `DecodeFreesOnce` and `LimitsAreFirst` hold of every
backend because each is an instance of an outline, the objects held and known to the
jump branch before each of its steps (`Held`, `Known`): `Sound` says of a program that every step leads from
one line of the outline to the next and that every exit frees exactly what is held.
`VerdictIsOne` adds, for the two programs that run on the same file, what each step has already
ruled out (`Tells`, `Look`, `Judged`), and uses the two walkers. `DecodeAssumption` says of files what the
formats and the caller give: a JPEG is bytes, a PNG's chunks have lengths and its
`IDAT` stands before its `IEND`, and no PNG but one refused for its length is larger than
`MaxChunk`: that length is `PH_MAX_ENCODED_SIZE`, `INT_MAX` (`src/src/loader.c:576`), and the
limit of a PNG's chunk is 2^31 - 1.

**`Compute_proofs`**: `BuffersTakeTurns` and `OutputsMatchStatus`. Every algorithm is a
sequence of steps over a few buffers, and `ph_compute_multi()` one of such sequences of any
number and order. `Carries` judges a sequence as Hoare's logic does, from what is known before
it (which buffers there are, whether the output is written) to what is known after it. It is
shown for each algorithm and shown to compose; the invariant says that the steps that remain
are judged right for the buffers there are.

**`Algorithms_proofs`** has a part for each of seven modules.

* `Arena`, under `SizeAssumption` and `ArenaAssumption` (the alignment is at most the smallest
  buffer, which fits `size_t` rounded up: 32 and 1024 bytes in the code): `ArenaTypes`, `BlocksStaySound`,
  `TopLevelStaysBounded`, for every width of `size_t`. Release takes its offset from a mark,
  so the invariant needs `MarksAreSound`: a mark lies above the blocks it counts, below the
  offset, and above the marks before it. The lemmas on the way are about `%`: rounding up reaches a
  multiple, at most `Align - 1` further, or wraps to less.
* `Alpha`, under `AlphaAssumption` (pictures are bytes): `AlphaIsResolvedInPlace`. The
  result is shorter than its source and written over it; the invariant is that bytes not yet
  read have not been overwritten.
* `Orient`, under `OrientAssumption` (sides and channels are numbers, a tile is not empty):
  `ImagesAreTurned`, `CopiesStayInside`. The invariant says which pixels are already copied
  (`Done`), and that the two running offsets, one of which is decremented below zero and
  wraps, are modulo `SizeMax + 1` those of the pixel at hand (`Walk`).
  That no pixel is copied over another is the injectivity of row * stride + column * channels.
* `Config`, under `ConfigAssumption` (arguments are numbers; the power of one that is at least 1 is):
  `ConfigurationStaysUsable`. The invariant has the ranges that the computations need, part by
  part, and that the three weights have the sum 128 with no negative one: the third is
  what the other two, rounded down, leave.
* `Correlation`, under `CorrelationAssumption` (each type holds the largest value it is meant
  for: 255^2, 128 * 255^2, 128^2 * 255^2 in the code): `ScoreIsThePeak`, `WidthsSuffice`. The
  loops hold partial sums, and the peak is the largest covariance so far. The sums that are computed are those of products, the
  definition's those of deviations: the proof shows n times the one to be the other; the bound on the
  quotient is the inequality of Cauchy and Schwarz, from the sums of squares of combinations.
* `Quota`, under `QuotaAssumption` (`long long` is at least as wide as `int`):
  `CpusAreStrictest`, over `QuotaSpec`, a caller that asks for the number of CPUs with any
  files. A number that is read digit by digit is the one written, or too large for its type;
  by induction over the digits.

* `OnceInit`, under `OnceAssumption` (the bound on failures is a number): `OnceTypeCorrect`,
  `LockIsExclusive`, `TablesReadWhole`, `OneBuildPerSuccess`. The additions are
  `Progress` (what a thread at each label may assume: the builder that the flag is not set,
  one behind the lock that it is, unless a warm-up failed) and `Accounts` (builds that are
  neither under way nor published have failed).

**`Calls_proofs`** is about functions that keep nothing between calls. Each specification
(`MessagesSpec`, `DigestsSpec`, ...) is a caller that makes one call after another with any
arguments of the type, so that a theorem says of every call what a run checks of those
it enumerates.

* `Messages`: `CutsKeepCharacters`, of texts of any bytes, buffers of any size, and a path in a
  message. Where a UTF-8 text may be cut is seen from the byte behind the cut (`Starts`), and the
  text is whole exactly if every such byte begins a character that ends at the next one;
  the code, which steps back over at most three bytes, reaches the last of them in reach.
* `Digests`, under `DigestAssumption` (a word is not longer than a digest):
  `ComparisonsAlwaysAgree` and `TextsRoundTrip`, of digests that say of themselves what they
  like. Words and the bytes left over split the bits of a digest (`SumByParts`); a number is
  the sum of its bytes and of its nibbles, each of which is found again in it.
* `ColorBins`, under `ColorAssumption` (positive sizes, at most 256 bins): `HistogramsCount`, of
  any picture. The tables are right for each value of an axis, and the lanes partition the pixels.
* `Filters`: `FiltersAlwaysAsDefined`, of images of any size, every radius, kernel and strip
  length, and weights that add up to 128, which `ConfigurationStaysUsable` gives. The corners
  of an integral image differ by the sum of a rectangle; the cumulative histogram is the
  count of the values not above; no lane of 16 bits overflows.
* `AreaMean`, under `GridAssumption`: `MeansAreAlwaysExact`, of images and grids of any size whose
  positions fit `size_t` (`Representable`, which is part of the property; `area_strip` shows
  what happens else). What a pixel and a cell have in common is the length of an
  intersection of intervals; a cell that is k finer ones shares with each pixel what they
  do together, which makes the shared grid exact.
* `Exif`, under `ExifAssumption` (the mark is bytes): `TagAlwaysFound`, of PNG and WebP files of any
  chunks cut at any byte, JPEGs made of any parts (`MadeOf`: an Exif segment, a scan, any other
  segment, fill bytes, markers without a length) and cut anywhere, and TIFF blocks of any entries. The
  walk is followed from part to part: each place it visits is the start of one until it
  ends, so a block is found if and only if it was written before the end and is whole.

**`GridHashes_proofs`**, under `GridHashesAssumption`: `HashesAlwaysAsDefined`, of any samples for aHash, dHash and the
BMH histogram, blocks for mHash, up to 64 values with any `median_from` and margin, and
images of any `min_dim` for wHash in both modes, with and without the coarsest coefficient. The
calls of mHash and wHash have any positive bound of rounding and any errors up to it. What is
proved of their bits is what rounding leaves: a bit is set if its value is above the threshold by
more than the bound, and only if it is not below by as much; in a window of mHash a block that
has its bit has it together with all that are as large; at most half of wHash's bits are
set; and unless an image that is not of one value has its coarsest coefficient removed, squares
with the same contents have the same bit, so that an image of one value has none. Which bit a tie
gets is not claimed.

* The insertion sort ends with the values in order and with all of them, each once
  (`Reordered`); so the values at the two central ranks are the least and the largest that
  the definition calls the middle, however many are equal.
* The side of a wHash image is a power of two. That is stated without an operator on
  numbers: a member of every set that has 1 and twice each of its members (`PowerOfTwo`).
  By it the levels halve exactly as often as they can.
* A level of the wavelet is undone by its inverse, value by value (`LevelUndone`), and divisible
  samples stay so on the way down (`DownIsMultiple`); hence the removal lowers every
  sample by the same amount (`RemoveMaxLowers`), which changes no rank but by rounding.
* Values known up to a common shift and an error are ranked up to twice the error
  (`RoundedRanks`), and the bits above a median are known by rank (`BitsByRank`).
* A level made in place reads no row it has already replaced (`LevelLLIs`), and a corner that
  holds the sums of squares holds those of squares twice as wide after it
  (`LevelKeepsSums`). So the last band ranks like the sums, and the two modes agree with
  the one definition.
* mHash's bits are numbered by window and by block; the definition's count of the cells that
  come sooner is that number (`BitIsPlace`), by injections in both directions.

The type invariants, `CachesAreCurrent`, `OneInside` and `NothingWraps` are proved and not checked by
a run of their own.

Only model-checked: liveness (`CallReturns`, `OneWorkerSuffices`, `CallersProceed`,
`LoadEnds`), which is out of the prover's reach. Every invariant and every action property
that a passing run checks, and the refinement, is a theorem.

## 6. Not modelled, and the plan

Not modelled: the floating-point part of the hashes (the DCT, the values of the blur's and
Marr-Hildreth's kernels, radial projections, moments, gamma, bilinear sampling), and how
large the rounding errors of wHash and mHash are, which `GridHashes` takes as a parameter:
none of it has state, and neither TLC nor the provers have floating-point numbers; the
table of algorithm names and the version report, which are constant; the insides of libjpeg-turbo, libpng, libwebp, zlib-ng and stb; the pixel
transforms of the backends (unpacking, scaling while decoding); the Windows branches;
`ph_free()`; the getters; null pointers.

What could still be done: a model of the floating-point parts by intervals, from which the bound
of rounding would follow and the distance between the builds' hashes would be bounded; the scaling of the native JPEG backend,
with the samples it drops; and a proof of the four liveness properties, once a prover for
`ENABLED` is at hand.
