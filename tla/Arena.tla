------------------------------- MODULE Arena -------------------------------
(***************************************************************************)
(* The scratch arena of a context (src/arena.c): one growing buffer, blocks *)
(* handed out at increasing offsets, and marks that release them.  Sizes    *)
(* are size_t values: every sum and product wraps modulo SizeMax + 1, as    *)
(* the C expressions do, and the guards are the code's.                     *)
(***************************************************************************)
EXTENDS SizeT, Sequences

CONSTANTS
    Align,      \* PH_ARENA_ALIGNMENT, 32
    MinSize,    \* the smallest buffer allocated, 1024
    Sizes,      \* the sizes callers ask for
    MaxBlocks   \* bound: blocks handed out at a time

ASSUME ArenaAssumption ==
    /\ Align \in Nat \ {0} /\ MinSize \in Nat
    /\ Align <= MinSize /\ MinSize <= SizeMax - (Align - 1)
    /\ Sizes \subseteq 1..SizeMax
    /\ MaxBlocks \in Nat

VARIABLES
    buffer,     \* arena.buffer is not NULL
    capacity,   \* arena.capacity
    offset,     \* arena.offset
    buffers,    \* history: buffers allocated and not yet freed
    blocks,     \* the blocks handed out and not released, oldest first
    marks       \* the marks not yet released: the offset, and Len(blocks) then

arena     == <<buffer, capacity, offset>>
arenaVars == <<arena, buffers, blocks, marks>>

\* ph_arena_align_up()
AlignUp(x) == LET y == Wrap(x + (Align - 1)) IN y - (y % Align)

\* Faults: a buffer is trimmed while blocks are handed out, or never.
TrimsAlways(size) == buffer /\ capacity > Wrap(size * 4)
TrimsNever(size)  == FALSE

\* The automatic trim of ph_get_scratchpad(): nothing is handed out and the
\* buffer is more than four times the request.
Trims(size) == offset = 0 /\ buffer /\ capacity > Wrap(size * 4)

HasBuffer(size) == buffer /\ ~Trims(size)
Room(size)      == IF Trims(size) THEN 0 ELSE capacity
Left(size)      == IF Trims(size) THEN buffers - 1 ELSE buffers

Required(size) == Wrap(AlignUp(offset) + size)

\* Fault: only the rounding is checked, not the sum.
RoundingWraps(size) == AlignUp(offset) < offset

SumOverflows(size) == AlignUp(offset) < offset \/ size > SizeMax - AlignUp(offset)
Grows(size) == ~SumOverflows(size) /\ Room(size) < Required(size)

\* Fault: the replacement is sized from the request, forgetting what precedes it.
NewSizeOfRequest(size) == IF size < MinSize THEN MinSize ELSE size

\* What the replacement buffer must hold, before it is rounded up.
NewSize(size) ==
    LET twice  == Wrap(Room(size) * 2)
        wanted == IF Required(size) > twice THEN Required(size) ELSE twice
    IN  IF wanted < MinSize THEN MinSize ELSE wanted

NewBlock(size) == [start |-> AlignUp(offset), size |-> size, intact |-> TRUE]

\* The block fits into the buffer there is.
GetFromBuffer(size) ==
    /\ ~SumOverflows(size)
    /\ ~Grows(size)
    /\ offset' = Required(size)
    /\ blocks' = Append(blocks, NewBlock(size))
    /\ UNCHANGED <<buffer, capacity, buffers, marks>>

\* A larger buffer replaces the old one, from which `copied` bytes are taken and
\* of which `freed` buffers are given back.
Replace(size, copied, freed) ==
    /\ Grows(size)
    /\ NewSize(size) <= SizeMax - (Align - 1)
    /\ buffer' = TRUE
    /\ capacity' = AlignUp(NewSize(size))
    /\ buffers' = Left(size) + 1 - freed
    /\ offset' = Required(size)
    /\ blocks' = Append([b \in DOMAIN blocks |->
                            [blocks[b] EXCEPT !.intact = @ /\ blocks[b].start + blocks[b].size <= copied]],
                        NewBlock(size))
    /\ UNCHANGED marks

OldBuffers(size) == IF HasBuffer(size) THEN 1 ELSE 0
OldBytes(size)   == IF HasBuffer(size) THEN offset ELSE 0

\* Faults: nothing is copied; the old buffer is not freed.
GrowWithoutCopy(size) == Replace(size, 0, OldBuffers(size))
GrowLeaking(size)     == Replace(size, OldBytes(size), 0)

GetByGrowing(size) == Replace(size, OldBytes(size), OldBuffers(size))

\* NULL: the sum or the rounding overflows, or the allocator refuses.  The trim
\* has already happened.
GetFails(size) ==
    /\ SumOverflows(size) \/ Grows(size)
    /\ buffer' = HasBuffer(size)
    /\ capacity' = Room(size)
    /\ buffers' = Left(size)
    /\ UNCHANGED <<offset, blocks, marks>>

\* ph_get_scratchpad()
Get(size) ==
    /\ Len(blocks) < MaxBlocks
    /\ GetFromBuffer(size) \/ GetByGrowing(size) \/ GetFails(size)

\* ph_arena_mark()
Mark ==
    /\ Len(marks) < MaxBlocks
    /\ marks' = Append(marks, [offset |-> offset, count |-> Len(blocks)])
    /\ UNCHANGED <<arena, buffers, blocks>>

\* ph_arena_release(): brackets nest, but an outer one may be released alone.
Release(m) ==
    /\ offset' = marks[m].offset
    /\ blocks' = SubSeq(blocks, 1, marks[m].count)
    /\ marks' = SubSeq(marks, 1, m - 1)
    /\ UNCHANGED <<buffer, capacity, buffers>>

\* ph_arena_free(), as ph_free() calls it; the arena may be used again.  Fault: the
\* capacity is not reset.
FreeLeaving(left) ==
    /\ blocks = <<>> /\ marks = <<>>
    /\ buffer' = FALSE
    /\ capacity' = left
    /\ offset' = 0
    /\ buffers' = IF buffer THEN buffers - 1 ELSE buffers
    /\ UNCHANGED <<blocks, marks>>

FreeKeepingCapacity == FreeLeaving(capacity)
Free                == FreeLeaving(0)

ArenaInit ==
    /\ buffer = FALSE /\ capacity = 0 /\ offset = 0
    /\ buffers = 0
    /\ blocks = <<>> /\ marks = <<>>

ArenaNext ==
    \/ \E size \in Sizes : Get(size)
    \/ Mark
    \/ \E m \in DOMAIN marks : Release(m)
    \/ Free

ArenaSpec == ArenaInit /\ [][ArenaNext]_arenaVars

-----------------------------------------------------------------------------
Block == [start : 0..SizeMax, size : 1..SizeMax, intact : BOOLEAN]
Saved == [offset : 0..SizeMax, count : Nat]

\* The fields stay size_t values, and at most one buffer is allocated.
TypeOK ==
    /\ buffer \in BOOLEAN
    /\ capacity \in 0..SizeMax
    /\ offset \in 0..SizeMax
    /\ buffers \in {0, 1}
    /\ blocks \in Seq(Block)
    /\ marks \in Seq(Saved)

\* Every block handed out is aligned, lies inside the buffer, follows the one
\* before it, and still holds what its owner wrote, however often the buffer was
\* replaced and whatever wrapped around in the size computations; and what the arena
\* says it has is what is allocated, when a replacement failed after the trim too.
BlocksAreSound ==
    /\ \A b \in DOMAIN blocks :
          /\ blocks[b].start % Align = 0
          /\ blocks[b].start + blocks[b].size <= offset
          /\ blocks[b].intact
    /\ \A b, c \in DOMAIN blocks : b < c => blocks[b].start + blocks[b].size <= blocks[c].start
    /\ blocks # <<>> => buffer /\ offset <= capacity
    /\ buffers = (IF buffer THEN 1 ELSE 0)
    /\ buffer <=> capacity > 0

\* "Auto-trim on top-level calls only to prevent unbounded memory growth": what a
\* context keeps after a top-level request is at most four times that request, or
\* the smallest buffer, however large earlier requests were.
TopLevelBounded ==
    [][(blocks = <<>> /\ offset = 0 /\ blocks' # <<>>) =>
          \/ capacity' <= 4 * Head(blocks').size
          \/ capacity' <= AlignUp(MinSize)]_arenaVars

\* What src/arena.h says of ph_get_scratchpad(): "or NULL on failure (the arena
\* is then unchanged)".
FailureChangesNothing == [][(\E size \in Sizes : GetFails(size)) => UNCHANGED arena]_arenaVars
=============================================================================
