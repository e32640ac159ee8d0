-------------------------- MODULE Algorithms_proofs --------------------------
(***************************************************************************)
(* Theorems of the modules that keep something between steps or calls but    *)
(* for the larger ones: Arena, Alpha and Orient, for buffers, images and     *)
(* tiles of every size and every width of size_t; Config, for every argument *)
(* of the setters; Correlation, for digests of every length and every width  *)
(* of its integers; Quota, for every file of words and numbers of every      *)
(* length; and OnceInit, for any number of threads and of failures.          *)
(***************************************************************************)
EXTENDS Arena, Alpha, Orient, Config, Correlation, Quota, OnceInit, Recursion

-----------------------------------------------------------------------------
\* Arena.  BlocksAreSound is not inductive: ph_arena_release() takes the offset from a
\* mark, so what the marks say of the blocks below them is part of the invariant.
\* A mark lies above the blocks it counts and below the offset, and an inner mark is
\* above an outer one.
MarksAreSound ==
    /\ \A m \in DOMAIN marks :
          /\ marks[m].count <= Len(blocks)
          /\ marks[m].offset <= offset
          /\ \A b \in 1..marks[m].count : blocks[b].start + blocks[b].size <= marks[m].offset
    /\ \A m, o \in DOMAIN marks : m < o =>
          /\ marks[m].count <= marks[o].count
          /\ marks[m].offset <= marks[o].offset

ArenaInvariant == TypeOK /\ BlocksAreSound /\ MarksAreSound

-----------------------------------------------------------------------------
\* What is left of a number when the remainder is taken away is divisible.
LEMMA RemainderTaken ==
    ASSUME NEW y \in Nat, NEW a \in Nat \ {0}
    PROVE  /\ y % a \in 0..a-1
           /\ y - (y % a) \in 0..y
           /\ (y - (y % a)) % a = 0
<1>1. y % a \in 0..a-1 /\ y \div a \in Nat /\ y = a * (y \div a) + (y % a)
  BY SMT
<1>2. \A q \in Nat : (a * q) % a = 0
  BY SMT
<1>3. (a * (y \div a)) % a = 0
  BY <1>1, <1>2
<1>4. y - (y % a) = a * (y \div a)
  <2> DEFINE product == a * (y \div a)
  <2>1. y = product + (y % a) /\ product \in Int /\ y % a \in Int
    BY <1>1
  <2> HIDE DEF product
  <2>2. y - (y % a) = product
    BY <2>1
  <2> QED
    BY <2>2 DEF product
<1>5. y - (y % a) \in 0..y
  BY <1>1
<1>6. (y - (y % a)) % a = 0
  BY <1>3, <1>4
<1> QED
  BY <1>1, <1>5, <1>6

\* A size_t value is its own remainder.
LEMMA WrapKeeps ==
    ASSUME NEW o \in 0..SizeMax
    PROVE  Wrap(o) = o
BY SizeAssumption DEF Wrap

\* Every result is a size_t value.
LEMMA WrapTyping ==
    ASSUME NEW o \in Int
    PROVE  Wrap(o) \in 0..SizeMax
BY SizeAssumption DEF Wrap

\* Wrapping around never makes a number larger.
LEMMA WrapLowers ==
    ASSUME NEW o \in Nat
    PROVE  Wrap(o) <= o
BY SizeAssumption DEF Wrap

\* Rounding up gives an aligned size_t value; unless the sum wraps, which
\* ph_get_scratchpad() sees as a result below its argument, the value is the next
\* one, at most Align - 1 further.
LEMMA RoundingUp ==
    ASSUME NEW x \in 0..SizeMax
    PROVE  /\ AlignUp(x) \in 0..SizeMax
           /\ AlignUp(x) % Align = 0
           /\ x > SizeMax - (Align - 1) => AlignUp(x) < x
           /\ x <= SizeMax - (Align - 1) => AlignUp(x) \in x..(x + Align - 1)
<1> DEFINE y == Wrap(x + (Align - 1))
<1>1. Align \in Nat \ {0} /\ SizeMax \in Nat /\ Align - 1 <= SizeMax /\ x \in Nat
  BY SizeAssumption, ArenaAssumption
<1>2. y \in 0..SizeMax
  BY <1>1, WrapTyping
<1>3. /\ y % Align \in 0..Align-1
      /\ y - (y % Align) \in 0..y
      /\ (y - (y % Align)) % Align = 0
  BY <1>1, <1>2, RemainderTaken
<1>4. AlignUp(x) = y - (y % Align)
  BY DEF AlignUp
<1>5. CASE x <= SizeMax - (Align - 1)
  <2>1. y = x + (Align - 1)
    BY <1>1, <1>5, WrapKeeps
  <2> HIDE DEF y
  <2> DEFINE r == y % Align
  <2>2. r \in 0..Align-1 /\ AlignUp(x) = y - r
    BY <1>3, <1>4
  <2> HIDE DEF r
  <2>3. AlignUp(x) \in x..(x + Align - 1)
    BY <1>1, <2>1, <2>2
  <2> QED
    BY <1>1, <1>2, <1>3, <1>4, <1>5, <2>3
<1>6. CASE x > SizeMax - (Align - 1)
  <2>1. y = x + (Align - 1) - (SizeMax + 1)
    <3> DEFINE z == x + (Align - 1) - (SizeMax + 1)
    <3>1. z \in 0..SizeMax
      BY <1>1, <1>6
    <3>2. x + (Align - 1) = z + (SizeMax + 1)
      BY <1>1
    <3>3. (z + (SizeMax + 1)) % (SizeMax + 1) = z
      <4> HIDE DEF z
      <4> QED
        BY <1>1, <3>1
    <3> QED
      BY <3>2, <3>3 DEF Wrap
  <2>2. y < x
    BY <1>1, <2>1
  <2> HIDE DEF y
  <2> QED
    BY <1>1, <1>2, <1>3, <1>4, <1>6, <2>2
<1> QED
  BY <1>1, <1>5, <1>6

-----------------------------------------------------------------------------
\* A request whose sum does not overflow begins at the rounded offset, ends at the sum
\* itself, and both are size_t values.
LEMMA RequestFits ==
    ASSUME TypeOK, NEW size \in Sizes, ~SumOverflows(size)
    PROVE  /\ size \in 1..SizeMax
           /\ AlignUp(offset) \in offset..SizeMax
           /\ AlignUp(offset) % Align = 0
           /\ Required(size) = AlignUp(offset) + size
           /\ Required(size) \in size..SizeMax
<1>1. offset \in 0..SizeMax /\ SizeMax \in Nat /\ size \in 1..SizeMax
  BY SizeAssumption, ArenaAssumption DEF TypeOK
<1>2. AlignUp(offset) \in 0..SizeMax /\ AlignUp(offset) % Align = 0
  BY <1>1, RoundingUp
<1>3. AlignUp(offset) >= offset /\ size <= SizeMax - AlignUp(offset)
  BY <1>1, <1>2 DEF SumOverflows
<1>4. AlignUp(offset) + size \in size..SizeMax
  BY <1>1, <1>2, <1>3
<1>5. Required(size) = AlignUp(offset) + size
  BY <1>1, <1>4, WrapKeeps DEF Required
<1> QED
  BY <1>1, <1>2, <1>3, <1>4, <1>5

\* The buffer that replaces another holds the whole request.
LEMMA ReplacementFits ==
    ASSUME TypeOK, NEW size \in Sizes, Grows(size), NewSize(size) <= SizeMax - (Align - 1)
    PROVE  AlignUp(NewSize(size)) \in Required(size)..SizeMax
<1>1. Required(size) \in 1..SizeMax
  BY RequestFits DEF Grows
<1>2. Wrap(Room(size) * 2) \in 0..SizeMax
  <2>1. Room(size) \in Nat
    BY SizeAssumption DEF Room, TypeOK
  <2>2. Room(size) * 2 \in Int
    BY <2>1
  <2> QED
    BY <2>2, WrapTyping
<1>3. NewSize(size) \in Nat /\ NewSize(size) >= Required(size)
  BY <1>1, <1>2, ArenaAssumption, SizeAssumption DEF NewSize
<1>4. NewSize(size) \in 0..SizeMax
  BY <1>3, ArenaAssumption, SizeAssumption
<1>5. AlignUp(NewSize(size)) \in 0..SizeMax /\ AlignUp(NewSize(size)) >= NewSize(size)
  BY <1>4, RoundingUp
<1> QED
  BY <1>1, <1>3, <1>5, SizeAssumption

\* The buffer is trimmed only while nothing is handed out.
LEMMA TrimsNothing ==
    ASSUME ArenaInvariant, NEW size \in Sizes, Trims(size) \/ ~buffer
    PROVE  blocks = <<>> /\ \A m \in DOMAIN marks : marks[m].count <= 0
<1>1. blocks = <<>>
  <2> SUFFICES ASSUME blocks # <<>> PROVE FALSE
    OBVIOUS
  <2>1. 1 \in DOMAIN blocks /\ blocks[1] \in Block
    BY DEF ArenaInvariant, TypeOK
  <2>2. blocks[1].start + blocks[1].size <= offset /\ blocks[1].start >= 0 /\ blocks[1].size >= 1
    BY <2>1, SizeAssumption DEF ArenaInvariant, BlocksAreSound, Block
  <2>3. buffer /\ offset \in Nat
    BY SizeAssumption DEF ArenaInvariant, BlocksAreSound, TypeOK
  <2>4. offset = 0
    BY <2>3 DEF Trims
  <2>5. blocks[1].start \in Int /\ blocks[1].size \in Int
    BY <2>1, SizeAssumption DEF Block
  <2> QED
    BY <2>2, <2>4, <2>5
<1>2. \A m \in DOMAIN marks : marks[m].count <= 0
  BY <1>1 DEF ArenaInvariant, MarksAreSound
<1> QED
  BY <1>1, <1>2

\* A new block at the end of sound blocks, kept or copied, leaves them sound.
LEMMA OneMoreBlock ==
    ASSUME ArenaInvariant, NEW size \in Sizes, ~SumOverflows(size),
           offset' = Required(size),
           buffer' \in BOOLEAN, capacity' \in Required(size)..SizeMax,
           buffers' = 1, buffer',
           blocks' = Append(blocks, NewBlock(size)),
           marks' = marks
    PROVE  ArenaInvariant'
<1>1. /\ size \in 1..SizeMax /\ AlignUp(offset) \in offset..SizeMax /\ AlignUp(offset) % Align = 0
      /\ Required(size) = AlignUp(offset) + size /\ Required(size) \in size..SizeMax
  BY RequestFits DEF ArenaInvariant
<1>2. /\ offset \in 0..SizeMax /\ SizeMax \in Nat /\ blocks \in Seq(Block)
      /\ marks \in Seq(Saved)
  BY SizeAssumption DEF ArenaInvariant, TypeOK
<1>3. NewBlock(size) \in Block
  BY <1>1, <1>2 DEF NewBlock, Block
<1>4. /\ blocks' \in Seq(Block)
      /\ Len(blocks') = Len(blocks) + 1
      /\ DOMAIN blocks' = 1..Len(blocks) + 1
      /\ \A b \in 1..Len(blocks) : blocks'[b] = blocks[b]
      /\ blocks'[Len(blocks) + 1] = NewBlock(size)
  BY <1>2, <1>3
<1>5. TypeOK'
  BY <1>1, <1>2, <1>4 DEF ArenaInvariant, TypeOK
<1>6. \A b \in 1..Len(blocks) :
         /\ blocks[b] \in Block
         /\ blocks[b].start \in Nat /\ blocks[b].size \in Nat
         /\ blocks[b].start % Align = 0
         /\ blocks[b].start + blocks[b].size <= offset
         /\ blocks[b].intact
  <2> SUFFICES ASSUME NEW b \in 1..Len(blocks)
               PROVE  /\ blocks[b] \in Block
                      /\ blocks[b].start \in Nat /\ blocks[b].size \in Nat
                      /\ blocks[b].start % Align = 0
                      /\ blocks[b].start + blocks[b].size <= offset
                      /\ blocks[b].intact
    OBVIOUS
  <2>1. b \in DOMAIN blocks /\ blocks[b] \in Block
    BY <1>2
  <2>2. blocks[b].start \in Nat /\ blocks[b].size \in Nat
    BY <1>2, <2>1 DEF Block
  <2> QED
    BY <2>1, <2>2 DEF ArenaInvariant, BlocksAreSound
<1>7. BlocksAreSound'
  <2>1. (\A b \in DOMAIN blocks :
          /\ blocks[b].start % Align = 0
          /\ blocks[b].start + blocks[b].size <= offset
          /\ blocks[b].intact)'
    <3> SUFFICES ASSUME NEW b \in 1..Len(blocks) + 1
                 PROVE  /\ blocks'[b].start % Align = 0
                        /\ blocks'[b].start + blocks'[b].size <= offset'
                        /\ blocks'[b].intact
      BY <1>4
    <3>1. CASE b \in 1..Len(blocks)
      <4>1. blocks'[b] = blocks[b]
        BY <1>4, <3>1
      <4>2. /\ blocks[b].start \in Nat /\ blocks[b].size \in Nat
            /\ blocks[b].start % Align = 0 /\ blocks[b].start + blocks[b].size <= offset /\ blocks[b].intact
        BY <1>6, <3>1
      <4>3. offset <= offset' /\ offset \in Nat /\ offset' \in Nat
        BY <1>1, <1>2
      <4> QED
        BY <4>1, <4>2, <4>3
    <3>2. CASE b = Len(blocks) + 1
      BY <1>1, <1>4, <3>2 DEF NewBlock
    <3> QED
      BY <1>2, <3>1, <3>2
  <2>2. (\A b, c \in DOMAIN blocks : b < c => blocks[b].start + blocks[b].size <= blocks[c].start)'
    <3> SUFFICES ASSUME NEW b \in 1..Len(blocks) + 1, NEW c \in 1..Len(blocks) + 1, b < c
                 PROVE  blocks'[b].start + blocks'[b].size <= blocks'[c].start
      BY <1>4
    <3>0. b \in 1..Len(blocks) /\ blocks'[b] = blocks[b]
      BY <1>2, <1>4
    <3>1. CASE c \in 1..Len(blocks)
      BY <1>2, <1>4, <3>0, <3>1 DEF ArenaInvariant, BlocksAreSound
    <3>2. CASE c = Len(blocks) + 1
      <4>1. blocks'[c].start = AlignUp(offset)
        BY <1>4, <3>2 DEF NewBlock
      <4>2. /\ blocks[b].start \in Nat /\ blocks[b].size \in Nat
            /\ blocks[b].start + blocks[b].size <= offset
        BY <1>6, <3>0
      <4>3. AlignUp(offset) \in Int /\ offset \in Int /\ offset <= AlignUp(offset)
        BY <1>1, <1>2
      <4>4. blocks[b].start + blocks[b].size <= AlignUp(offset)
        BY <4>2, <4>3
      <4> QED
        BY <3>0, <4>1, <4>4
    <3> QED
      <4>1. Len(blocks) \in Nat
        BY <1>2
      <4> QED
        BY <4>1, <3>1, <3>2
  <2>3. (blocks # <<>> => buffer /\ offset <= capacity)' /\ (buffers = (IF buffer THEN 1 ELSE 0))'
        /\ (buffer <=> capacity > 0)'
    BY <1>1, <1>2
  <2> QED
    BY <2>1, <2>2, <2>3 DEF BlocksAreSound
<1>8. MarksAreSound'
  <2>1. offset <= offset'
    BY <1>1, <1>2
  <2>2. ASSUME NEW m \in DOMAIN marks
        PROVE  /\ marks[m].count <= Len(blocks')
               /\ marks[m].offset <= offset'
               /\ \A b \in 1..marks[m].count : blocks'[b].start + blocks'[b].size <= marks[m].offset
    <3>0. marks[m] \in Saved
      BY <1>2, <2>2
    <3>1. marks[m].count \in Nat /\ marks[m].offset \in Int /\ Len(blocks) \in Nat
      BY <1>2, <3>0 DEF Saved
    <3>2. /\ marks[m].count <= Len(blocks) /\ marks[m].offset <= offset
          /\ \A b \in 1..marks[m].count : blocks[b].start + blocks[b].size <= marks[m].offset
      BY <2>2 DEF ArenaInvariant, MarksAreSound
    <3>3. marks[m].offset <= offset' /\ marks[m].count <= Len(blocks')
      <4>1. offset \in Int /\ offset' \in Int
        BY <1>1, <1>2
      <4> QED
        BY <4>1, <1>4, <2>1, <3>1, <3>2
    <3>4. 1..marks[m].count \subseteq 1..Len(blocks)
      BY <1>2, <3>1, <3>2
    <3>5. \A b \in 1..marks[m].count : blocks'[b].start + blocks'[b].size <= marks[m].offset
      BY <1>4, <3>2, <3>4
    <3> QED
      BY <3>3, <3>5
  <2> QED
    BY <2>2 DEF ArenaInvariant, MarksAreSound
<1> QED
  BY <1>5, <1>7, <1>8 DEF ArenaInvariant

\* A block that fits into the buffer leaves the arena sound.
LEMMA FromBufferKeeps ==
    ASSUME ArenaInvariant, NEW size \in Sizes, GetFromBuffer(size)
    PROVE  ArenaInvariant'
<1>1. ~SumOverflows(size) /\ Room(size) >= Required(size) /\ Required(size) \in 1..SizeMax
  <2>1. ~SumOverflows(size) /\ ~(Room(size) < Required(size))
    BY DEF GetFromBuffer, Grows
  <2>2. Required(size) \in 1..SizeMax
    BY <2>1, RequestFits DEF ArenaInvariant
  <2>3. Room(size) \in Nat
    BY SizeAssumption DEF Room, ArenaInvariant, TypeOK
  <2> QED
    BY <2>1, <2>2, <2>3
<1>2. ~Trims(size) /\ Room(size) = capacity
  BY <1>1 DEF Room
<1>3. buffer /\ buffers = 1 /\ capacity \in Required(size)..SizeMax
  BY <1>1, <1>2, SizeAssumption DEF ArenaInvariant, TypeOK, BlocksAreSound
<1>4. /\ offset' = Required(size) /\ blocks' = Append(blocks, NewBlock(size))
      /\ buffer' = buffer /\ capacity' = capacity /\ buffers' = buffers /\ marks' = marks
  BY DEF GetFromBuffer
<1> QED
  BY <1>1, <1>3, <1>4, OneMoreBlock DEF ArenaInvariant, TypeOK

\* Neither a trim nor a replacement of the buffer loses what a block holds, or a buffer.
LEMMA GrowingKeeps ==
    ASSUME ArenaInvariant, NEW size \in Sizes, GetByGrowing(size)
    PROVE  ArenaInvariant'
<1>1. /\ Grows(size) /\ NewSize(size) <= SizeMax - (Align - 1)
      /\ buffer' = TRUE /\ capacity' = AlignUp(NewSize(size))
      /\ buffers' = Left(size) + 1 - OldBuffers(size) /\ offset' = Required(size) /\ marks' = marks
  BY DEF GetByGrowing, Replace
<1>2. ~SumOverflows(size)
  BY <1>1 DEF Grows
<1>3. capacity' \in Required(size)..SizeMax
  BY <1>1, ReplacementFits DEF ArenaInvariant
<1>4. buffers' = 1
  <2>1. buffers = (IF buffer THEN 1 ELSE 0)
    BY DEF ArenaInvariant, BlocksAreSound
  <2>2. Left(size) = OldBuffers(size) /\ OldBuffers(size) \in {0, 1}
    BY <2>1 DEF Left, OldBuffers, HasBuffer, Trims
  <2> QED
    BY <1>1, <2>2
<1>5. \A b \in DOMAIN blocks : blocks[b].start + blocks[b].size <= OldBytes(size)
  <2>1. CASE HasBuffer(size)
    BY <2>1 DEF OldBytes, ArenaInvariant, BlocksAreSound
  <2>2. CASE ~HasBuffer(size)
    <3>1. blocks = <<>>
      BY <2>2, TrimsNothing DEF HasBuffer
    <3> QED
      BY <3>1
  <2> QED
    BY <2>1, <2>2
<1>6. [b \in DOMAIN blocks |->
         [blocks[b] EXCEPT !.intact = @ /\ blocks[b].start + blocks[b].size <= OldBytes(size)]] = blocks
  <2>1. blocks \in Seq(Block)
    BY DEF ArenaInvariant, TypeOK
  <2>2. ASSUME NEW b \in DOMAIN blocks
        PROVE  [blocks[b] EXCEPT !.intact = @ /\ blocks[b].start + blocks[b].size <= OldBytes(size)]
               = blocks[b]
    <3>1. blocks[b] \in Block
      BY <2>1, <2>2
    <3>2. blocks[b].intact /\ blocks[b].start + blocks[b].size <= OldBytes(size)
      BY <1>5, <2>2 DEF ArenaInvariant, BlocksAreSound
    <3> DEFINE fits == blocks[b].start + blocks[b].size <= OldBytes(size)
    <3>3. fits = TRUE /\ blocks[b].intact = TRUE
      BY <3>1, <3>2 DEF Block
    <3> HIDE DEF fits
    <3>4. [blocks[b] EXCEPT !.intact = @ /\ fits] = blocks[b]
      BY <3>1, <3>3 DEF Block
    <3> QED
      BY <3>4 DEF fits
  <2>3. blocks = [b \in DOMAIN blocks |-> blocks[b]]
    BY <2>1
  <2> QED
    BY <2>2, <2>3
<1>7. blocks' = Append(blocks, NewBlock(size))
  BY <1>6 DEF GetByGrowing, Replace
<1> QED
  BY <1>1, <1>2, <1>3, <1>4, <1>7, OneMoreBlock

\* A request that fails may have trimmed the buffer, but then nothing was in it.
LEMMA FailureKeeps ==
    ASSUME ArenaInvariant, NEW size \in Sizes, GetFails(size)
    PROVE  ArenaInvariant'
<1>1. /\ buffer' = HasBuffer(size) /\ capacity' = Room(size) /\ buffers' = Left(size)
      /\ offset' = offset /\ blocks' = blocks /\ marks' = marks
  BY DEF GetFails
<1>2. CASE Trims(size)
  <2>1. blocks = <<>>
    BY <1>2, TrimsNothing
  <2>2. buffer /\ buffers = 1
    BY <1>2 DEF Trims, ArenaInvariant, BlocksAreSound
  <2>3. buffer' = FALSE /\ capacity' = 0 /\ buffers' = 0
    <3>1. HasBuffer(size) = FALSE
      BY <1>2 DEF HasBuffer
    <3>2. Room(size) = 0 /\ Left(size) = buffers - 1
      BY <1>2 DEF Room, Left
    <3>3. Left(size) = 0
      BY <2>2, <3>2
    <3> QED
      BY <1>1, <3>1, <3>2, <3>3
  <2>4. TypeOK'
    <3>1. 0 \in 0..SizeMax
      BY SizeAssumption
    <3> QED
      BY <1>1, <2>3, <3>1 DEF ArenaInvariant, TypeOK
  <2>5. BlocksAreSound'
    BY <1>1, <2>1, <2>3 DEF ArenaInvariant, BlocksAreSound
  <2>6. MarksAreSound'
    BY <1>1 DEF ArenaInvariant, MarksAreSound
  <2> QED
    BY <2>4, <2>5, <2>6 DEF ArenaInvariant
<1>3. CASE ~Trims(size)
  <2>1. buffer' = buffer /\ capacity' = capacity /\ buffers' = buffers
    BY <1>1, <1>3 DEF HasBuffer, Room, Left, ArenaInvariant, TypeOK
  <2> QED
    BY <1>1, <2>1 DEF ArenaInvariant, TypeOK, BlocksAreSound, MarksAreSound
<1> QED
  BY <1>2, <1>3

\* A mark taken now counts every block and is above every other mark.
LEMMA MarkKeeps == ArenaInvariant /\ Mark => ArenaInvariant'
<1> SUFFICES ASSUME ArenaInvariant, Mark PROVE ArenaInvariant'
  OBVIOUS
<1> DEFINE now == [offset |-> offset, count |-> Len(blocks)]
<1>1. /\ marks' = Append(marks, now)
      /\ buffer' = buffer /\ capacity' = capacity /\ offset' = offset
      /\ buffers' = buffers /\ blocks' = blocks
  BY DEF Mark, arena
<1>2. marks \in Seq(Saved) /\ blocks \in Seq(Block) /\ offset \in 0..SizeMax /\ Len(blocks) \in Nat
  BY DEF ArenaInvariant, TypeOK
<1>3. now \in Saved /\ now.offset = offset /\ now.count = Len(blocks)
  BY <1>2 DEF Saved
<1> HIDE DEF now
<1>4. /\ marks' \in Seq(Saved) /\ Len(marks) \in Nat
      /\ DOMAIN marks' = 1..Len(marks) + 1 /\ DOMAIN marks = 1..Len(marks)
      /\ \A m \in 1..Len(marks) : marks'[m] = marks[m]
      /\ marks'[Len(marks) + 1] = now
  BY <1>1, <1>2, <1>3
<1>5. TypeOK'
  BY <1>1, <1>4 DEF ArenaInvariant, TypeOK
<1>6. BlocksAreSound'
  BY <1>1 DEF ArenaInvariant, BlocksAreSound
<1>7. MarksAreSound'
  <2>1. ASSUME NEW m \in DOMAIN marks'
        PROVE  /\ marks'[m].count <= Len(blocks)
               /\ marks'[m].offset <= offset
               /\ \A b \in 1..marks'[m].count : blocks[b].start + blocks[b].size <= marks'[m].offset
    <3>1. CASE m \in 1..Len(marks)
      BY <1>4, <3>1 DEF ArenaInvariant, MarksAreSound
    <3>2. CASE m = Len(marks) + 1
      <4>1. marks'[m] = now
        BY <1>4, <3>2
      <4>2. \A b \in 1..Len(blocks) : blocks[b].start + blocks[b].size <= offset
        BY <1>2 DEF ArenaInvariant, BlocksAreSound
      <4>3. offset <= offset /\ Len(blocks) <= Len(blocks)
        BY <1>2, SizeAssumption
      <4> QED
        BY <1>3, <4>1, <4>2, <4>3
    <3> QED
      BY <1>4, <2>1, <3>1, <3>2
  <2>2. ASSUME NEW m \in DOMAIN marks', NEW o \in DOMAIN marks', m < o
        PROVE  marks'[m].count <= marks'[o].count /\ marks'[m].offset <= marks'[o].offset
    <3>1. m \in 1..Len(marks) /\ marks'[m] = marks[m]
      BY <1>4, <2>2
    <3>2. CASE o \in 1..Len(marks)
      BY <1>4, <2>2, <3>1, <3>2 DEF ArenaInvariant, MarksAreSound
    <3>3. CASE o = Len(marks) + 1
      BY <1>3, <1>4, <3>1, <3>3 DEF ArenaInvariant, MarksAreSound
    <3> QED
      BY <1>4, <2>2, <3>2, <3>3
  <2> QED
    BY <1>1, <2>1, <2>2 DEF MarksAreSound
<1> QED
  BY <1>5, <1>6, <1>7 DEF ArenaInvariant

\* Releasing to a mark takes the offset and the blocks of that time, and the marks
\* above it with them: what remains is as sound as it was then.
LEMMA ReleaseKeeps ==
    ASSUME ArenaInvariant, NEW m \in DOMAIN marks, Release(m)
    PROVE  ArenaInvariant'
<1>1. /\ offset' = marks[m].offset
      /\ blocks' = SubSeq(blocks, 1, marks[m].count)
      /\ marks' = SubSeq(marks, 1, m - 1)
      /\ buffer' = buffer /\ capacity' = capacity /\ buffers' = buffers
  BY DEF Release
<1>2. /\ marks \in Seq(Saved) /\ blocks \in Seq(Block) /\ offset \in 0..SizeMax /\ SizeMax \in Nat
      /\ capacity \in 0..SizeMax /\ buffer \in BOOLEAN /\ buffers \in {0, 1}
  BY SizeAssumption DEF ArenaInvariant, TypeOK
<1>3. Len(blocks) \in Nat /\ Len(marks) \in Nat /\ m \in 1..Len(marks) /\ marks[m] \in Saved
  BY <1>2
<1>4. marks[m].count \in Nat /\ marks[m].offset \in 0..SizeMax
  BY <1>3 DEF Saved
<1>5. /\ marks[m].count <= Len(blocks) /\ marks[m].offset <= offset
      /\ \A b \in 1..marks[m].count : blocks[b].start + blocks[b].size <= marks[m].offset
  BY <1>3 DEF ArenaInvariant, MarksAreSound
<1> DEFINE k == marks[m].count
<1>6. k \in Nat /\ k <= Len(blocks) /\ blocks' = SubSeq(blocks, 1, k)
  BY <1>1, <1>4, <1>5
<1> HIDE DEF k
<1>7. /\ blocks' \in Seq(Block) /\ Len(blocks') = k /\ DOMAIN blocks' = 1..k
      /\ 1..k \subseteq DOMAIN blocks
      /\ \A b \in 1..k : blocks'[b] = blocks[b]
  BY <1>2, <1>3, <1>6
<1>8. /\ marks' \in Seq(Saved) /\ DOMAIN marks' = 1..m-1
      /\ 1..m-1 \subseteq DOMAIN marks
      /\ \A y \in 1..m-1 : marks'[y] = marks[y] /\ y < m
  BY <1>1, <1>2, <1>3
<1>9. TypeOK'
  BY <1>1, <1>2, <1>4, <1>7, <1>8 DEF TypeOK
<1>10. \A b \in 1..k : blocks[b].start + blocks[b].size <= offset'
  BY <1>1, <1>5 DEF k
<1>11. BlocksAreSound'
  <2>1. (\A b \in DOMAIN blocks :
          /\ blocks[b].start % Align = 0
          /\ blocks[b].start + blocks[b].size <= offset
          /\ blocks[b].intact)'
    BY <1>7, <1>10 DEF ArenaInvariant, BlocksAreSound
  <2>2. (\A b, c \in DOMAIN blocks : b < c => blocks[b].start + blocks[b].size <= blocks[c].start)'
    BY <1>7 DEF ArenaInvariant, BlocksAreSound
  <2>3. (blocks # <<>> => buffer /\ offset <= capacity)'
    <3> SUFFICES ASSUME blocks' # <<>> PROVE buffer /\ offset' <= capacity
      BY <1>1
    <3>1. blocks # <<>>
      BY <1>2, <1>6, <1>7
    <3>2. buffer /\ offset <= capacity
      BY <3>1 DEF ArenaInvariant, BlocksAreSound
    <3>3. offset' <= offset /\ offset' \in Int
      BY <1>1, <1>4, <1>5
    <3> QED
      BY <1>2, <3>2, <3>3
  <2>4. (buffers = (IF buffer THEN 1 ELSE 0))' /\ (buffer <=> capacity > 0)'
    BY <1>1 DEF ArenaInvariant, BlocksAreSound
  <2> QED
    BY <2>1, <2>2, <2>3, <2>4 DEF BlocksAreSound
<1>12. MarksAreSound'
  <2>1. ASSUME NEW y \in 1..m-1
        PROVE  /\ marks[y].count <= k
               /\ marks[y].offset <= offset'
               /\ \A b \in 1..marks[y].count :
                     blocks'[b].start + blocks'[b].size <= marks[y].offset
    <3>1. y \in DOMAIN marks /\ y < m /\ marks[y] \in Saved
      BY <1>2, <1>8, <2>1
    <3>2. marks[y].count <= k /\ marks[y].offset <= offset'
      BY <1>1, <3>1 DEF ArenaInvariant, MarksAreSound, k
    <3>3. marks[y].count \in Nat
      BY <3>1 DEF Saved
    <3>4. 1..marks[y].count \subseteq 1..k
      BY <1>6, <3>2, <3>3
    <3>5. \A b \in 1..marks[y].count : blocks[b].start + blocks[b].size <= marks[y].offset
      BY <3>1 DEF ArenaInvariant, MarksAreSound
    <3> QED
      BY <1>7, <3>2, <3>4, <3>5
  <2>2. \A y, o \in 1..m-1 : y < o =>
           marks[y].count <= marks[o].count /\ marks[y].offset <= marks[o].offset
    BY <1>8 DEF ArenaInvariant, MarksAreSound
  <2> QED
    BY <1>7, <1>8, <2>1, <2>2 DEF MarksAreSound
<1> QED
  BY <1>9, <1>11, <1>12 DEF ArenaInvariant

\* An arena that is freed is as new.
LEMMA FreeKeeps == ArenaInvariant /\ Free => ArenaInvariant'
<1> SUFFICES ASSUME ArenaInvariant, Free PROVE ArenaInvariant'
  OBVIOUS
<1>1. /\ blocks = <<>> /\ marks = <<>> /\ blocks' = blocks /\ marks' = marks
      /\ buffer' = FALSE /\ capacity' = 0 /\ offset' = 0
      /\ buffers' = (IF buffer THEN buffers - 1 ELSE buffers)
  BY DEF Free, FreeLeaving
<1>2. buffers' = 0
  BY <1>1 DEF ArenaInvariant, TypeOK, BlocksAreSound
<1>3. 0 \in 0..SizeMax
  BY SizeAssumption
<1>4. TypeOK'
  BY <1>1, <1>2, <1>3 DEF ArenaInvariant, TypeOK
<1>5. BlocksAreSound' /\ MarksAreSound'
  BY <1>1, <1>2 DEF BlocksAreSound, MarksAreSound
<1> QED
  BY <1>4, <1>5 DEF ArenaInvariant

-----------------------------------------------------------------------------
\* The inductive invariant holds in every state, whatever wraps around.
THEOREM ArenaInductive == ArenaSpec => []ArenaInvariant
<1>1. ArenaInit => ArenaInvariant
  <2> SUFFICES ASSUME ArenaInit PROVE ArenaInvariant
    OBVIOUS
  <2>1. 0 \in 0..SizeMax
    BY SizeAssumption
  <2>2. TypeOK
    <3>1. blocks \in Seq(Block) /\ marks \in Seq(Saved)
      BY DEF ArenaInit
    <3> QED
      BY <2>1, <3>1 DEF ArenaInit, TypeOK
  <2>3. BlocksAreSound /\ MarksAreSound
    BY DEF ArenaInit, BlocksAreSound, MarksAreSound
  <2> QED
    BY <2>2, <2>3 DEF ArenaInvariant
<1>2. ArenaInvariant /\ [ArenaNext]_arenaVars => ArenaInvariant'
  <2> SUFFICES ASSUME ArenaInvariant, [ArenaNext]_arenaVars PROVE ArenaInvariant'
    OBVIOUS
  <2>1. CASE \E size \in Sizes : Get(size)
    BY <2>1, FromBufferKeeps, GrowingKeeps, FailureKeeps DEF Get
  <2>2. CASE Mark
    BY <2>2, MarkKeeps
  <2>3. CASE \E m \in DOMAIN marks : Release(m)
    BY <2>3, ReleaseKeeps
  <2>4. CASE Free
    BY <2>4, FreeKeeps
  <2>5. CASE UNCHANGED arenaVars
    BY <2>5 DEF arenaVars, arena, ArenaInvariant, TypeOK, BlocksAreSound, MarksAreSound
  <2> QED
    BY <2>1, <2>2, <2>3, <2>4, <2>5 DEF ArenaNext
<1> QED
  BY <1>1, <1>2, PTL DEF ArenaSpec

\* Every field of the arena stays a size_t value, and at most one buffer is allocated.
THEOREM ArenaTypes == ArenaSpec => []TypeOK
<1>1. ArenaInvariant => TypeOK
  BY DEF ArenaInvariant
<1> QED
  BY <1>1, ArenaInductive, PTL

\* Blocks handed out are aligned, disjoint, inside the buffer and intact, for any
\* sequence of requests, marks, releases and failures (ph_get_scratchpad() and the
\* brackets the hash functions put around it).
THEOREM BlocksStaySound == ArenaSpec => []BlocksAreSound
<1>1. ArenaInvariant => BlocksAreSound
  BY DEF ArenaInvariant
<1> QED
  BY <1>1, ArenaInductive, PTL

\* A top-level request served from the buffer there is finds one that is not worth
\* trimming.
LEMMA ServedIsBounded ==
    ASSUME ArenaInvariant, NEW size \in Sizes, GetFromBuffer(size), blocks = <<>>, offset = 0
    PROVE  capacity' <= 4 * Head(blocks').size
<1>1. ~SumOverflows(size) /\ ~(Room(size) < Required(size)) /\ capacity' = capacity
      /\ blocks' = Append(blocks, NewBlock(size))
  BY DEF GetFromBuffer, Grows
<1>2. Required(size) \in size..SizeMax /\ size \in 1..SizeMax /\ SizeMax \in Nat
  BY <1>1, RequestFits, SizeAssumption DEF ArenaInvariant
<1>3. Head(blocks').size = size
  BY <1>1 DEF NewBlock
<1>4. ~Trims(size)
  BY <1>1, <1>2 DEF Room
<1>5. capacity > 0 /\ capacity \in Nat
  BY <1>1, <1>2, <1>4 DEF Room, ArenaInvariant, TypeOK
<1>6. buffer
  BY <1>5 DEF ArenaInvariant, BlocksAreSound
<1>7. Wrap(size * 4) \in 0..SizeMax /\ Wrap(size * 4) <= size * 4
  <2>1. size * 4 \in Nat
    BY <1>2
  <2> QED
    BY <2>1, WrapTyping, WrapLowers
<1>8. ~(capacity > Wrap(size * 4))
  BY <1>4, <1>6 DEF Trims
<1>9. capacity <= 4 * size
  BY <1>2, <1>5, <1>7, <1>8
<1> QED
  BY <1>1, <1>3, <1>9

\* A top-level request that allocates is at least half of what it doubles, and the
\* rounding adds less than a smallest buffer.
LEMMA AllocatedIsBounded ==
    ASSUME ArenaInvariant, NEW size \in Sizes, GetByGrowing(size), blocks = <<>>, offset = 0
    PROVE  capacity' <= 4 * Head(blocks').size \/ capacity' <= AlignUp(MinSize)
<1>1. /\ ~SumOverflows(size) /\ Room(size) < Required(size)
      /\ NewSize(size) <= SizeMax - (Align - 1) /\ capacity' = AlignUp(NewSize(size))
  BY DEF GetByGrowing, Replace, Grows
<1>2. /\ size \in 1..SizeMax /\ SizeMax \in Nat
      /\ Required(size) = AlignUp(offset) + size
      /\ AlignUp(offset) \in Nat
  BY <1>1, RequestFits, SizeAssumption DEF ArenaInvariant, TypeOK
<1>3. AlignUp(offset) = 0
  <2>1. Align - 1 \in 0..SizeMax /\ Align - 1 \in 0..Align-1 /\ Align \in Nat \ {0}
    BY ArenaAssumption, SizeAssumption
  <2>2. Wrap(offset + (Align - 1)) = Align - 1
    <3>1. offset + (Align - 1) = Align - 1
      BY <2>1
    <3> QED
      BY <2>1, <3>1, WrapKeeps
  <2>3. (Align - 1) % Align = Align - 1
    BY <2>1
  <2> QED
    BY <2>1, <2>2, <2>3 DEF AlignUp
<1>4. Required(size) = size
  BY <1>2, <1>3
<1>5. Head(blocks').size = size
  BY DEF GetByGrowing, Replace, NewBlock
<1>6. Room(size) \in Nat /\ Room(size) < size
  BY <1>1, <1>2, <1>4 DEF Room, ArenaInvariant, TypeOK
<1>7. Wrap(Room(size) * 2) \in Nat /\ Wrap(Room(size) * 2) <= Room(size) * 2
  <2>1. Room(size) * 2 \in Nat
    BY <1>6
  <2> QED
    BY <2>1, WrapTyping, WrapLowers, <1>2
<1>8. NewSize(size) \in Nat /\ (NewSize(size) <= 2 * size - 1 \/ NewSize(size) = MinSize)
  BY <1>2, <1>4, <1>6, <1>7, ArenaAssumption DEF NewSize
<1>9. CASE NewSize(size) = MinSize
  <2>1. AlignUp(MinSize) \in 0..SizeMax
    BY <1>1, <1>8, <1>9, RoundingUp, ArenaAssumption, SizeAssumption
  <2> QED
    BY <1>1, <1>2, <1>9, <2>1
<1>10. CASE NewSize(size) # MinSize
  <2>1. NewSize(size) <= 2 * size - 1 /\ NewSize(size) >= MinSize
    BY <1>2, <1>7, <1>8, <1>4, <1>10, ArenaAssumption DEF NewSize
  <2>2. NewSize(size) \in 0..SizeMax
    BY <1>1, <1>8, ArenaAssumption, SizeAssumption
  <2>3. AlignUp(NewSize(size)) <= NewSize(size) + Align - 1 /\ AlignUp(NewSize(size)) \in Int
    <3>1. Align \in Nat \ {0} /\ SizeMax \in Nat
      BY ArenaAssumption, SizeAssumption
    <3> DEFINE grown == NewSize(size)
    <3>2. grown \in 0..SizeMax
      BY <2>2
    <3> HIDE DEF grown
    <3>3. AlignUp(grown) <= grown + Align - 1 /\ AlignUp(grown) \in Int
      BY <1>1, <3>1, <3>2, RoundingUp
    <3> QED
      BY <3>3 DEF grown
  <2>4. AlignUp(NewSize(size)) <= 4 * size
    BY <1>2, <1>8, <2>1, <2>3, ArenaAssumption
  <2> QED
    BY <1>1, <1>5, <2>4
<1> QED
  BY <1>9, <1>10

\* What a top-level request leaves allocated is bounded by that request (the
\* automatic trim of ph_get_scratchpad()), in every history.
THEOREM TopLevelStaysBounded == ArenaSpec => TopLevelBounded
<1> DEFINE Bounded ==
      (blocks = <<>> /\ offset = 0 /\ blocks' # <<>>) =>
          \/ capacity' <= 4 * Head(blocks').size
          \/ capacity' <= AlignUp(MinSize)
<1>1. ArenaInvariant /\ [ArenaNext]_arenaVars => [Bounded]_arenaVars
  <2> SUFFICES ASSUME ArenaInvariant, ArenaNext, blocks = <<>>, offset = 0, blocks' # <<>>
               PROVE  \/ capacity' <= 4 * Head(blocks').size
                      \/ capacity' <= AlignUp(MinSize)
    OBVIOUS
  <2>1. CASE \E size \in Sizes : Get(size)
    <3> SUFFICES ASSUME NEW size \in Sizes, Get(size)
                 PROVE  \/ capacity' <= 4 * Head(blocks').size
                        \/ capacity' <= AlignUp(MinSize)
      BY <2>1
    <3>1. CASE GetFromBuffer(size)
      BY <3>1, ServedIsBounded
    <3>2. CASE GetByGrowing(size)
      BY <3>2, AllocatedIsBounded
    <3>3. ~GetFails(size)
      BY DEF GetFails
    <3> QED
      BY <3>1, <3>2, <3>3 DEF Get
  <2>2. ~Mark
    BY DEF Mark
  <2>3. ~\E m \in DOMAIN marks : Release(m)
    <3> SUFFICES ASSUME NEW m \in DOMAIN marks, Release(m) PROVE FALSE
      OBVIOUS
    <3>1. marks[m] \in Saved /\ marks[m].count <= Len(blocks)
      BY DEF ArenaInvariant, TypeOK, MarksAreSound
    <3>2. marks[m].count \in Nat /\ Len(blocks) = 0
      BY <3>1 DEF Saved
    <3>3. marks[m].count = 0
      BY <3>1, <3>2
    <3> QED
      BY <3>3 DEF Release
  <2>4. ~Free
    BY DEF Free, FreeLeaving
  <2> QED
    BY <2>1, <2>2, <2>3, <2>4 DEF ArenaNext
<1> QED
  BY <1>1, ArenaInductive, PTL DEF ArenaSpec, TopLevelBounded

-----------------------------------------------------------------------------
\* Alpha.  The offsets of pixel t, read p and written p - 1 bytes at a time: they are
\* in the buffer, and no byte is written that is read later.
LEMMA AlphaOffsets ==
    ASSUME NEW p \in {2, 4}, NEW size \in Nat, NEW t \in 0..size - 1, NEW c \in 0..p - 2
    PROVE  /\ t * (p - 1) + c \in 0..(size * p) - 1
           /\ t * p + c \in 0..(size * p) - 1
           /\ t * p + (p - 1) \in 0..(size * p) - 1
           /\ t * (p - 1) + c <= t * p + c
           /\ t * (p - 1) + c < t * p + (p - 1)
           /\ t * (p - 1) + c < (t + 1) * (p - 1)
           /\ \A j \in 0..size - 1, e \in 0..p - 2 :
                 j < t => j * (p - 1) + e < t * (p - 1) + c
<1>1. CASE p = 2
  BY <1>1
<1>2. CASE p = 4
  BY <1>2
<1> QED
  BY <1>1, <1>2

\* The integer blend is the exact one to the nearest level.
LEMMA NearestLevel ==
    ASSUME NEW exact \in Int
    PROVE  LET level == (exact + 127) \div 255 IN
           level \in Int /\ 255 * level - exact <= 127 /\ exact - 255 * level <= 127
  OBVIOUS

LEMMA BlendIsNearest ==
    ASSUME mode \in Modes, NEW s \in Int, NEW a \in Int
    PROVE  Blended(s, a) \in Int /\ IsBlend(Blended(s, a), s, a)
<1>1. CASE mode = "IGNORE"
  BY <1>1 DEF Blended, IsBlend
<1>2. CASE mode # "IGNORE"
  <2>1. bg = Background[mode] /\ bg \in Int
    BY <1>2 DEF bg, Background, Modes
  <2> DEFINE exact == s * a + bg * (255 - a)
  <2>2. exact \in Int
    BY <2>1
  <2>3. Blended(s, a) = (exact + 127) \div 255
    BY <1>2 DEF Blended
  <2>4. IsBlend(Blended(s, a), s, a) <=>
            255 * Blended(s, a) - exact <= 127 /\ exact - 255 * Blended(s, a) <= 127
    BY <1>2, <2>1 DEF IsBlend
  <2> HIDE DEF exact
  <2> QED
    BY <2>2, <2>3, <2>4, NearestLevel
<1> QED
  BY <1>1, <1>2

\* Pixel i is blended, up to channel c.
Resolved(t, c) ==
    IsBlend(bytes[t * out_px + c], picture.bytes[t * in_px + c], picture.bytes[t * in_px + out_px])

\* Where the next byte is written: all from there on are as decoded.
NextAt == pixel * out_px + (IF doing = "bytes" THEN channel ELSE 0)

AlphaLoop ==
    /\ picture \in Pictures /\ in_px \in {2, 4} /\ channels = in_px
    /\ DOMAIN bytes = 0..(picture.count * in_px) - 1
    /\ bytes = [k \in DOMAIN bytes |-> bytes[k]]
    /\ pixel \in 0..picture.count
    /\ \A k \in 0..(picture.count * in_px) - 1 : k >= NextAt => bytes[k] = picture.bytes[k]
    /\ \A t \in 0..pixel - 1, c \in 0..out_px - 1 : Resolved(t, c)

AlphaInvariant ==
    /\ mode \in Modes
    /\ doing \in {"idle", "called", "pixels", "bytes", "returned"}
    /\ doing = "idle" => pixel = 0
    /\ doing = "called" => /\ picture \in Pictures /\ pixel = 0
                           /\ bytes = picture.bytes /\ channels = picture.channels
    /\ doing \in {"pixels", "bytes"} => AlphaLoop
    /\ doing = "bytes" => /\ pixel < picture.count /\ channel \in 0..out_px
                          /\ alpha = picture.bytes[pixel * in_px + out_px]
                          /\ \A c \in 0..channel - 1 : Resolved(pixel, c)
    /\ AlphaResolvedInPlace

LEMMA PicturesAreBytes ==
    ASSUME NEW given \in Pictures
    PROVE  /\ given.channels \in 1..4 /\ given.count \in Nat
           /\ given.bytes \in [0..(given.count * given.channels) - 1 -> 0..255]
  BY AlphaAssumption

LEMMA HasAlphaBegins == ASSUME AlphaInvariant, HasAlpha PROVE AlphaInvariant'
<1>1. /\ picture \in Pictures /\ pixel = 0 /\ bytes = picture.bytes /\ channels = picture.channels
      /\ channels \in {2, 4} /\ doing' = "pixels" /\ mode \in Modes
      /\ picture' = picture /\ mode' = mode /\ pixel' = pixel /\ channel' = channel
      /\ alpha' = alpha /\ bytes' = bytes /\ channels' = channels
  BY DEF HasAlpha, AlphaInvariant
<1>2. picture.count \in Nat /\ picture.bytes \in [0..(picture.count * picture.channels) - 1 -> 0..255]
  BY <1>1, PicturesAreBytes
<1>3. AlphaLoop'
  BY <1>1, <1>2 DEF AlphaLoop, in_px
<1> QED
  BY <1>1, <1>3 DEF AlphaInvariant, AlphaResolvedInPlace

LEMMA ReadAlphaKeeps == ASSUME AlphaInvariant, ReadAlpha PROVE AlphaInvariant'
<1>1. /\ doing = "pixels" /\ pixel < picture.count /\ doing' = "bytes" /\ channel' = 0
      /\ alpha' = bytes[pixel * in_px + out_px]
      /\ picture' = picture /\ mode' = mode /\ pixel' = pixel
      /\ bytes' = bytes /\ channels' = channels /\ AlphaLoop /\ mode \in Modes
  BY DEF ReadAlpha, ReadAt, AlphaInvariant
<1>2. in_px' = in_px /\ out_px' = out_px /\ out_px = in_px - 1 /\ in_px \in {2, 4}
  BY <1>1 DEF in_px, out_px, AlphaLoop
<1>3. picture.count \in Nat /\ pixel \in 0..picture.count - 1
  BY <1>1, PicturesAreBytes DEF AlphaLoop
<1>4. NextAt = pixel * out_px /\ NextAt' = pixel * out_px
  BY <1>1, <1>2, <1>3 DEF NextAt
<1>5. alpha' = picture.bytes[pixel * in_px + out_px]
  <2>1. /\ pixel * in_px + out_px \in 0..(picture.count * in_px) - 1
        /\ pixel * (in_px - 1) + 0 < pixel * in_px + (in_px - 1)
    BY <1>2, <1>3, 0 \in 0..in_px - 2, AlphaOffsets
  <2>2. pixel * in_px + out_px >= NextAt
    BY <1>2, <1>3, <1>4, <2>1
  <2> QED
    BY <1>1, <2>1, <2>2 DEF AlphaLoop
<1>6. AlphaLoop'
  BY <1>1, <1>2, <1>4 DEF AlphaLoop, Resolved, IsBlend
<1> QED
  BY <1>1, <1>2, <1>3, <1>5, <1>6 DEF AlphaInvariant, AlphaResolvedInPlace

LEMMA WriteByteKeeps == ASSUME AlphaInvariant, WriteByte PROVE AlphaInvariant'
<1> DEFINE goal == pixel * out_px + channel
           source == pixel * in_px + channel
<1>1. /\ doing = "bytes" /\ doing' = "bytes" /\ channel < out_px /\ channel' = channel + 1
      /\ bytes' = [bytes EXCEPT ![goal] = Blended(bytes[source], alpha)]
      /\ picture' = picture /\ mode' = mode /\ pixel' = pixel
      /\ alpha' = alpha /\ channels' = channels /\ AlphaLoop /\ mode \in Modes
      /\ pixel < picture.count /\ channel \in 0..out_px
      /\ alpha = picture.bytes[pixel * in_px + out_px]
      /\ \A c \in 0..channel - 1 : Resolved(pixel, c)
  BY DEF WriteByte, ReadAt, AlphaInvariant
<1>2. in_px' = in_px /\ out_px' = out_px /\ out_px = in_px - 1 /\ in_px \in {2, 4}
  BY <1>1 DEF in_px, out_px, AlphaLoop
<1>3. /\ picture.count \in Nat /\ pixel \in 0..picture.count - 1 /\ channel \in 0..in_px - 2
      /\ picture.bytes \in [0..(picture.count * in_px) - 1 -> 0..255]
  <2>1. picture \in Pictures /\ pixel \in 0..picture.count
    BY <1>1 DEF AlphaLoop
  <2>2. picture.count \in Nat /\ picture.bytes \in [0..(picture.count * in_px) - 1 -> 0..255]
    BY <2>1, PicturesAreBytes DEF in_px
  <2>3. pixel \in 0..picture.count - 1
    BY <1>1, <2>1, <2>2
  <2>4. channel \in 0..in_px - 2
    BY <1>1, <1>2
  <2> QED
    BY <2>2, <2>3, <2>4
<1>4. /\ goal \in 0..(picture.count * in_px) - 1 /\ source \in 0..(picture.count * in_px) - 1
      /\ pixel * in_px + out_px \in 0..(picture.count * in_px) - 1
      /\ goal <= source /\ goal \in Int
      /\ \A j \in 0..picture.count - 1, e \in 0..in_px - 2 : j < pixel => j * out_px + e < goal
  <2>1. /\ pixel * (in_px - 1) + channel \in 0..(picture.count * in_px) - 1
        /\ pixel * in_px + channel \in 0..(picture.count * in_px) - 1
        /\ pixel * in_px + (in_px - 1) \in 0..(picture.count * in_px) - 1
        /\ pixel * (in_px - 1) + channel <= pixel * in_px + channel
        /\ \A j \in 0..picture.count - 1, e \in 0..in_px - 2 :
              j < pixel => j * (in_px - 1) + e < pixel * (in_px - 1) + channel
    BY <1>2, <1>3, AlphaOffsets
  <2> QED
    BY <1>2, <2>1
<1>5. NextAt = goal /\ NextAt' = goal + 1
  BY <1>1, <1>2, <1>3 DEF NextAt
<1> HIDE DEF goal, source
<1>6. /\ DOMAIN bytes' = DOMAIN bytes /\ bytes' = [k \in DOMAIN bytes' |-> bytes'[k]]
      /\ bytes'[goal] = Blended(bytes[source], alpha)
      /\ \A k \in DOMAIN bytes : k # goal => bytes'[k] = bytes[k]
  BY <1>1, <1>4 DEF AlphaLoop
<1>7. bytes[source] = picture.bytes[source]
  BY <1>1, <1>4, <1>5 DEF AlphaLoop
<1>8. \A t \in 0..pixel - 1, c \in 0..out_px - 1 : Resolved(t, c)'
  <2> SUFFICES ASSUME NEW t \in 0..pixel - 1, NEW c \in 0..out_px - 1 PROVE Resolved(t, c)'
    OBVIOUS
  <2>1. t \in 0..picture.count - 1 /\ c \in 0..in_px - 2 /\ t < pixel /\ t \in Nat
    <3> DEFINE count == picture.count
    <3>1. count \in Nat /\ pixel \in 0..count - 1
      BY <1>3
    <3> HIDE DEF count
    <3>2. t \in 0..count - 1 /\ t < pixel /\ t \in Nat
      BY <3>1
    <3>3. c \in 0..in_px - 2
      <4>1. out_px - 1 = in_px - 2
        BY <1>2
      <4> QED
        BY <4>1
    <3> QED
      BY <3>2, <3>3 DEF count
  <2>2. t * out_px + c < goal /\ t * out_px + c \in 0..(picture.count * in_px) - 1
    BY <1>2, <1>3, <1>4, <2>1, AlphaOffsets
  <2>3. t * out_px + c \in DOMAIN bytes /\ t * out_px + c # goal
    BY <1>1, <1>4, <2>2 DEF AlphaLoop
  <2>4. Resolved(t, c)
    BY <1>1 DEF AlphaLoop
  <2> QED
    BY <1>1, <1>2, <1>6, <2>3, <2>4 DEF Resolved, IsBlend
<1>9. \A c \in 0..channel' - 1 : Resolved(pixel, c)'
  <2> SUFFICES ASSUME NEW c \in 0..channel' - 1 PROVE Resolved(pixel, c)'
    OBVIOUS
  <2>1. CASE c = channel
    <3>1. picture.bytes[source] \in Int /\ alpha \in Int
      <4> DEFINE places == 0..(picture.count * in_px) - 1
      <4>0. picture.bytes \in [places -> 0..255]
        BY <1>3
      <4> HIDE DEF places
      <4>1. \A k \in places : picture.bytes[k] \in Int
        BY <4>0
      <4> QED
        BY <1>1, <1>4, <4>1 DEF places
    <3>2. IsBlend(bytes'[goal], picture.bytes[source], alpha)
      BY <1>1, <1>6, <1>7, <3>1, BlendIsNearest
    <3> QED
      BY <1>1, <1>2, <2>1, <3>2 DEF Resolved, IsBlend, goal, source
  <2>2. CASE c # channel
    <3>1. c \in 0..channel - 1 /\ c \in 0..in_px - 2
      <4>1. c \in 0..channel /\ channel \in Nat
        BY <1>1, <1>3
      <4> QED
        BY <1>2, <1>3, <2>2, <4>1
    <3>2. pixel * out_px + c \in 0..(picture.count * in_px) - 1
      BY <1>2, <1>3, <3>1, AlphaOffsets
    <3>3. pixel * out_px + c # goal
      BY <1>2, <1>3, <2>2, <3>1 DEF goal
    <3>4. Resolved(pixel, c) /\ pixel * out_px + c \in DOMAIN bytes
      BY <1>1, <3>1, <3>2 DEF AlphaLoop
    <3> QED
      BY <1>1, <1>2, <1>6, <3>3, <3>4 DEF Resolved, IsBlend
  <2> QED
    BY <2>1, <2>2
<1>10. \A k \in 0..(picture.count * in_px) - 1 : k >= NextAt' => bytes'[k] = picture.bytes[k]
  BY <1>1, <1>4, <1>5, <1>6 DEF AlphaLoop
<1>11. AlphaLoop'
  BY <1>1, <1>2, <1>6, <1>8, <1>10 DEF AlphaLoop
<1>12. channel' \in 0..out_px'
  <2>1. channel \in Nat /\ out_px \in Nat /\ channel < out_px /\ channel' = channel + 1 /\ out_px' = out_px
    BY <1>1, <1>2
  <2> QED
    BY ONLY <2>1
<1> QED
  BY <1>1, <1>2, <1>9, <1>11, <1>12 DEF AlphaInvariant, AlphaResolvedInPlace

LEMMA NextPixelKeeps == ASSUME AlphaInvariant, NextPixel PROVE AlphaInvariant'
<1>1. /\ doing = "bytes" /\ doing' = "pixels" /\ channel >= out_px /\ pixel' = pixel + 1
      /\ picture' = picture /\ mode' = mode /\ channel' = channel
      /\ alpha' = alpha /\ bytes' = bytes /\ channels' = channels /\ AlphaLoop /\ mode \in Modes
      /\ pixel < picture.count /\ channel \in 0..out_px
      /\ \A c \in 0..channel - 1 : Resolved(pixel, c)
  BY DEF NextPixel, AlphaInvariant
<1>2. in_px' = in_px /\ out_px' = out_px /\ out_px = in_px - 1 /\ in_px \in {2, 4}
  BY <1>1 DEF in_px, out_px, AlphaLoop
<1>3. picture.count \in Nat /\ pixel \in 0..picture.count - 1 /\ channel = out_px
  BY <1>1, <1>2, PicturesAreBytes DEF AlphaLoop
<1>4. NextAt' = NextAt
  <2>1. CASE in_px = 2
    BY <1>1, <1>2, <1>3, <2>1 DEF NextAt
  <2>2. CASE in_px = 4
    BY <1>1, <1>2, <1>3, <2>2 DEF NextAt
  <2> QED
    BY <1>2, <2>1, <2>2
<1>5. \A t, c : Resolved(t, c)' <=> Resolved(t, c)
  BY <1>1, <1>2 DEF Resolved, IsBlend
<1>6. \A t \in 0..pixel' - 1, c \in 0..out_px - 1 : Resolved(t, c)
  BY <1>1, <1>3 DEF AlphaLoop
<1>7. AlphaLoop'
  BY <1>1, <1>2, <1>3, <1>4, <1>5, <1>6 DEF AlphaLoop
<1> QED
  BY <1>1, <1>7 DEF AlphaInvariant, AlphaResolvedInPlace

LEMMA ShrinkKeeps == ASSUME AlphaInvariant, Shrink PROVE AlphaInvariant'
<1>1. /\ doing = "pixels" /\ doing' = "returned" /\ pixel >= picture.count /\ channels' = out_px
      /\ \/ bytes' = [k \in 0..(picture.count * out_px) - 1 |-> bytes[k]]
         \/ bytes' = bytes
      /\ picture' = picture /\ mode' = mode /\ AlphaLoop /\ mode \in Modes
  BY DEF Shrink, AlphaInvariant
<1>2. in_px' = in_px /\ out_px' = out_px /\ out_px = in_px - 1 /\ in_px \in {2, 4}
      /\ picture.channels = in_px
  BY <1>1 DEF in_px, out_px, AlphaLoop
<1>3. picture.count \in Nat /\ pixel = picture.count
  BY <1>1, PicturesAreBytes DEF AlphaLoop
<1>4. ASSUME NEW t \in 0..picture.count - 1, NEW c \in 0..out_px - 1
      PROVE  IsBlend(bytes'[t * out_px + c], picture.bytes[t * in_px + c],
                     picture.bytes[t * in_px + out_px])
  <2>1. t * out_px + c \in 0..(picture.count * out_px) - 1
    <3>1. CASE in_px = 2
      BY <1>2, <1>3, <3>1
    <3>2. CASE in_px = 4
      BY <1>2, <1>3, <3>2
    <3> QED
      BY <1>2, <3>1, <3>2
  <2>2. bytes'[t * out_px + c] = bytes[t * out_px + c]
    BY <1>1, <2>1
  <2>3. Resolved(t, c)
    BY <1>1, <1>3 DEF AlphaLoop
  <2> QED
    BY <2>2, <2>3 DEF Resolved
<1>5. AlphaResolvedInPlace'
  BY <1>1, <1>2, <1>4 DEF AlphaResolvedInPlace, IsBlend
<1> QED
  BY <1>1, <1>5 DEF AlphaInvariant

\* The inductive invariant: the bytes from the place written next on are as decoded, and
\* the pixels before it are resolved.
THEOREM AlphaInductive == AlphaSpec => []AlphaInvariant
<1>1. AlphaIdle => AlphaInvariant
  BY DEF AlphaIdle, AlphaInvariant, AlphaResolvedInPlace, Modes
<1>2. AlphaInvariant /\ [AlphaNext]_alphaVars => AlphaInvariant'
  <2> SUFFICES ASSUME AlphaInvariant, [AlphaNext]_alphaVars PROVE AlphaInvariant'
    OBVIOUS
  <2>1. ASSUME NEW given \in Pictures, NEW how \in Modes, AlphaCall(given, how) PROVE AlphaInvariant'
    BY <2>1 DEF AlphaCall, AlphaInvariant, AlphaResolvedInPlace
  <2>2. CASE NoAlpha
    BY <2>2 DEF NoAlpha, AlphaInvariant, AlphaResolvedInPlace
  <2>3. CASE AlphaReturn
    BY <2>3 DEF AlphaReturn, AlphaInvariant, AlphaResolvedInPlace, Modes
  <2>4. CASE UNCHANGED alphaVars
    BY <2>4 DEF alphaVars, AlphaInvariant, AlphaResolvedInPlace, AlphaLoop, NextAt, Resolved, IsBlend,
                in_px, out_px
  <2> QED
    BY <2>1, <2>2, <2>3, <2>4, HasAlphaBegins, ReadAlphaKeeps, WriteByteKeeps, NextPixelKeeps, ShrinkKeeps
       DEF AlphaNext
<1> QED
  BY <1>1, <1>2, PTL DEF AlphaSpec

\* ph_resolve_alpha() reads no byte it has overwritten, and what it leaves is every pixel
\* blended to the nearest level or without its alpha, however many pixels there are.
THEOREM AlphaIsResolvedInPlace == AlphaSpec => []AlphaResolvedInPlace
  BY AlphaInductive, PTL DEF AlphaInvariant
-----------------------------------------------------------------------------
\* Orient.  Offsets in a buffer of h rows of w pixels of p bytes: inside it, and each of
\* one pixel only.
LEMMA RowBounds ==
    ASSUME NEW w \in Nat \ {0}, NEW h \in Nat \ {0}, NEW p \in Nat \ {0},
           NEW x \in 0..w - 1, NEW y \in 0..h - 1, NEW c \in 0..p - 1
    PROVE  /\ x * p + c \in 0..(w * p) - 1
           /\ y * (w * p) \in Nat
           /\ y * (w * p) + (x * p + c) < (y + 1) * (w * p)
           /\ (y + 1) * (w * p) <= (w * h) * p
<1>1. x * p \in Nat /\ (x + 1) * p <= w * p /\ (x + 1) * p = x * p + p
  BY x + 1 \in Nat, x + 1 <= w, Product
<1>2. x * p + c \in 0..(w * p) - 1 /\ w * p \in Nat
  BY <1>1
<1>3. y * (w * p) \in Nat /\ (y + 1) * (w * p) <= h * (w * p) /\ (y + 1) * (w * p) = y * (w * p) + w * p
  BY <1>2, y + 1 \in Nat, y + 1 <= h, Product
<1>4. h * (w * p) = (w * h) * p
  OBVIOUS
<1> QED
  BY <1>2, <1>3, <1>4

LEMMA OffsetInside ==
    ASSUME NEW w \in Nat \ {0}, NEW h \in Nat \ {0}, NEW p \in Nat \ {0},
           NEW x \in 0..w - 1, NEW y \in 0..h - 1, NEW c \in 0..p - 1
    PROVE  (y * (w * p) + x * p) + c \in 0..((w * h) * p) - 1
<1>1. /\ x * p \in Int /\ x * p + c \in 0..(w * p) - 1 /\ y * (w * p) \in Nat
      /\ y * (w * p) + (x * p + c) < (y + 1) * (w * p)
      /\ (y + 1) * (w * p) <= (w * h) * p /\ (y + 1) * (w * p) \in Int /\ (w * h) * p \in Int
  BY RowBounds
<1> QED
  BY <1>1

LEMMA RowsApart ==
    ASSUME NEW w \in Nat \ {0}, NEW h \in Nat \ {0}, NEW p \in Nat \ {0},
           NEW x \in 0..w - 1, NEW y \in 0..h - 1, NEW c \in 0..p - 1,
           NEW u \in 0..w - 1, NEW v \in 0..h - 1, NEW e \in 0..p - 1, y < v
    PROVE  (y * (w * p) + x * p) + c < (v * (w * p) + u * p) + e
<1>1. /\ x * p \in Int /\ y * (w * p) \in Nat
      /\ y * (w * p) + (x * p + c) < (y + 1) * (w * p) /\ (y + 1) * (w * p) \in Int
  BY RowBounds
<1>2. u * p \in Int /\ u * p + e \in Nat /\ v * (w * p) \in Nat
  BY RowBounds
<1>3. (y + 1) * (w * p) <= v * (w * p)
  BY y + 1 \in Nat, v \in Nat, w * p \in Nat, y + 1 <= v, Product
<1> QED
  BY <1>1, <1>2, <1>3

LEMMA ColumnsApart ==
    ASSUME NEW p \in Nat \ {0}, NEW x \in Nat, NEW u \in Nat, x < u,
           NEW c \in 0..p - 1, NEW e \in 0..p - 1
    PROVE  x * p + c < u * p + e
<1>1. (x + 1) * p <= u * p /\ (x + 1) * p = x * p + p /\ x * p \in Nat /\ u * p \in Nat
  BY x + 1 \in Nat, x + 1 <= u, Product
<1> QED
  BY <1>1

LEMMA OffsetOnce ==
    ASSUME NEW w \in Nat \ {0}, NEW h \in Nat \ {0}, NEW p \in Nat \ {0},
           NEW x \in 0..w - 1, NEW y \in 0..h - 1, NEW c \in 0..p - 1,
           NEW u \in 0..w - 1, NEW v \in 0..h - 1, NEW e \in 0..p - 1,
           (y * (w * p) + x * p) + c = (v * (w * p) + u * p) + e
    PROVE  x = u /\ y = v /\ c = e
<1> DEFINE r == y * (w * p)
<1>1. ~(y < v) /\ ~(v < y)
  BY RowsApart
<1>2. y = v
  BY <1>1
<1>3. x * p \in Int /\ u * p \in Int /\ r \in Int
  OBVIOUS
<1> HIDE DEF r
<1>4. (r + x * p) + c = (r + u * p) + e
  BY <1>2 DEF r
<1>5. x * p + c = u * p + e
  BY <1>3, <1>4
<1>6. x = u
  BY <1>5, ColumnsApart
<1> QED
  BY <1>2, <1>5, <1>6, <1>3

\* ph_safe_image_alloc_size() accepts what one size_t counts.
LEMMA SizeableMeans ==
    ASSUME NEW w \in Nat \ {0}, NEW h \in Nat \ {0}, NEW p \in Nat \ {0}
    PROVE  Sizeable(w, h, p) <=> (w * h) * p <= SizeMax
<1>1. w * h \in Nat \ {0}
  OBVIOUS
<1>2. w <= SizeMax \div h <=> w * h <= SizeMax
  BY QuotientBound, SizeAssumption
<1>3. w * h <= SizeMax \div p <=> (w * h) * p <= SizeMax
  BY <1>1, QuotientBound, SizeAssumption
<1>4. w * h <= (w * h) * p
  <2> DEFINE a == w * h
  <2>1. a * p \in Nat /\ 1 * a <= p * a /\ p * a = a * p /\ 1 * a = a
    BY <1>1, Product
  <2> QED
    BY <2>1
<1>5. (w * h) * p \in Nat
  BY <1>1
<1> QED
  BY <1>1, <1>2, <1>3, <1>4, <1>5, SizeAssumption DEF Sizeable

\* size_t arithmetic: a sum may wrap around at any step.
LEMMA WrapSum ==
    ASSUME NEW a \in Int, NEW b \in Int
    PROVE  Wrap(Wrap(a) + b) = Wrap(a + b) /\ Wrap(a) \in 0..SizeMax
<1> DEFINE m == SizeMax + 1
<1>1. m \in Nat \ {0}
  BY SizeAssumption
<1> HIDE DEF m
<1>a. \A o \in Int : o \div m \in Int /\ o % m \in 0..m - 1 /\ o = m * (o \div m) + (o % m)
  BY <1>1
<1>2. PICK q \in Int, r \in 0..m - 1 : a = m * q + r /\ r = a % m
  BY <1>a
<1>3. PICK k \in Int, s \in 0..m - 1 : r + b = m * k + s
  BY <1>1, <1>2, <1>a, r + b \in Int
<1>4. (r + b) % m = s
  BY <1>1, <1>3, r + b \in Int, OneRemainder
<1>5. a + b = m * (q + k) + s
  <2> DEFINE u == m * q  v == m * k
  <2>1. m * (q + k) = u + v /\ u \in Int /\ v \in Int
    BY <1>1
  <2>2. a = u + r /\ r + b = v + s /\ r \in Int /\ s \in Int
    BY <1>2, <1>3
  <2> HIDE DEF u, v
  <2>3. a + b = (u + v) + s
    BY <2>1, <2>2
  <2> QED
    BY <2>1, <2>3
<1>6. (a + b) % m = s
  BY <1>1, <1>5, a + b \in Int, q + k \in Int, OneRemainder
<1>7. m = SizeMax + 1 /\ 0..m - 1 = 0..SizeMax
  BY SizeAssumption DEF m
<1> QED
  BY <1>2, <1>4, <1>6, <1>7 DEF Wrap

-----------------------------------------------------------------------------
\* The stored pixel that the output shows at column x, row y.
SourceX(x, y) == IF Swaps(turn) THEN IF FlipX THEN W - 1 - y ELSE y
                 ELSE IF turn = 4 THEN x ELSE W - 1 - x
SourceY(x, y) == IF Swaps(turn) THEN IF FlipY THEN H - 1 - x ELSE x
                 ELSE IF turn = 2 THEN y ELSE H - 1 - y

To(x, y)   == Offset(dst_stride, x, y)
From(x, y) == Offset(src_stride, SourceX(x, y), SourceY(x, y))

Copied(x, y) == \A c \in 0..px - 1 : out[To(x, y) + c] = From(x, y) + c

\* While the copy is made: an image whose bytes one size_t counts, and a buffer as large.
Shape ==
    /\ image = [width |-> W, height |-> H, channels |-> px, data |-> image.data]
    /\ W \in Nat \ {0} /\ H \in Nat \ {0} /\ px \in Nat \ {0} /\ turn \in 2..8
    /\ (W * H) * px \in 1..SizeMax
    /\ image.data = [k \in 0..((W * H) * px) - 1 |-> k]
    /\ DOMAIN out = 0..((W * H) * px) - 1
    /\ at \in [x : Nat, y : Nat] /\ tile \in [x : Nat, y : Nat]

\* The pixels that are written when the walk stands at `at`.
Done(x, y) ==
    \/ ~Swaps(turn) /\ y < at.y
    \/ Swaps(turn) /\ \/ y < tile.y
                      \/ y < tile.y + Tile /\ x < tile.x
                      \/ y < at.y /\ x < tile.x + Tile
    \/ place \in {"mirror", "tile"} /\ y = at.y /\ x < at.x

DoneIsCopied == \A x \in 0..Wd - 1, y \in 0..Hd - 1 : Done(x, y) => Copied(x, y)

\* Where the walk stands, and that its offsets are those of its pixel.
Walk ==
    /\ place = "rows" => turn = 4
    /\ place = "start" => turn # 4
    /\ place = "start" /\ ~Swaps(turn) => at.x = 0
    /\ place = "start" /\ Swaps(turn) =>
          /\ at.x = tile.x /\ tile.x < Wd /\ tile.y <= at.y
          /\ at.y = tile.y \/ at.y < TileEnd(tile.y, Hd)
    /\ place = "mirror" =>
          /\ turn \in {2, 3} /\ at.x <= W /\ at.y < Hd
          /\ doff = To(at.x, at.y) /\ soff = Wrap((W - 1 - at.x) * px)
    /\ place = "tile" =>
          /\ Swaps(turn) /\ tile.x < Wd /\ tile.x <= at.x /\ at.x <= TileEnd(tile.x, Wd)
          /\ tile.y <= at.y /\ at.y < TileEnd(tile.y, Hd)
          /\ doff = To(at.x, at.y) /\ soff = Wrap(From(at.x, at.y))

Copying == place \in {"rows", "start", "mirror", "tile"}

OrientInvariant ==
    /\ place \in {"idle", "called", "returned"} \/ Copying
    /\ place = "idle" => tile = Corner /\ at = Corner
    /\ place = "called" =>
          /\ tile = Corner /\ at = Corner
          /\ image = [width |-> W, height |-> H, channels |-> px, data |-> Stored(W, H, px)]
          /\ W \in Int /\ H \in Int /\ px \in Nat \ {0} /\ turn \in 0..9
    /\ Copying => Shape /\ Walk /\ DoneIsCopied
    /\ TurnedOrUntouched

\* The pixels of the image and of the output, and their offsets.
LEMMA ShapeFacts ==
    ASSUME Shape
    PROVE  /\ Wd \in Nat \ {0} /\ Hd \in Nat \ {0} /\ (Wd * Hd) * px = (W * H) * px
           /\ dst_stride = Wd * px /\ src_stride = W * px
           /\ src_stride \in Nat /\ dst_stride \in Nat
<1>1. W * H = H * W
  BY DEF Shape
<1>2. Wd * Hd = W * H
  BY <1>1 DEF Wd, Hd
<1> QED
  BY <1>2 DEF Shape, Wd, Hd, dst_stride, src_stride

LEMMA SourceInside ==
    ASSUME Shape, NEW x \in 0..Wd - 1, NEW y \in 0..Hd - 1
    PROVE  SourceX(x, y) \in 0..W - 1 /\ SourceY(x, y) \in 0..H - 1
<1>1. W \in Nat \ {0} /\ H \in Nat \ {0} /\ turn \in 2..8
  BY DEF Shape
<1>2. CASE Swaps(turn)
  <2>1. x \in 0..H - 1 /\ y \in 0..W - 1
    BY <1>2 DEF Wd, Hd
  <2> QED
    BY <1>1, <1>2, <2>1 DEF SourceX, SourceY
<1>3. CASE ~Swaps(turn)
  <2>1. x \in 0..W - 1 /\ y \in 0..H - 1
    BY <1>3 DEF Wd, Hd
  <2> QED
    BY <1>1, <1>3, <2>1 DEF SourceX, SourceY
<1> QED
  BY <1>2, <1>3

LEMMA PixelOffsets ==
    ASSUME Shape, NEW x \in 0..Wd - 1, NEW y \in 0..Hd - 1, NEW c \in 0..px - 1
    PROVE  /\ To(x, y) \in Nat /\ From(x, y) \in Nat
           /\ To(x, y) + c \in 0..((W * H) * px) - 1
           /\ From(x, y) + c \in 0..((W * H) * px) - 1
           /\ From(x, y) \in 0..SizeMax
<1>1. px \in Nat \ {0} /\ 0 \in 0..px - 1 /\ W \in Nat \ {0} /\ H \in Nat \ {0}
  <2>1. px \in Nat \ {0} /\ W \in Nat \ {0} /\ H \in Nat \ {0}
    BY Zenon DEF Shape
  <2> QED
    BY ONLY <2>1
<1>2. \A e \in 0..px - 1 : To(x, y) + e \in 0..((W * H) * px) - 1
  BY <1>1, ShapeFacts, OffsetInside DEF To, Offset
<1>3. \A e \in 0..px - 1 : From(x, y) + e \in 0..((W * H) * px) - 1
  BY <1>1, ShapeFacts, SourceInside, OffsetInside DEF From, Offset
<1>4. To(x, y) \in Int /\ From(x, y) \in Int
  BY <1>1, ShapeFacts, SourceInside DEF To, From, Offset
<1>5. (W * H) * px \in 1..SizeMax
  BY DEF Shape
<1> QED
  BY <1>1, <1>2, <1>3, <1>4, <1>5, SizeAssumption

LEMMA ColumnFits ==
    ASSUME Shape, NEW x \in 0..W - 1
    PROVE  x * px \in 0..SizeMax
<1>1. W \in Nat \ {0} /\ H \in Nat \ {0} /\ px \in Nat \ {0} /\ (W * H) * px \in 1..SizeMax
      /\ 0 \in 0..px - 1 /\ H - 1 \in 0..H - 1
  <2>1. W \in Nat \ {0} /\ H \in Nat \ {0} /\ px \in Nat \ {0} /\ (W * H) * px \in 1..SizeMax
    BY Zenon DEF Shape
  <2>2. 0 \in 0..px - 1 /\ H - 1 \in 0..H - 1
    BY ONLY <2>1
  <2> QED
    BY <2>1, <2>2, Zenon
<1>2. /\ x * px + 0 \in 0..(W * px) - 1 /\ (H - 1) * (W * px) \in Nat
      /\ (H - 1) * (W * px) + (x * px + 0) < ((H - 1) + 1) * (W * px)
      /\ ((H - 1) + 1) * (W * px) <= (W * H) * px
  BY <1>1, RowBounds
<1>3. x * px \in Nat /\ ((H - 1) + 1) * (W * px) \in Int /\ SizeMax \in Int
  BY <1>1, SizeAssumption
<1> QED
  BY <1>1, <1>2, <1>3

\* A pixel that is copied keeps its place, and no other is disturbed.
LEMMA PixelCopied ==
    ASSUME Shape, NEW x \in 0..Wd - 1, NEW y \in 0..Hd - 1,
           out' = CopyBytes(To(x, y), From(x, y), px), UNCHANGED <<image, turn>>
    PROVE  /\ DOMAIN out' = DOMAIN out
           /\ Copied(x, y)'
           /\ \A u \in 0..Wd - 1, v \in 0..Hd - 1 : Copied(u, v) => Copied(u, v)'
<1> DEFINE offsets == 0..((W * H) * px) - 1  to == To(x, y)  s == From(x, y)
<1>1. px \in Nat \ {0} /\ px' = px
  BY DEF Shape, px
<1>2. \A u, v : To(u, v)' = To(u, v) /\ From(u, v)' = From(u, v)
  BY DEF To, From, Offset, dst_stride, src_stride, SourceX, SourceY, Swaps, FlipX, FlipY, Wd, W, H, px
<1>3. /\ to \in Nat /\ s \in Nat
      /\ \A c \in 0..px - 1 : to + c \in offsets /\ s + c \in offsets
  BY <1>1, PixelOffsets
<1>4. DOMAIN out = offsets /\ image.data = [k \in offsets |-> k]
  BY DEF Shape
<1>5. out' = [k \in offsets |-> IF k \in to..(to + px) - 1 THEN image.data[s + (k - to)] ELSE out[k]]
  BY <1>4 DEF CopyBytes
<1>6. \A c \in 0..px - 1 : out'[to + c] = s + c
  <2> SUFFICES ASSUME NEW c \in 0..px - 1 PROVE out'[to + c] = s + c
    OBVIOUS
  <2> HIDE DEF to, s, offsets
  <2>1. to + c \in offsets /\ to + c \in to..(to + px) - 1 /\ s + ((to + c) - to) = s + c
    BY <1>1, <1>3
  <2>2. out'[to + c] = image.data[s + c]
    BY <1>5, <2>1
  <2> QED
    BY <1>3, <1>4, <2>2
<1>7. Copied(x, y)'
  BY <1>1, <1>2, <1>6 DEF Copied
<1>8. ASSUME NEW u \in 0..Wd - 1, NEW v \in 0..Hd - 1, Copied(u, v)
      PROVE  Copied(u, v)'
  <2>1. CASE u = x /\ v = y
    BY <2>1, <1>7
  <2>2. CASE u # x \/ v # y
    <3> SUFFICES ASSUME NEW c \in 0..px - 1 PROVE out'[To(u, v) + c] = From(u, v) + c
      BY <1>1, <1>2 DEF Copied
    <3>1. out[To(u, v) + c] = From(u, v) + c
      BY <1>8 DEF Copied
    <3>2. To(u, v) \in Nat /\ To(u, v) + c \in offsets
      BY PixelOffsets
    <3>3. \A e \in 0..px - 1 : To(u, v) + c # to + e
      BY <2>2, <1>1, ShapeFacts, OffsetOnce DEF To, Offset
    <3>4. To(u, v) + c \notin to..(to + px) - 1
      <4> DEFINE k == To(u, v) + c
      <4> SUFFICES ASSUME k \in to..(to + px) - 1 PROVE FALSE
        OBVIOUS
      <4> HIDE DEF to
      <4>1. k \in Int
        BY <3>2
      <4> HIDE DEF k
      <4>2. k - to \in 0..px - 1 /\ k = to + (k - to)
        BY <4>1, <1>1, <1>3
      <4> QED
        BY <3>3, <4>2 DEF k
    <3> HIDE DEF to, s, offsets
    <3> QED
      BY <1>5, <3>1, <3>2, <3>4
  <2> QED
    BY <2>1, <2>2
<1> QED
  BY <1>4, <1>5, <1>7, <1>8

\* Orientation 4 copies the pixels of a row at once.
LEMMA RowCopied ==
    ASSUME Shape, turn = 4, NEW y \in 0..Hd - 1,
           out' = CopyBytes(y * dst_stride, (H - 1 - y) * src_stride, src_stride),
           UNCHANGED <<image, turn>>
    PROVE  /\ DOMAIN out' = DOMAIN out
           /\ \A u \in 0..Wd - 1 : Copied(u, y)'
           /\ \A u \in 0..Wd - 1, v \in 0..Hd - 1 : v < y /\ Copied(u, v) => Copied(u, v)'
<1> DEFINE offsets == 0..((W * H) * px) - 1  to == y * dst_stride  s == (H - 1 - y) * src_stride
<1>1. px \in Nat \ {0} /\ px' = px /\ W \in Nat \ {0} /\ H \in Nat \ {0} /\ Wd = W /\ Hd = H
  BY DEF Shape, px, Wd, Hd, Swaps
<1>2. \A u, v : To(u, v)' = To(u, v) /\ From(u, v)' = From(u, v)
  BY DEF To, From, Offset, dst_stride, src_stride, SourceX, SourceY, Swaps, FlipX, FlipY, Wd, W, H, px
<1>3. src_stride = W * px /\ dst_stride = W * px /\ W * px \in Nat
  BY <1>1 DEF src_stride, dst_stride
<1>4. DOMAIN out = offsets /\ image.data = [k \in offsets |-> k]
  BY DEF Shape
<1>5. out' = [k \in offsets |-> IF k \in to..(to + src_stride) - 1 THEN image.data[s + (k - to)] ELSE out[k]]
  BY <1>4 DEF CopyBytes
<1>6. to \in Nat /\ s \in Nat
  BY <1>1, <1>3
<1>7. ASSUME NEW u \in 0..Wd - 1
      PROVE  Copied(u, y)'
  <2> SUFFICES ASSUME NEW c \in 0..px - 1 PROVE out'[To(u, y) + c] = From(u, y) + c
    BY <1>1, <1>2 DEF Copied
  <2>1. To(u, y) + c \in offsets /\ From(u, y) + c \in offsets
    BY PixelOffsets
  <2>2. u * px + c \in 0..(W * px) - 1 /\ u * px \in Nat
    BY <1>1, RowBounds
  <2>3. To(u, y) + c = to + (u * px + c) /\ From(u, y) + c = s + (u * px + c)
    <3>1. To(u, y) = to + u * px /\ From(u, y) = s + u * px
      BY <1>1, <1>3, turn = 4 DEF To, From, Offset, SourceX, SourceY, Swaps
    <3> HIDE DEF to, s
    <3> QED
      BY <3>1, <2>2, <1>6
  <2> DEFINE e == u * px + c  k == to + e
  <2>4. e \in 0..src_stride - 1
    BY <2>2, <1>3
  <2> HIDE DEF to, s, offsets, e
  <2>5. k \in to..(to + src_stride) - 1 /\ s + (k - to) = s + e
    BY <2>4, <1>6, <1>3
  <2>6. k \in offsets /\ s + e \in offsets
    BY <2>1, <2>3 DEF e
  <2>7. out'[k] = s + e
    BY <1>4, <1>5, <2>5, <2>6
  <2> QED
    BY <2>3, <2>7 DEF e
<1>8. ASSUME NEW u \in 0..Wd - 1, NEW v \in 0..Hd - 1, v < y, Copied(u, v)
      PROVE  Copied(u, v)'
  <2> SUFFICES ASSUME NEW c \in 0..px - 1 PROVE out'[To(u, v) + c] = From(u, v) + c
    BY <1>1, <1>2 DEF Copied
  <2>1. out[To(u, v) + c] = From(u, v) + c
    BY <1>8 DEF Copied
  <2>2. To(u, v) + c \in offsets
    BY PixelOffsets
  <2>3. 0 \in 0..Wd - 1 /\ 0 \in 0..px - 1
    BY <1>1
  <2>4. (v * (W * px) + u * px) + c < (y * (W * px) + 0 * px) + 0
    BY <1>1, <1>8, <2>3, RowsApart
  <2>5. To(u, v) + c < to
    BY <2>4, <1>1, <1>3, <1>6 DEF To, Offset
  <2>6. To(u, v) + c \notin to..(to + src_stride) - 1
    <3> DEFINE k == To(u, v) + c
    <3>1. k \in Int
      BY <2>2, <1>1
    <3> HIDE DEF to, k
    <3> QED
      BY <2>5, <3>1, <1>6 DEF k
  <2> HIDE DEF to, s, offsets
  <2> QED
    BY <1>5, <2>1, <2>2, <2>6
<1> QED
  BY <1>4, <1>5, <1>7, <1>8

\* OrientCall(): a new call of ph_apply_exif_orientation().
LEMMA OrientCallKeeps ==
    ASSUME OrientInvariant, NEW w \in Sides, NEW h \in Sides, NEW count \in Channels,
           NEW o \in 0..9, OrientCall(w, h, count, o)
    PROVE  OrientInvariant'
<1>1. /\ image' = [width |-> w, height |-> h, channels |-> count, data |-> Stored(w, h, count)]
      /\ turn' = o /\ place' = "called" /\ tile' = tile /\ at' = at /\ place = "idle"
  BY DEF OrientCall, copying
<1>2. W' = w /\ H' = h /\ px' = count
  BY <1>1 DEF W, H, px
<1>3. Stored(w, h, count)' = Stored(w, h, count)
  BY DEF Stored, Sizeable
<1>4. Stored(W, H, px)' = Stored(w, h, count)
  BY <1>2 DEF Stored, Sizeable
<1>5. w \in Int /\ h \in Int /\ count \in Nat \ {0}
  BY OrientAssumption
<1>6. image' = [width |-> W, height |-> H, channels |-> px, data |-> Stored(W, H, px)]'
  BY <1>1, <1>2, <1>4
<1>7. tile' = Corner /\ at' = Corner
  BY <1>1 DEF OrientInvariant
<1> QED
  BY <1>1, <1>2, <1>5, <1>6, <1>7 DEF OrientInvariant, Copying, TurnedOrUntouched, Corner

\* An answer without a copy leaves the stored image.
LEMMA AnswerKeeps ==
    ASSUME OrientInvariant, place = "called", NEW status, Answers(status),
           status = "SUCCESS" => turn \notin 2..8
    PROVE  OrientInvariant'
<1>1. /\ image' = image /\ turn' = turn /\ place' = "returned" /\ answer' = status
      /\ image.data = Stored(W, H, px)
  BY DEF Answers, OrientInvariant
<1>2. W' = W /\ H' = H /\ px' = px /\ (image.data)' = image.data
  BY <1>1 DEF W, H, px
<1>3. Stored(W, H, px)' = Stored(W, H, px)
  BY <1>2 DEF Stored, Sizeable
<1>4. TurnedOrUntouched'
  BY <1>1, <1>2, <1>3 DEF TurnedOrUntouched
<1> QED
  BY <1>1, <1>4 DEF OrientInvariant, Copying

LEMMA NoCopyKeeps ==
    ASSUME OrientInvariant, NoTurn \/ Refused \/ OutOfMemory
    PROVE  OrientInvariant'
<1>1. place = "called" /\ (place = "called" => turn \in 0..9)
  BY DEF NoTurn, Refused, OutOfMemory, Sized, Turns, OrientInvariant
<1>2. CASE NoTurn
  BY <1>1, <1>2, AnswerKeeps DEF NoTurn
<1>3. CASE Refused
  BY <1>1, <1>3, AnswerKeeps DEF Refused
<1>4. CASE OutOfMemory
  BY <1>1, <1>4, AnswerKeeps DEF OutOfMemory
<1> QED
  BY <1>2, <1>3, <1>4

LEMMA AllocateKeeps == ASSUME OrientInvariant, Allocate PROVE OrientInvariant'
<1>1. /\ place = "called" /\ turn \in 2..8 /\ W >= 0 /\ H >= 0 /\ Sizeable(Wd, Hd, px)
      /\ image' = image /\ turn' = turn /\ tile' = tile /\ at' = at
      /\ place' = IF turn = 4 THEN "rows" ELSE "start"
      /\ out' = [k \in 0..((Wd * Hd) * px) - 1 |-> -1]
  BY DEF Allocate, Sized, Turns
<1>2. /\ image = [width |-> W, height |-> H, channels |-> px, data |-> Stored(W, H, px)]
      /\ W \in Int /\ H \in Int /\ px \in Nat \ {0} /\ tile = Corner /\ at = Corner
  BY <1>1 DEF OrientInvariant
<1>3. W \in Nat \ {0} /\ H \in Nat \ {0} /\ Wd \in Nat \ {0} /\ Hd \in Nat \ {0}
  <2>1. Wd # 0 /\ Hd # 0
    BY <1>1 DEF Sizeable
  <2> QED
    BY <1>1, <1>2, <2>1 DEF Wd, Hd
<1>4. Wd * Hd = W * H
  <2>1. H * W = W * H
    BY <1>3
  <2> QED
    BY <2>1 DEF Wd, Hd
<1>5. (W * H) * px \in 1..SizeMax /\ Sizeable(W, H, px)
  <2>1. (W * H) * px <= SizeMax /\ Sizeable(W, H, px)
    BY <1>1, <1>2, <1>3, <1>4, SizeableMeans
  <2>2. (W * H) * px \in Nat \ {0}
    <3>1. W * H \in Nat \ {0}
      BY <1>3
    <3> QED
      BY <3>1, <1>2
  <2> QED
    BY <2>1, <2>2, SizeAssumption
<1>6. image.data = [k \in 0..((W * H) * px) - 1 |-> k]
  BY <1>2, <1>3, <1>5 DEF Stored
<1>7. /\ W' = W /\ H' = H /\ px' = px /\ (image.data)' = image.data /\ Wd' = Wd /\ Hd' = Hd
      /\ Swaps(turn)' = Swaps(turn) /\ at'.x = 0 /\ at'.y = 0 /\ tile'.x = 0 /\ tile'.y = 0
  BY <1>1, <1>2 DEF W, H, px, Wd, Hd, Swaps, Corner
<1>8. Shape'
  <2>1. DOMAIN out' = 0..((W * H) * px) - 1
    BY <1>1, <1>4
  <2>2. image = [width |-> W, height |-> H, channels |-> px, data |-> image.data]
    BY <1>2
  <2>3. Corner \in [x : Nat, y : Nat]
    BY DEF Corner
  <2> QED
    BY <1>1, <1>2, <1>3, <1>5, <1>6, <1>7, <2>1, <2>2, <2>3 DEF Shape
<1>9. Walk'
  BY <1>1, <1>3, <1>7 DEF Walk
<1>10. DoneIsCopied'
  <2>1. ASSUME NEW x \in 0..Wd - 1, NEW y \in 0..Hd - 1
        PROVE  ~Done(x, y)'
    BY <1>1, <1>7 DEF Done
  <2> QED
    BY <2>1, <1>7 DEF DoneIsCopied
<1> QED
  BY <1>1, <1>8, <1>9, <1>10 DEF OrientInvariant, Copying, TurnedOrUntouched

\* A step that keeps the image and the orientation keeps the sizes and the offsets.
LEMMA StepsKeep ==
    ASSUME UNCHANGED <<image, turn>>
    PROVE  /\ W' = W /\ H' = H /\ px' = px /\ (image.data)' = image.data /\ Wd' = Wd /\ Hd' = Hd
           /\ Swaps(turn)' = Swaps(turn)
           /\ \A x, y : To(x, y)' = To(x, y) /\ From(x, y)' = From(x, y)
           /\ \A x, y : TileEnd(x, y)' = TileEnd(x, y)
           /\ out' = out => \A x, y : Copied(x, y) => Copied(x, y)'
<1>1. /\ W' = W /\ H' = H /\ px' = px /\ (image.data)' = image.data /\ Wd' = Wd /\ Hd' = Hd
      /\ Swaps(turn)' = Swaps(turn)
      /\ \A x, y : To(x, y)' = To(x, y) /\ From(x, y)' = From(x, y)
  BY DEF To, From, Offset, dst_stride, src_stride, SourceX, SourceY, Swaps, FlipX, FlipY,
         Wd, Hd, W, H, px
<1>2. \A x, y : TileEnd(x, y)' = TileEnd(x, y)
  BY DEF TileEnd
<1> QED
  BY <1>1, <1>2 DEF Copied

LEMMA ShapeKept ==
    ASSUME Shape, UNCHANGED <<image, turn>>, DOMAIN out' = DOMAIN out,
           at' \in [x : Nat, y : Nat], tile' \in [x : Nat, y : Nat]
    PROVE  Shape'
BY StepsKeep DEF Shape

LEMMA CopyRowKeeps == ASSUME OrientInvariant, CopyRow PROVE OrientInvariant'
<1>1. /\ place = "rows" /\ place' = "rows" /\ at.y < Hd /\ image' = image /\ turn' = turn /\ tile' = tile
      /\ at' = [at EXCEPT !.y = @ + 1]
      /\ out' = CopyBytes(at.y * dst_stride, (H - 1 - at.y) * src_stride, src_stride)
  BY DEF CopyRow
<1>2. Shape /\ Walk /\ DoneIsCopied /\ turn = 4
  BY <1>1 DEF OrientInvariant, Copying, Walk
<1>3. at \in [x : Nat, y : Nat] /\ tile \in [x : Nat, y : Nat]
  BY <1>2 DEF Shape
<1>4. at.y \in 0..Hd - 1 /\ at'.x = at.x /\ at'.y = at.y + 1 /\ at' \in [x : Nat, y : Nat]
  BY <1>1, <1>2, <1>3, ShapeFacts
<1>a. PICK row \in 0..Hd - 1 : row = at.y
  BY <1>4
<1>5. /\ DOMAIN out' = DOMAIN out
      /\ \A u \in 0..Wd - 1 : Copied(u, row)'
      /\ \A u \in 0..Wd - 1, v \in 0..Hd - 1 : v < row /\ Copied(u, v) => Copied(u, v)'
  <2>1. out' = CopyBytes(row * dst_stride, (H - 1 - row) * src_stride, src_stride)
    BY <1>1, <1>a
  <2> QED
    BY <1>1, <1>2, <2>1, RowCopied
<1>6. Shape'
  BY <1>1, <1>2, <1>3, <1>4, <1>5, ShapeKept
<1>7. Walk'
  BY <1>1, <1>2 DEF Walk
<1>8. DoneIsCopied'
  <2>1. ASSUME NEW x \in 0..Wd - 1, NEW y \in 0..Hd - 1, Done(x, y)'
        PROVE  Copied(x, y)'
    <3>1. y < row + 1
      BY <1>1, <1>2, <1>4, <1>a, <2>1 DEF Done, Swaps
    <3>2. CASE y = row
      BY <1>5, <3>2
    <3>3. CASE y < row
      <4>1. Done(x, y)
        BY <1>2, <1>a, <3>3 DEF Done, Swaps
      <4> QED
        BY <1>2, <1>5, <3>3, <4>1 DEF DoneIsCopied
    <3> QED
      BY <3>1, <3>2, <3>3
  <2> QED
    BY <1>1, <2>1, StepsKeep DEF DoneIsCopied
<1> QED
  BY <1>1, <1>6, <1>7, <1>8 DEF OrientInvariant, Copying, TurnedOrUntouched

\* The row starts at the offsets of its first pixel.
LEMMA StartRowKeeps == ASSUME OrientInvariant, StartRow PROVE OrientInvariant'
<1>1. /\ place = "start" /\ at.y < Hd /\ image' = image /\ turn' = turn /\ tile' = tile /\ at' = at
      /\ out' = out /\ soff' = RowStart /\ doff' = To(at.x, at.y)
      /\ place' = IF Swaps(turn) THEN "tile" ELSE "mirror"
  BY DEF StartRow, To
<1>2. Shape /\ Walk /\ DoneIsCopied
  BY <1>1 DEF OrientInvariant, Copying
<1>3. at \in [x : Nat, y : Nat] /\ tile \in [x : Nat, y : Nat] /\ Tile \in Nat \ {0}
  BY <1>2, OrientAssumption DEF Shape
<1>4. Shape'
  BY <1>1, <1>2, <1>3, ShapeKept
<1>5. Wd \in Nat \ {0} /\ Hd \in Nat \ {0}
  BY <1>2, ShapeFacts
<1>6. CASE Swaps(turn)
  <2>1. /\ at.x = tile.x /\ tile.x < Wd /\ tile.y <= at.y
        /\ at.y = tile.y \/ at.y < TileEnd(tile.y, Hd)
    BY <1>1, <1>2, <1>6 DEF Walk
  <2>2. at.y < TileEnd(tile.y, Hd) /\ at.x <= TileEnd(tile.x, Wd)
    BY <1>1, <1>3, <1>5, <2>1 DEF TileEnd
  <2>3. soff' = Wrap(From(at.x, at.y))
    <3>1. at.x \in 0..Wd - 1 /\ at.y \in 0..Hd - 1
      BY <1>1, <1>3, <1>5, <2>1
    <3>2. Wrap(From(at.x, at.y)) = From(at.x, at.y)
      <4>1. 0 \in 0..px - 1
        BY <1>2 DEF Shape
      <4>2. From(at.x, at.y) \in 0..SizeMax
        BY <1>2, <3>1, <4>1, PixelOffsets
      <4> QED
        BY <4>2, WrapKeeps
    <3> QED
      BY <1>1, <1>6, <3>2 DEF RowStart, From, SourceX, SourceY
  <2>4. Walk'
    <3>1. /\ place' = "tile" /\ Swaps(turn)' /\ Wd' = Wd /\ Hd' = Hd
          /\ doff' = To(at.x, at.y)' /\ soff' = Wrap(From(at.x, at.y))'
      <4>1. To(at.x, at.y)' = To(at.x, at.y) /\ From(at.x, at.y)' = From(at.x, at.y)
        BY <1>1, StepsKeep
      <4> QED
        BY <1>1, <1>6, <2>3, <4>1, StepsKeep DEF Wrap
    <3>2. /\ tile'.x < Wd' /\ tile'.x <= at'.x /\ at'.x <= TileEnd(tile.x, Wd)'
          /\ tile'.y <= at'.y /\ at'.y < TileEnd(tile.y, Hd)'
      BY <1>1, <1>3, <2>1, <2>2, <3>1 DEF TileEnd
    <3> QED
      BY <3>1, <3>2 DEF Walk
  <2>5. ASSUME NEW x \in 0..Wd - 1, NEW y \in 0..Hd - 1, Done(x, y)'
        PROVE  Done(x, y)
    <3>1. y \in Nat /\ x \in Nat
      BY <1>5
    <3>2. at.y < tile.y + Tile
      BY <1>3, <1>5, <2>2 DEF TileEnd
    <3> QED
      BY <1>1, <1>3, <1>6, <2>1, <2>5, <3>1, <3>2 DEF Done
  <2>6. DoneIsCopied'
    BY <1>1, <1>2, <2>5, StepsKeep DEF DoneIsCopied
  <2> QED
    BY <1>1, <1>4, <2>4, <2>6, <1>6 DEF OrientInvariant, Copying, TurnedOrUntouched
<1>7. CASE ~Swaps(turn)
  <2>1. at.x = 0 /\ turn \in {2, 3}
    BY <1>1, <1>2, <1>7 DEF Walk, Shape, Swaps
  <2>2. soff' = Wrap((W - 1 - at.x) * px)
    <3>1. soff' = (W - 1) * px /\ W - 1 - at.x = W - 1
      BY <1>1, <1>2, <1>7, <2>1 DEF RowStart, Shape
    <3>2. (W - 1) * px \in 0..SizeMax
      BY <1>2, W - 1 \in 0..W - 1, ColumnFits DEF Shape
    <3> QED
      BY <3>1, <3>2, WrapKeeps
  <2>3. Walk'
    BY <1>1, <1>2, <1>7, <2>1, <2>2, StepsKeep DEF Walk, Shape
  <2>4. ASSUME NEW x \in 0..Wd - 1, NEW y \in 0..Hd - 1, Done(x, y)'
        PROVE  Done(x, y)
    BY <1>1, <1>7, <2>1, <2>4, StepsKeep DEF Done
  <2>5. DoneIsCopied'
    BY <1>1, <1>2, <2>4, StepsKeep DEF DoneIsCopied
  <2> QED
    BY <1>1, <1>4, <2>3, <2>5, <1>7 DEF OrientInvariant, Copying, TurnedOrUntouched
<1> QED
  BY <1>6, <1>7

LEMMA CopyMirroredKeeps == ASSUME OrientInvariant, CopyMirrored PROVE OrientInvariant'
<1>1. /\ place = "mirror" /\ place' = "mirror" /\ at.x < W
      /\ image' = image /\ turn' = turn /\ tile' = tile
      /\ at' = [at EXCEPT !.x = @ + 1] /\ doff' = doff + px /\ soff' = Wrap(soff - px)
      /\ out' = CopyBytes(doff, MirroredRow + soff, px)
  BY DEF CopyMirrored
<1>2. Shape /\ Walk /\ DoneIsCopied
  BY <1>1 DEF OrientInvariant, Copying
<1>3. /\ turn \in {2, 3} /\ at.x <= W /\ at.y < Hd
      /\ doff = To(at.x, at.y) /\ soff = Wrap((W - 1 - at.x) * px)
  BY <1>1, <1>2 DEF Walk
<1>4. /\ W \in Nat \ {0} /\ H \in Nat \ {0} /\ px \in Nat \ {0} /\ Wd = W /\ Hd = H
      /\ at \in [x : Nat, y : Nat] /\ tile \in [x : Nat, y : Nat] /\ ~Swaps(turn)
  BY <1>2, <1>3 DEF Shape, Wd, Hd, Swaps
<1>5. PICK col \in 0..Wd - 1, row \in 0..Hd - 1 : col = at.x /\ row = at.y
  BY <1>1, <1>3, <1>4
<1>6. at'.x = col + 1 /\ at'.y = row /\ at' \in [x : Nat, y : Nat]
  BY <1>1, <1>4, <1>5
<1>7. soff = (W - 1 - col) * px
  BY <1>2, <1>3, <1>4, <1>5, W - 1 - col \in 0..W - 1, ColumnFits, WrapKeeps
<1>8. MirroredRow + soff = From(col, row)
  <2>1. From(col, row) = SourceY(col, row) * src_stride + (W - 1 - col) * px
    BY <1>3, <1>4 DEF From, Offset, SourceX
  <2>2. MirroredRow = SourceY(col, row) * src_stride
    BY <1>3, <1>4, <1>5 DEF MirroredRow, SourceY
  <2> QED
    BY <1>7, <2>1, <2>2
<1>9. /\ DOMAIN out' = DOMAIN out
      /\ Copied(col, row)'
      /\ \A u \in 0..Wd - 1, v \in 0..Hd - 1 : Copied(u, v) => Copied(u, v)'
  <2>1. out' = CopyBytes(To(col, row), From(col, row), px)
    BY <1>1, <1>3, <1>5, <1>8
  <2> QED
    BY <1>1, <1>2, <2>1, PixelCopied
<1>10. Shape'
  BY <1>1, <1>2, <1>4, <1>6, <1>9, ShapeKept
<1>11. Walk'
  <2>1. doff' = To(col + 1, row)
    <3>1. To(col, row) = row * dst_stride + col * px /\ To(col + 1, row) = row * dst_stride + (col + 1) * px
      BY DEF To, Offset
    <3>2. (col + 1) * px = col * px + px /\ col * px \in Int /\ row * dst_stride \in Int
      BY <1>2, <1>4, ShapeFacts
    <3> QED
      BY <1>1, <1>3, <1>4, <1>5, <3>1, <3>2
  <2>2. soff' = Wrap((W - 1 - (col + 1)) * px)
    <3> DEFINE a == (W - 1 - col) * px
    <3>1. a \in Int /\ (W - 1 - (col + 1)) * px = a + (0 - px)
      BY <1>4
    <3>2. soff - px = Wrap(a) + (0 - px) /\ soff = Wrap(a)
      <4>1. soff = Wrap(a) /\ soff \in Int
        BY <1>3, <1>5, <1>7, <3>1
      <4> QED
        BY <4>1, <1>4
    <3>3. Wrap(Wrap(a) + (0 - px)) = Wrap(a + (0 - px))
      BY <1>4, <3>1, WrapSum
    <3> QED
      BY <1>1, <3>1, <3>2, <3>3
  <2>3. To(at.x, at.y)' = To(col + 1, row)
    <3>1. \A x, y : To(x, y)' = To(x, y)
      BY <1>1, StepsKeep
    <3> QED
      BY <1>6, <3>1
  <2>4. Wrap((W - 1 - at.x) * px)' = Wrap((W - 1 - (col + 1)) * px)
    BY <1>1, <1>6, StepsKeep DEF Wrap
  <2>5. at'.x <= W' /\ at'.y < Hd'
    BY <1>1, <1>3, <1>4, <1>5, <1>6, StepsKeep
  <2> QED
    BY <1>1, <1>3, <2>1, <2>2, <2>3, <2>4, <2>5 DEF Walk
<1>12. DoneIsCopied'
  <2>1. ASSUME NEW x \in 0..Wd - 1, NEW y \in 0..Hd - 1, Done(x, y)'
        PROVE  Copied(x, y)'
    <3>1. ~Swaps(turn') /\ at'.x = col + 1 /\ at'.y = row /\ place' = "mirror"
      BY <1>1, <1>4, <1>6
    <3>2. y < row \/ (y = row /\ x < col + 1)
      BY <2>1, <3>1 DEF Done
    <3>3. CASE x = col /\ y = row
      BY <1>9, <3>3
    <3>4. CASE ~(x = col /\ y = row)
      <4>1. y < at.y \/ (y = at.y /\ x < at.x)
        BY <1>4, <1>5, <3>2, <3>4
      <4>2. Done(x, y)
        BY <1>1, <1>4, <4>1 DEF Done
      <4> QED
        BY <1>2, <1>9, <4>2 DEF DoneIsCopied
    <3> QED
      BY <3>3, <3>4
  <2> QED
    BY <1>1, <2>1, StepsKeep DEF DoneIsCopied
<1> QED
  BY <1>1, <1>10, <1>11, <1>12 DEF OrientInvariant, Copying, TurnedOrUntouched

LEMMA EndMirroredKeeps == ASSUME OrientInvariant, EndMirrored PROVE OrientInvariant'
<1>1. /\ place = "mirror" /\ place' = "start" /\ at.x >= W
      /\ image' = image /\ turn' = turn /\ tile' = tile /\ out' = out
      /\ at' = [x |-> 0, y |-> at.y + 1]
  BY DEF EndMirrored
<1>2. Shape /\ Walk /\ DoneIsCopied
  BY <1>1 DEF OrientInvariant, Copying
<1>a. turn \in {2, 3}
  BY <1>1, <1>2 DEF Walk
<1>3. /\ turn \in {2, 3} /\ W \in Nat \ {0} /\ H \in Nat \ {0} /\ Wd = W /\ Hd = H
      /\ at \in [x : Nat, y : Nat] /\ tile \in [x : Nat, y : Nat] /\ ~Swaps(turn)
  BY <1>2, <1>a DEF Shape, Wd, Hd, Swaps
<1>4. at'.x = 0 /\ at'.y = at.y + 1 /\ at' \in [x : Nat, y : Nat]
  BY <1>1, <1>3
<1>5. Shape'
  BY <1>1, <1>2, <1>3, <1>4, ShapeKept
<1>6. Walk'
  BY <1>1, <1>3, <1>4 DEF Walk
<1>7. ASSUME NEW x \in 0..Wd - 1, NEW y \in 0..Hd - 1, Done(x, y)'
      PROVE  Done(x, y)
  <2>1. ~Swaps(turn') /\ at'.y = at.y + 1 /\ place' = "start"
    BY <1>1, <1>3, <1>4
  <2>2. y < at.y + 1 /\ x < at.x
    BY <1>1, <1>3, <1>7, <2>1 DEF Done
  <2> QED
    BY <1>1, <1>3, <2>2 DEF Done
<1>8. DoneIsCopied'
  BY <1>1, <1>2, <1>7, StepsKeep DEF DoneIsCopied
<1> QED
  BY <1>1, <1>5, <1>6, <1>8 DEF OrientInvariant, Copying, TurnedOrUntouched

LEMMA CopyTransposedKeeps == ASSUME OrientInvariant, CopyTransposed PROVE OrientInvariant'
<1>1. /\ place = "tile" /\ place' = "tile" /\ at.x < TileEnd(tile.x, Wd)
      /\ image' = image /\ turn' = turn /\ tile' = tile
      /\ at' = [at EXCEPT !.x = @ + 1] /\ doff' = doff + px /\ soff' = Wrap(soff + RowStep)
      /\ out' = CopyBytes(doff, soff, px)
  BY DEF CopyTransposed
<1>2. Shape /\ Walk /\ DoneIsCopied
  BY <1>1 DEF OrientInvariant, Copying
<1>3. /\ Swaps(turn) /\ tile.x < Wd /\ tile.x <= at.x /\ tile.y <= at.y /\ at.y < TileEnd(tile.y, Hd)
      /\ doff = To(at.x, at.y) /\ soff = Wrap(From(at.x, at.y))
  BY <1>1, <1>2 DEF Walk
<1>4. /\ W \in Nat \ {0} /\ H \in Nat \ {0} /\ px \in Nat \ {0} /\ Tile \in Nat \ {0}
      /\ Wd \in Nat \ {0} /\ Hd \in Nat \ {0} /\ src_stride \in Nat /\ dst_stride \in Nat
      /\ at \in [x : Nat, y : Nat] /\ tile \in [x : Nat, y : Nat] /\ 0 \in 0..px - 1
  <2>1. /\ W \in Nat \ {0} /\ H \in Nat \ {0} /\ px \in Nat \ {0}
        /\ at \in [x : Nat, y : Nat] /\ tile \in [x : Nat, y : Nat]
    BY <1>2 DEF Shape
  <2> QED
    BY <1>2, <2>1, ShapeFacts, OrientAssumption
<1>5. PICK col \in 0..Wd - 1, row \in 0..Hd - 1 : col = at.x /\ row = at.y
  <2>1. at.x \in 0..Wd - 1 /\ at.y \in 0..Hd - 1
    BY <1>1, <1>3, <1>4 DEF TileEnd
  <2> QED
    BY <2>1
<1>6. at'.x = col + 1 /\ at'.y = row /\ at' \in [x : Nat, y : Nat]
  BY <1>1, <1>4, <1>5
<1>7. soff = From(col, row) /\ From(col, row) \in Nat
  <2>1. From(col, row) \in 0..SizeMax /\ From(col, row) \in Nat
    BY <1>2, <1>4, PixelOffsets
  <2> QED
    BY <1>3, <1>5, <2>1, WrapKeeps
<1>8. /\ DOMAIN out' = DOMAIN out
      /\ Copied(col, row)'
      /\ \A u \in 0..Wd - 1, v \in 0..Hd - 1 : Copied(u, v) => Copied(u, v)'
  <2>1. out' = CopyBytes(To(col, row), From(col, row), px)
    BY <1>1, <1>3, <1>5, <1>7
  <2> QED
    BY <1>1, <1>2, <2>1, PixelCopied
<1>9. Shape'
  BY <1>1, <1>2, <1>4, <1>6, <1>8, ShapeKept
<1>10. Walk'
  <2>1. doff' = To(col + 1, row)
    <3>1. To(col, row) = row * dst_stride + col * px /\ To(col + 1, row) = row * dst_stride + (col + 1) * px
      BY DEF To, Offset
    <3>2. (col + 1) * px = col * px + px /\ col * px \in Int /\ row * dst_stride \in Int
      BY <1>4
    <3> QED
      BY <1>1, <1>3, <1>4, <1>5, <3>1, <3>2
  <2>2. soff' = Wrap(From(col + 1, row))
    <3> DEFINE f == From(col, row)  s == src_stride
    <3>1. f = SourceY(col, row) * s + SourceX(col, row) * px
      BY DEF From, Offset
    <3>2. From(col + 1, row) = SourceY(col + 1, row) * s + SourceX(col, row) * px
      BY <1>3 DEF From, Offset, SourceX
    <3>3. SourceX(col, row) * px \in Int /\ SourceY(col, row) \in Int
      BY <1>2, <1>4, SourceInside
    <3>4. CASE FlipY
      <4>1. SourceY(col, row) = H - 1 - col /\ SourceY(col + 1, row) = H - 1 - (col + 1)
        BY <1>3, <3>4 DEF SourceY
      <4>2. SourceY(col + 1, row) * s = SourceY(col, row) * s - s /\ SourceY(col, row) * s \in Int
        BY <1>4, <4>1
      <4>3. From(col + 1, row) = (0 - s) + f
        BY <1>4, <3>1, <3>2, <3>3, <4>2
      <4>4. RowStep = Wrap(0 - s)
        BY <3>4 DEF RowStep
      <4>5. Wrap(Wrap(0 - s) + f) = Wrap((0 - s) + f) /\ Wrap(0 - s) \in 0..SizeMax
        <5>1. 0 - s \in Int /\ f \in Int
          BY <1>4, <1>7
        <5> HIDE DEF f, s
        <5> QED
          BY <5>1, WrapSum
      <4>6. soff + RowStep = Wrap(0 - s) + f
        BY <1>7, <4>4, <4>5
      <4> QED
        BY <1>1, <4>3, <4>5, <4>6
    <3>5. CASE ~FlipY
      <4>1. SourceY(col, row) = col /\ SourceY(col + 1, row) = col + 1
        BY <1>3, <3>5 DEF SourceY
      <4>2. SourceY(col + 1, row) * s = SourceY(col, row) * s + s /\ SourceY(col, row) * s \in Int
        BY <1>4, <4>1
      <4>3. From(col + 1, row) = f + s
        BY <1>4, <3>1, <3>2, <3>3, <4>2
      <4>4. RowStep = s
        BY <3>5 DEF RowStep
      <4> QED
        BY <1>1, <1>7, <4>3, <4>4
    <3> QED
      BY <3>4, <3>5
  <2>3. To(at.x, at.y)' = To(col + 1, row) /\ Wrap(From(at.x, at.y))' = Wrap(From(col + 1, row))
    <3>1. \A x, y : To(x, y)' = To(x, y) /\ From(x, y)' = From(x, y)
      BY <1>1, StepsKeep
    <3>2. To(at.x, at.y)' = To(col + 1, row) /\ From(at.x, at.y)' = From(col + 1, row)
      BY <1>6, <3>1
    <3> QED
      BY <3>2 DEF Wrap
  <2>4. Swaps(turn)' /\ Wd' = Wd /\ Hd' = Hd
    BY <1>1, <1>3, StepsKeep
  <2>5. /\ tile'.x < Wd' /\ tile'.x <= at'.x /\ at'.x <= TileEnd(tile.x, Wd)'
        /\ tile'.y <= at'.y /\ at'.y < TileEnd(tile.y, Hd)'
    BY <1>1, <1>3, <1>4, <1>5, <1>6, <2>4 DEF TileEnd
  <2> QED
    BY <1>1, <2>1, <2>2, <2>3, <2>4, <2>5 DEF Walk
<1>11. DoneIsCopied'
  <2>1. ASSUME NEW x \in 0..Wd - 1, NEW y \in 0..Hd - 1, Done(x, y)'
        PROVE  Copied(x, y)'
    <3>1. CASE x = col /\ y = row
      BY <1>8, <3>1
    <3>2. CASE ~(x = col /\ y = row)
      <4>1. Swaps(turn') /\ at'.x = col + 1 /\ at'.y = row /\ place' = "tile"
        BY <1>1, <1>3, <1>6
      <4>2. Done(x, y)
        BY <1>1, <1>3, <1>4, <1>5, <2>1, <3>2, <4>1 DEF Done
      <4> QED
        BY <1>2, <1>8, <4>2 DEF DoneIsCopied
    <3> QED
      BY <3>1, <3>2
  <2> QED
    BY <1>1, <2>1, StepsKeep DEF DoneIsCopied
<1> QED
  BY <1>1, <1>9, <1>10, <1>11 DEF OrientInvariant, Copying, TurnedOrUntouched

\* The next row of the tile, or the next tile.
LEMMA EndRowKeeps == ASSUME OrientInvariant, EndRow PROVE OrientInvariant'
<1> DEFINE next == NextTile(tile.x + Tile)
<1>1. /\ place = "tile" /\ place' = "start" /\ at.x >= TileEnd(tile.x, Wd)
      /\ image' = image /\ turn' = turn /\ out' = out
      /\ IF at.y + 1 < TileEnd(tile.y, Hd)
         THEN at' = [x |-> tile.x, y |-> at.y + 1] /\ tile' = tile
         ELSE tile' = next /\ at' = next
  BY DEF EndRow, EndRowThen
<1>2. Shape /\ Walk /\ DoneIsCopied
  BY <1>1 DEF OrientInvariant, Copying
<1>3. /\ Swaps(turn) /\ tile.x < Wd /\ tile.x <= at.x /\ tile.y <= at.y /\ at.y < TileEnd(tile.y, Hd)
      /\ turn \in 5..8
  <2>1. Swaps(turn) /\ turn \in 2..8
    BY <1>1, <1>2 DEF Walk, Shape
  <2> QED
    BY <1>1, <1>2, <2>1 DEF Walk, Swaps
<1>4. /\ Tile \in Nat \ {0} /\ Wd \in Nat \ {0} /\ Hd \in Nat \ {0}
      /\ at \in [x : Nat, y : Nat] /\ tile \in [x : Nat, y : Nat]
  <2>1. at \in [x : Nat, y : Nat] /\ tile \in [x : Nat, y : Nat]
    BY <1>2 DEF Shape
  <2> QED
    BY <1>2, <2>1, ShapeFacts, OrientAssumption
<1>5. Swaps(turn') /\ Wd' = Wd /\ Hd' = Hd
  BY <1>1, <1>3, StepsKeep
\* The row is done to the end of the tile.
<1>6. ASSUME NEW x \in 0..Wd - 1, NEW y \in 0..Hd - 1, y < at.y + 1, x < tile.x + Tile
      PROVE  Done(x, y)
  <2>1. x < at.x
    BY <1>1, <1>4, <1>6 DEF TileEnd
  <2> QED
    BY <1>1, <1>3, <1>4, <1>6, <2>1 DEF Done
<1>7. CASE at.y + 1 < TileEnd(tile.y, Hd)
  <2>1. at'.x = tile.x /\ at'.y = at.y + 1 /\ at' \in [x : Nat, y : Nat] /\ tile' = tile
    BY <1>1, <1>4, <1>7
  <2>2. Shape'
    BY <1>1, <1>2, <1>4, <2>1, ShapeKept
  <2>3. Walk'
    <3>1. at'.y < TileEnd(tile.y, Hd)' /\ tile'.y <= at'.y /\ turn' # 4
      BY <1>1, <1>3, <1>4, <1>5, <1>7, <2>1 DEF TileEnd
    <3> QED
      BY <1>1, <1>3, <1>5, <2>1, <3>1 DEF Walk
  <2>4. ASSUME NEW x \in 0..Wd - 1, NEW y \in 0..Hd - 1, Done(x, y)'
        PROVE  Done(x, y)
    <3>1. y < tile.y \/ (y < tile.y + Tile /\ x < tile.x) \/ (y < at.y + 1 /\ x < tile.x + Tile)
      BY <1>1, <1>5, <2>1, <2>4 DEF Done
    <3> QED
      BY <1>3, <1>6, <3>1 DEF Done
  <2>5. DoneIsCopied'
    BY <1>1, <1>2, <2>4, StepsKeep DEF DoneIsCopied
  <2> QED
    BY <1>1, <2>2, <2>3, <2>5 DEF OrientInvariant, Copying, TurnedOrUntouched
<1>8. CASE ~(at.y + 1 < TileEnd(tile.y, Hd))
  <2>1. /\ tile' = next /\ at' = next /\ next \in [x : Nat, y : Nat] /\ next.x < Wd
        /\ (next.x = tile.x + Tile /\ next.y = tile.y)
           \/ (next.x = 0 /\ next.y = tile.y + Tile /\ Wd <= tile.x + Tile)
    <3>1. tile' = next /\ at' = next
      BY <1>1, <1>8
    <3> QED
      BY <1>4, <3>1 DEF NextTile
  <2> HIDE DEF next
  <2>2. Shape'
    BY <1>1, <1>2, <2>1, ShapeKept
  <2>3. Walk'
    BY <1>1, <1>3, <1>4, <1>5, <2>1 DEF Walk
  <2>4. ASSUME NEW x \in 0..Wd - 1, NEW y \in 0..Hd - 1, Done(x, y)'
        PROVE  Done(x, y)
    <3>1. y < next.y \/ (y < next.y + Tile /\ x < next.x)
      BY <1>1, <1>5, <2>1, <2>4, y \in Int, next.y \in Int DEF Done
    <3>2. y < tile.y \/ (y < tile.y + Tile /\ x < tile.x + Tile)
      BY <1>4, <2>1, <3>1
    <3>3. y < tile.y + Tile => y < at.y + 1
      BY <1>3, <1>4, <1>8 DEF TileEnd
    <3> QED
      BY <1>3, <1>6, <3>2, <3>3 DEF Done
  <2>5. DoneIsCopied'
    BY <1>1, <1>2, <2>4, StepsKeep DEF DoneIsCopied
  <2> QED
    BY <1>1, <2>2, <2>3, <2>5 DEF OrientInvariant, Copying, TurnedOrUntouched
<1> QED
  BY <1>7, <1>8

\* Where the EXIF definition sees a stored pixel, the copy took it from there.
LEMMA SeenFromSource ==
    ASSUME Shape, NEW x \in 0..W - 1, NEW y \in 0..H - 1
    PROVE  /\ SeenX(turn, x, y, W, H) \in 0..Wd - 1 /\ SeenY(turn, x, y, W, H) \in 0..Hd - 1
           /\ SourceX(SeenX(turn, x, y, W, H), SeenY(turn, x, y, W, H)) = x
           /\ SourceY(SeenX(turn, x, y, W, H), SeenY(turn, x, y, W, H)) = y
<1>1. W \in Nat \ {0} /\ H \in Nat \ {0} /\ turn \in 2..8 /\ x \in Nat /\ y \in Nat /\ x < W /\ y < H
  <2>1. W \in Nat \ {0} /\ H \in Nat \ {0} /\ turn \in 2..8
    BY Zenon DEF Shape
  <2>2. x \in 0..W - 1 /\ y \in 0..H - 1
    OBVIOUS
  <2> QED
    BY ONLY <2>1, <2>2
<1>2. CASE turn = 2
  BY <1>1, <1>2 DEF SeenX, SeenY, Seen, RowZero, ColumnZero, Swaps, SourceX, SourceY, Wd, Hd
<1>3. CASE turn = 3
  BY <1>1, <1>3 DEF SeenX, SeenY, Seen, RowZero, ColumnZero, Swaps, SourceX, SourceY, Wd, Hd
<1>4. CASE turn = 4
  BY <1>1, <1>4 DEF SeenX, SeenY, Seen, RowZero, ColumnZero, Swaps, SourceX, SourceY, Wd, Hd
<1>5. CASE turn = 5
  BY <1>1, <1>5 DEF SeenX, SeenY, Seen, RowZero, ColumnZero, Swaps, SourceX, SourceY, Wd, Hd, FlipX, FlipY
<1>6. CASE turn = 6
  BY <1>1, <1>6 DEF SeenX, SeenY, Seen, RowZero, ColumnZero, Swaps, SourceX, SourceY, Wd, Hd, FlipX, FlipY
<1>7. CASE turn = 7
  BY <1>1, <1>7 DEF SeenX, SeenY, Seen, RowZero, ColumnZero, Swaps, SourceX, SourceY, Wd, Hd, FlipX, FlipY
<1>8. CASE turn = 8
  BY <1>1, <1>8 DEF SeenX, SeenY, Seen, RowZero, ColumnZero, Swaps, SourceX, SourceY, Wd, Hd, FlipX, FlipY
<1> QED
  BY <1>1, <1>2, <1>3, <1>4, <1>5, <1>6, <1>7, <1>8

LEMMA InstallKeeps == ASSUME OrientInvariant, Install PROVE OrientInvariant'
<1>1. /\ place \in {"rows", "start"} /\ at.y >= Hd /\ place' = "returned" /\ answer' = "SUCCESS"
      /\ image' = [image EXCEPT !.width = Wd, !.height = Hd, !.data = out] /\ turn' = turn
  BY DEF Install
<1>2. Shape /\ Walk /\ DoneIsCopied
  BY <1>1 DEF OrientInvariant, Copying
<1>3. /\ W \in Nat \ {0} /\ H \in Nat \ {0} /\ turn \in 2..8 /\ Wd \in Nat \ {0} /\ Hd \in Nat \ {0}
      /\ at \in [x : Nat, y : Nat] /\ tile \in [x : Nat, y : Nat] /\ Tile \in Nat \ {0}
  <2>1. /\ W \in Nat \ {0} /\ H \in Nat \ {0} /\ turn \in 2..8
        /\ at \in [x : Nat, y : Nat] /\ tile \in [x : Nat, y : Nat]
    BY <1>2 DEF Shape
  <2> QED
    BY <1>2, <2>1, ShapeFacts, OrientAssumption
<1>4. ASSUME NEW x \in 0..Wd - 1, NEW y \in 0..Hd - 1
      PROVE  Copied(x, y)
  <2>1. y < at.y
    BY <1>1, <1>3
  <2>2. Swaps(turn) => at.y = tile.y
    <3>1. Swaps(turn) => place = "start"
      BY <1>1, <1>2 DEF Walk, Swaps
    <3> QED
      BY <1>1, <1>2, <1>3, <3>1 DEF Walk, TileEnd
  <2>3. Done(x, y)
    BY <2>1, <2>2 DEF Done
  <2> QED
    BY <1>2, <2>3 DEF DoneIsCopied
<1>5. W' = Wd /\ H' = Hd /\ px' = px /\ (image.data)' = out
  <2>1. image = [width |-> W, height |-> H, channels |-> px, data |-> image.data]
    BY <1>2 DEF Shape
  <2> DEFINE w == W  h == H  count == px  stored == image.data  wide == Wd  high == Hd
  <2>a. /\ image = [width |-> w, height |-> h, channels |-> count, data |-> stored]
        /\ image' = [image EXCEPT !.width = wide, !.height = high, !.data = out]
    BY <1>1, <2>1
  <2> HIDE DEF w, h, count, stored, wide, high
  <2>b. image' = [width |-> wide, height |-> high, channels |-> count, data |-> out]
    BY <2>a
  <2>2. image' = [width |-> Wd, height |-> Hd, channels |-> px, data |-> out]
    BY <2>b DEF wide, high, count
  <2> QED
    BY <2>2 DEF W, H, px
<1>6. StoredWidth' = W /\ StoredHeight' = H
  BY <1>1, <1>3, <1>5 DEF StoredWidth, StoredHeight, Wd, Hd, Swaps
<1>7. ASSUME NEW x \in 0..W - 1, NEW y \in 0..H - 1, NEW c \in 0..px - 1
      PROVE  out[Offset(Wd * px, SeenX(turn, x, y, W, H), SeenY(turn, x, y, W, H)) + c]
                = Offset(W * px, x, y) + c
  <2> DEFINE u == SeenX(turn, x, y, W, H)  v == SeenY(turn, x, y, W, H)
  <2>1. u \in 0..Wd - 1 /\ v \in 0..Hd - 1 /\ SourceX(u, v) = x /\ SourceY(u, v) = y
    BY <1>2, SeenFromSource
  <2> HIDE DEF u, v
  <2>2. out[To(u, v) + c] = From(u, v) + c
    BY <1>4, <2>1 DEF Copied
  <2>3. To(u, v) = Offset(Wd * px, u, v) /\ From(u, v) = Offset(W * px, x, y)
    BY <2>1 DEF To, From, dst_stride, src_stride
  <2> QED
    BY <2>2, <2>3 DEF u, v
<1>8. Upright(turn, StoredWidth, StoredHeight)'
  <2>1. src_stride' = Wd * px
    BY <1>5 DEF src_stride
  <2> SUFFICES ASSUME NEW x \in 0..W - 1, NEW y \in 0..H - 1, NEW c \in 0..px - 1
               PROVE  out[Offset(Wd * px, SeenX(turn, x, y, W, H), SeenY(turn, x, y, W, H)) + c]
                         = Offset(W * px, x, y) + c
    BY <1>1, <1>5, <1>6, <2>1 DEF Upright, Offset, SeenX, SeenY
  <2> QED
    BY <1>7
<1>9. TurnedOrUntouched'
  BY <1>1, <1>3, <1>8 DEF TurnedOrUntouched
<1> QED
  BY <1>1, <1>9 DEF OrientInvariant, Copying

\* OrientInvariant: an idle call stands at the corner; a call that was made has the image
\* as it is stored; while it copies, every pixel the walk has passed holds the bytes of
\* the source pixel its orientation names, and the two offsets are those of the pixel it
\* stands at, the source's modulo SizeMax + 1; what is returned is turned or untouched.
THEOREM OrientInductive == OrientSpec => []OrientInvariant
<1>1. OrientIdle => OrientInvariant
  BY DEF OrientIdle, OrientInvariant, Copying, TurnedOrUntouched
<1>2. OrientInvariant /\ [OrientNext]_orientVars => OrientInvariant'
  <2> SUFFICES ASSUME OrientInvariant, [OrientNext]_orientVars PROVE OrientInvariant'
    OBVIOUS
  <2>1. ASSUME NEW w \in Sides, NEW h \in Sides, NEW count \in Channels, NEW o \in 0..9,
               OrientCall(w, h, count, o)
        PROVE  OrientInvariant'
    BY <2>1, OrientCallKeeps
  <2>2. CASE NoTurn \/ Refused \/ OutOfMemory
    BY <2>2, NoCopyKeeps
  <2>3. CASE Allocate
    BY <2>3, AllocateKeeps
  <2>4. CASE CopyRow
    BY <2>4, CopyRowKeeps
  <2>5. CASE StartRow
    BY <2>5, StartRowKeeps
  <2>6. CASE CopyMirrored
    BY <2>6, CopyMirroredKeeps
  <2>7. CASE EndMirrored
    BY <2>7, EndMirroredKeeps
  <2>8. CASE CopyTransposed
    BY <2>8, CopyTransposedKeeps
  <2>9. CASE EndRow
    BY <2>9, EndRowKeeps
  <2>10. CASE Install
    BY <2>10, InstallKeeps
  <2>11. CASE OrientReturn
    BY <2>11 DEF OrientReturn, OrientInvariant, Copying, TurnedOrUntouched
  <2>12. CASE UNCHANGED orientVars
    <3>1. UNCHANGED <<image, turn, place, tile, at, soff, doff, out, answer>>
      BY <2>12 DEF orientVars, copying
    <3>2. /\ W' = W /\ H' = H /\ px' = px /\ (image.data)' = image.data /\ Wd' = Wd /\ Hd' = Hd
          /\ \A x, y : To(x, y)' = To(x, y) /\ From(x, y)' = From(x, y)
          /\ \A x, y : TileEnd(x, y)' = TileEnd(x, y)
          /\ \A x, y : Copied(x, y) => Copied(x, y)'
      BY <3>1, StepsKeep
    <3>3. Stored(W, H, px)' = Stored(W, H, px)
      BY <3>2 DEF Stored, Sizeable
    <3>4. Shape => Shape'
      BY <3>1, <3>2 DEF Shape
    <3>5. Walk => Walk'
      BY <3>1, <3>2 DEF Walk, Wrap
    <3>6. DoneIsCopied => DoneIsCopied'
      BY <3>1, <3>2 DEF DoneIsCopied, Done
    <3>7. TurnedOrUntouched => TurnedOrUntouched'
      BY <3>1, <3>2, <3>3 DEF TurnedOrUntouched, Upright, StoredWidth, StoredHeight, src_stride, Offset, SeenX, SeenY
    <3> QED
      BY <3>1, <3>2, <3>3, <3>4, <3>5, <3>6, <3>7 DEF OrientInvariant, Copying
  <2> QED
    BY <2>1, <2>2, <2>3, <2>4, <2>5, <2>6, <2>7, <2>8, <2>9, <2>10, <2>11, <2>12 DEF OrientNext
<1> QED
  BY <1>1, <1>2, PTL DEF OrientSpec

\* Whatever the size of the image and of the tiles, ph_apply_exif_orientation() shows every
\* pixel where the EXIF orientation puts it, or leaves the stored image alone.
THEOREM ImagesAreTurned == OrientSpec => []TurnedOrUntouched
BY OrientInductive, PTL DEF OrientInvariant

\* Its copies read and write inside the two buffers, wrapped offsets included.
THEOREM CopiesStayInside == OrientSpec => []CopiesInside
<1>1. OrientInvariant => CopiesInside
  <2> SUFFICES ASSUME OrientInvariant PROVE CopiesInside
    OBVIOUS
  <2>1. CASE ~Copying
    BY <2>1 DEF CopiesInside, Copying
  <2>2. CASE Copying
    <3>1. Shape /\ Walk
      BY <2>2 DEF OrientInvariant
    <3>2. /\ W \in Nat \ {0} /\ H \in Nat \ {0} /\ px \in Nat \ {0} /\ turn \in 2..8
          /\ at \in [x : Nat, y : Nat] /\ tile \in [x : Nat, y : Nat] /\ 0 \in 0..px - 1 /\ px - 1 \in 0..px - 1
          /\ DOMAIN out = 0..((W * H) * px) - 1 /\ DOMAIN image.data = 0..((W * H) * px) - 1
      BY <3>1 DEF Shape
    <3>3. Wd \in Nat \ {0} /\ Hd \in Nat \ {0} /\ dst_stride = Wd * px /\ src_stride = W * px
          /\ src_stride \in Nat /\ dst_stride \in Nat /\ Tile \in Nat \ {0}
      BY <3>1, ShapeFacts, OrientAssumption
    <3>4. ASSUME NEW x \in 0..Wd - 1, NEW y \in 0..Hd - 1
          PROVE  /\ To(x, y) \in Nat /\ From(x, y) \in 0..SizeMax
                 /\ (To(x, y) + px) - 1 \in DOMAIN out /\ (From(x, y) + px) - 1 \in DOMAIN image.data
      <4>1. /\ To(x, y) \in Nat /\ From(x, y) \in Nat /\ From(x, y) \in 0..SizeMax
            /\ To(x, y) + (px - 1) \in DOMAIN out /\ From(x, y) + (px - 1) \in DOMAIN image.data
        BY <3>1, <3>2, PixelOffsets
      <4>2. (To(x, y) + px) - 1 = To(x, y) + (px - 1) /\ (From(x, y) + px) - 1 = From(x, y) + (px - 1)
        <5>1. \A a, b \in Int : (a + b) - 1 = a + (b - 1)
          OBVIOUS
        <5>2. To(x, y) \in Int /\ From(x, y) \in Int /\ px \in Int
          BY <3>2, <4>1
        <5> QED
          BY ONLY <5>1, <5>2
      <4> QED
        BY <4>1, <4>2
    <3>5. ASSUME place = "rows", at.y < Hd
          PROVE  LET to == at.y * dst_stride  s == (H - 1 - at.y) * src_stride IN
                 /\ to \in Nat /\ s \in Nat
                 /\ (to + src_stride) - 1 \in DOMAIN out /\ (s + src_stride) - 1 \in DOMAIN image.data
      <4> DEFINE row == W * px
      <4>1. turn = 4 /\ Wd = W /\ Hd = H /\ at.y \in 0..H - 1 /\ H - 1 - at.y \in 0..H - 1
            /\ W - 1 \in 0..W - 1
        <5>1. turn = 4
          BY <3>1, <3>5 DEF Walk
        <5>2. Wd = W /\ Hd = H
          BY <5>1 DEF Wd, Hd, Swaps
        <5>3. W \in Nat \ {0} /\ H \in Nat \ {0} /\ at.y \in Nat
          BY <3>2, Zenon
        <5>4. at.y < Hd
          BY <3>5
        <5> QED
          BY ONLY <5>1, <5>2, <5>3, <5>4
      <4>2. ASSUME NEW y \in 0..H - 1
            PROVE  y * row \in Nat /\ (y * row + row) - 1 \in 0..((W * H) * px) - 1
        <5>1. /\ (W - 1) * px + (px - 1) \in 0..row - 1 /\ y * row \in Nat
              /\ (y + 1) * row <= (W * H) * px
          BY <3>2, <4>1, RowBounds
        <5>2. row \in Nat \ {0} /\ (W * H) * px \in Int
          <6>1. W \in Nat \ {0} /\ H \in Nat \ {0} /\ px \in Nat \ {0}
            BY <3>2, Zenon
          <6>2. W * px \in Nat \ {0} /\ (W * H) * px \in Int
            BY ONLY <6>1
          <6> QED
            BY ONLY <6>2 DEF row
        <5> HIDE DEF row
        <5>3. (y + 1) * row = y * row + row
          BY <3>2, <5>2
        <5> QED
          BY <5>1, <5>2, <5>3
      <4>3. src_stride = row /\ dst_stride = row
        BY <3>3, <4>1
      <4> HIDE DEF row
      <4> QED
        BY <3>2, <4>1, <4>2, <4>3
    <3>6. ASSUME place = "mirror", at.x < W
          PROVE  /\ doff \in Nat /\ MirroredRow + soff \in Nat /\ (doff + px) - 1 \in DOMAIN out
                 /\ ((MirroredRow + soff) + px) - 1 \in DOMAIN image.data
      <4>1. /\ turn \in {2, 3} /\ at.y < Hd /\ doff = To(at.x, at.y) /\ soff = Wrap((W - 1 - at.x) * px)
        BY <3>1, <3>6 DEF Walk
      <4>2. Wd = W /\ Hd = H /\ ~Swaps(turn)
        BY <4>1 DEF Wd, Hd, Swaps
      <4>3. PICK col \in 0..Wd - 1, line \in 0..Hd - 1 : col = at.x /\ line = at.y
        <5>1. at.x \in 0..Wd - 1 /\ at.y \in 0..Hd - 1
          <6>1. at.x \in Nat /\ at.y \in Nat /\ Wd \in Nat /\ Hd \in Nat
            BY <3>2, <3>3
          <6>2. at.x < Wd /\ at.y < Hd
            BY <3>6, <4>1, <4>2
          <6> QED
            BY ONLY <6>1, <6>2
        <5> QED
          BY ONLY <5>1
      <4>4. soff = (W - 1 - col) * px
        <5>1. W - 1 - col \in 0..W - 1
          <6>1. W \in Nat \ {0}
            BY <3>2, Zenon
          <6>2. col \in 0..W - 1
            BY <4>2, <4>3
          <6> QED
            BY ONLY <6>1, <6>2
        <5>2. (W - 1 - col) * px \in 0..SizeMax
          BY <3>1, <5>1, ColumnFits
        <5>3. soff = Wrap((W - 1 - col) * px)
          BY <4>1, <4>3
        <5> QED
          BY <5>2, <5>3, WrapKeeps
      <4>5. MirroredRow + soff = From(col, line)
        <5> DEFINE rank == IF turn = 3 THEN H - 1 - line ELSE line  back == W - 1 - col
        <5>1. SourceX(col, line) = back /\ SourceY(col, line) = rank
          BY <4>1, <4>2 DEF SourceX, SourceY
        <5>2. MirroredRow = rank * src_stride /\ soff = back * px
          BY <4>3, <4>4 DEF MirroredRow
        <5> HIDE DEF rank, back
        <5> QED
          BY ONLY <5>1, <5>2 DEF From, Offset
      <4> QED
        BY <3>4, <4>1, <4>3, <4>5, SizeAssumption
    <3>7. ASSUME place = "tile", at.x < TileEnd(tile.x, Wd)
          PROVE  /\ doff \in Nat /\ soff \in Nat /\ (doff + px) - 1 \in DOMAIN out
                 /\ (soff + px) - 1 \in DOMAIN image.data
      <4>1. /\ at.y < TileEnd(tile.y, Hd) /\ doff = To(at.x, at.y) /\ soff = Wrap(From(at.x, at.y))
        BY <3>1, <3>7 DEF Walk
      <4>2. PICK col \in 0..Wd - 1, line \in 0..Hd - 1 : col = at.x /\ line = at.y
        <5>1. at.x \in 0..Wd - 1 /\ at.y \in 0..Hd - 1
          BY <3>2, <3>3, <3>7, <4>1 DEF TileEnd
        <5> QED
          BY ONLY <5>1
      <4>3. soff = From(col, line)
        BY <3>4, <4>1, <4>2, WrapKeeps
      <4> QED
        BY <3>4, <4>1, <4>2, <4>3, SizeAssumption
    <3> QED
      BY <3>5, <3>6, <3>7 DEF CopiesInside
  <2> QED
    BY <2>1, <2>2
<1> QED
  BY <1>1, OrientInductive, PTL

-----------------------------------------------------------------------------
\* Config.  The computations' ranges, and that the kernel is not larger than the image,
\* are kept by every setter; the third gray weight is what the first two leave.

Weights ==
    /\ config.gray \in [1..3 -> Nat]
    /\ config.gray[1] + config.gray[2] + config.gray[3] = GrayScale

PhashFits  == config.dct \in 1..32 /\ config.reduction \in 4..8 /\ config.reduction <= config.dct
RadialFits == /\ config.projections \in Nat /\ config.projections >= RadialCoeffs
              /\ config.samples \in Nat /\ config.samples >= 2
              /\ config.sigma \in 1..128
BlockFits  == config.block \in 2..32
MhashFits  == KernelFits /\ config.mhSize \in Nat /\ config.mhSize >= 2 * MhGrid

Selections == config.alpha \in AlphaModes /\ config.whash \in WhashModes /\ config.scale \in DecodeScales

Keys == {"gray", "dct", "reduction", "mhAlpha", "mhLevel", "mhSize", "projections", "samples", "sigma",
         "block", "gamma", "whash", "removeLL", "maxPixels", "scale", "loadGray", "alpha", "autoOrient"}

ConfigInvariant ==
    /\ DOMAIN config = Keys
    /\ Weights /\ PhashFits /\ RadialFits /\ BlockFits /\ MhashFits /\ Selections

\* However the weights divide, the rest that the third one gets is not negative.
LEMMA NormalisedWeights ==
    ASSUME NEW w, \A k \in 1..3 : w[k] \in Nat, Sum3(w) > 0
    PROVE  /\ Normalised(w) \in [1..3 -> Nat]
           /\ Normalised(w)[1] + Normalised(w)[2] + Normalised(w)[3] = GrayScale
<1> DEFINE s == Sum3(w)  r == (w[1] * GrayScale) \div s  g == (w[2] * GrayScale) \div s
<1>1. w[1] \in Nat /\ w[2] \in Nat /\ w[3] \in Nat /\ s \in Nat \ {0}
  BY DEF Sum3
<1> HIDE DEF s
<1>2. r \in Nat /\ r * s <= w[1] * 128
  <2>1. w[1] * GrayScale \in Nat
    BY <1>1 DEF GrayScale
  <2>2. r \in Nat
    BY <1>1, <2>1, SMT
  <2> QED
    BY <1>1, <2>1, <2>2, QuotientBound DEF GrayScale
<1>3. g \in Nat /\ g * s <= w[2] * 128
  <2>1. w[2] * GrayScale \in Nat
    BY <1>1 DEF GrayScale
  <2>2. g \in Nat
    BY <1>1, <2>1, SMT
  <2> QED
    BY <1>1, <2>1, <2>2, QuotientBound DEF GrayScale
<1>4. w[1] * 128 + w[2] * 128 <= s * 128
  BY <1>1 DEF s, Sum3
<1> HIDE DEF r, g
<1>5. r * s + g * s = s * (r + g)
  BY <1>1, <1>2, <1>3
<1>6. s * (r + g) <= s * 128
  BY <1>1, <1>2, <1>3, <1>4, <1>5
<1>7. r + g <= 128
  BY <1>1, <1>2, <1>3, <1>6
<1>8. Normalised(w) = <<r, g, (128 - r) - g>>
  BY DEF r, g, s, Normalised, GrayScale
<1> QED
  BY <1>2, <1>3, <1>7, <1>8 DEF GrayScale

LEMMA ConfigStarts == ConfigIdle => ConfigInvariant
<1> SUFFICES ASSUME ConfigIdle PROVE ConfigInvariant
  OBVIOUS
<1>1. KernelFits
  BY DEF KernelFits, HalfWidth, ConfigIdle, Defaults
<1>2. DOMAIN config = Keys
  BY DEF ConfigIdle, Defaults, Keys
<1>3. Weights
  BY DEF ConfigIdle, Defaults, Weights, GrayScale
<1>4. PhashFits /\ RadialFits /\ BlockFits /\ MhashFits
  BY <1>1 DEF ConfigIdle, Defaults, PhashFits, RadialFits, BlockFits, MhashFits, RadialCoeffs, MhGrid
<1>5. Selections
  BY DEF ConfigIdle, Defaults, Selections, AlphaModes, WhashModes, DecodeScales
<1> QED
  BY <1>2, <1>3, <1>4, <1>5 DEF ConfigInvariant

\* What a setter leaves alone.
Sets(fields) == DOMAIN config' = Keys /\ \A k \in Keys \ fields : config'[k] = config[k]

PhashKeys  == {"dct", "reduction"}
RadialKeys == {"projections", "samples", "sigma"}
MhashKeys  == {"mhAlpha", "mhLevel", "mhSize"}
ModeKeys   == {"alpha", "whash", "scale"}
ReadKeys   == {"gray", "block"} \cup PhashKeys \cup RadialKeys \cup MhashKeys \cup ModeKeys

LEMMA PartsKept ==
    ASSUME ConfigInvariant, NEW fields, Sets(fields)
    PROVE  /\ DOMAIN config' = Keys
           /\ "gray" \notin fields => Weights'
           /\ "block" \notin fields => BlockFits'
           /\ PhashKeys \cap fields = {} => PhashFits'
           /\ RadialKeys \cap fields = {} => RadialFits'
           /\ MhashKeys \cap fields = {} => MhashFits'
           /\ ModeKeys \cap fields = {} => Selections'
<1>1. DOMAIN config' = Keys /\ \A k \in Keys \ fields : config'[k] = config[k]
  BY DEF Sets
<1>2. Weights /\ PhashFits /\ RadialFits /\ BlockFits /\ MhashFits /\ Selections
  BY DEF ConfigInvariant
<1>3. ASSUME NEW keys \in SUBSET Keys, keys \cap fields = {} PROVE \A k \in keys : config'[k] = config[k]
  BY <1>1, <1>3
<1>4. ASSUME "gray" \notin fields PROVE Weights'
  <2>1. config'["gray"] = config["gray"]
    BY <1>1, <1>4 DEF Keys
  <2> QED
    BY <1>2, <2>1 DEF Weights
<1>5. ASSUME "block" \notin fields PROVE BlockFits'
  <2>1. config'["block"] = config["block"]
    BY <1>1, <1>5 DEF Keys
  <2> QED
    BY <1>2, <2>1 DEF BlockFits
<1>6. ASSUME PhashKeys \cap fields = {} PROVE PhashFits'
  <2>1. config'["dct"] = config["dct"] /\ config'["reduction"] = config["reduction"]
    BY <1>3, <1>6 DEF PhashKeys, Keys
  <2> QED
    BY <1>2, <2>1 DEF PhashFits
<1>7. ASSUME RadialKeys \cap fields = {} PROVE RadialFits'
  <2>1. /\ config'["projections"] = config["projections"] /\ config'["samples"] = config["samples"]
        /\ config'["sigma"] = config["sigma"]
    BY <1>3, <1>7 DEF RadialKeys, Keys
  <2> QED
    BY ONLY <1>2, <2>1 DEF RadialFits
<1>8. ASSUME MhashKeys \cap fields = {} PROVE MhashFits'
  <2>1. /\ config'["mhAlpha"] = config["mhAlpha"] /\ config'["mhLevel"] = config["mhLevel"]
        /\ config'["mhSize"] = config["mhSize"]
    BY <1>3, <1>8 DEF MhashKeys, Keys
  <2> QED
    BY <1>2, <2>1 DEF MhashFits, KernelFits
<1>9. ASSUME ModeKeys \cap fields = {} PROVE Selections'
  <2>1. config'["alpha"] = config["alpha"] /\ config'["whash"] = config["whash"] /\ config'["scale"] = config["scale"]
    BY <1>3, <1>9 DEF ModeKeys, Keys
  <2> QED
    BY <1>2, <2>1 DEF Selections
<1> QED
  BY <1>1, <1>4, <1>5, <1>6, <1>7, <1>8, <1>9

LEMMA OneField ==
    ASSUME ConfigInvariant, NEW field \in Keys, NEW new, config' = [config EXCEPT ![field] = new]
    PROVE  Sets({field}) /\ config'[field] = new
<1>1. DOMAIN config = Keys
  BY DEF ConfigInvariant
<1> QED
  BY <1>1 DEF Sets

\* What the setters that check their argument ask of it is what the computations ask.
LEMMA ConfigSteps == ConfigInvariant /\ [ConfigNext]_config => ConfigInvariant'
<1> SUFFICES ASSUME ConfigInvariant, [ConfigNext]_config PROVE ConfigInvariant'
  OBVIOUS
<1>0. DOMAIN config = Keys /\ Selections
  BY DEF ConfigInvariant
<1>a. ASSUME NEW field \in Keys \ ReadKeys, NEW new,
             config' = [config EXCEPT ![field] = new]
      PROVE  ConfigInvariant'
  <2>1. Sets({field})
    BY <1>a, OneField
  <2>2. /\ "gray" \notin {field} /\ "block" \notin {field} /\ PhashKeys \cap {field} = {}
        /\ RadialKeys \cap {field} = {} /\ MhashKeys \cap {field} = {} /\ ModeKeys \cap {field} = {}
    BY <1>a DEF ReadKeys
  <2> QED
    BY <2>1, <2>2, PartsKept DEF ConfigInvariant
<1>b. ASSUME NEW field \in ModeKeys, NEW new, config' = [config EXCEPT ![field] = new],
             field = "alpha" => new \in AlphaModes, field = "whash" => new \in WhashModes,
             field = "scale" => new \in DecodeScales
      PROVE  ConfigInvariant'
  <2>1. /\ field \in Keys /\ "gray" \notin {field} /\ "block" \notin {field} /\ PhashKeys \cap {field} = {}
        /\ RadialKeys \cap {field} = {} /\ MhashKeys \cap {field} = {}
    BY <1>b DEF ModeKeys, PhashKeys, RadialKeys, MhashKeys, Keys
  <2>2. Sets({field}) /\ config'[field] = new
    BY <1>b, <2>1, OneField
  <2>3. \A k \in ModeKeys \ {field} : config'[k] = config[k]
    BY <2>2 DEF Sets, ModeKeys, Keys
  <2>4. Selections'
    <3>1. CASE field = "alpha"
      <4>1. config'["whash"] = config["whash"] /\ config'["scale"] = config["scale"]
        BY <2>3, <3>1 DEF ModeKeys
      <4> QED
        BY <1>0, <1>b, <2>2, <3>1, <4>1 DEF Selections
    <3>2. CASE field = "whash"
      <4>1. config'["alpha"] = config["alpha"] /\ config'["scale"] = config["scale"]
        BY <2>3, <3>2 DEF ModeKeys
      <4> QED
        BY <1>0, <1>b, <2>2, <3>2, <4>1 DEF Selections
    <3>3. CASE field = "scale"
      <4>1. config'["alpha"] = config["alpha"] /\ config'["whash"] = config["whash"]
        BY <2>3, <3>3 DEF ModeKeys
      <4> QED
        BY <1>0, <1>b, <2>2, <3>3, <4>1 DEF Selections
    <3> QED
      BY <3>1, <3>2, <3>3 DEF ModeKeys
  <2> QED
    BY <2>1, <2>2, <2>4, PartsKept DEF ConfigInvariant
<1>1. ASSUME NEW gamma \in Arguments.gamma, SetGamma(gamma) PROVE ConfigInvariant'
  <2>1. config' = [config EXCEPT !["gamma"] = gamma]
    BY <1>1 DEF SetGamma, Installs
  <2> QED
    BY <1>a, <2>1 DEF Keys, ReadKeys, PhashKeys, RadialKeys, MhashKeys, ModeKeys
<1>2. ASSUME NEW w \in Arguments.gray, SetGrayWeights(w) PROVE ConfigInvariant'
  <2>1. \A k \in 1..3 : w[k] \in Nat
    BY <1>2, ConfigAssumption DEF SetGrayWeights, Installs
  <2>2. Sum3(w) > 0
    BY <1>2 DEF SetGrayWeights, Installs
  <2>3. config' = [config EXCEPT !["gray"] = Normalised(w)]
    BY <1>2 DEF SetGrayWeights, Installs
  <2>4. /\ "gray" \in Keys /\ "block" \notin {"gray"} /\ PhashKeys \cap {"gray"} = {}
        /\ RadialKeys \cap {"gray"} = {} /\ MhashKeys \cap {"gray"} = {} /\ ModeKeys \cap {"gray"} = {}
    BY DEF Keys, PhashKeys, RadialKeys, MhashKeys, ModeKeys
  <2>5. Sets({"gray"}) /\ config'["gray"] = Normalised(w)
    BY <2>3, <2>4, OneField
  <2>6. Weights'
    BY <2>1, <2>2, <2>5, NormalisedWeights DEF Weights
  <2> QED
    BY <2>4, <2>5, <2>6, PartsKept DEF ConfigInvariant
<1>3. ASSUME NEW p \in Arguments.phash, SetPhash(p) PROVE ConfigInvariant'
  <2>1. config' = [config EXCEPT !.dct = p.dct, !.reduction = p.reduction] /\ DctAccepted(p.dct, p.reduction)
    BY <1>3 DEF SetPhash, Installs
  <2>2. Sets(PhashKeys) /\ config'.dct = p.dct /\ config'.reduction = p.reduction
    BY <1>0, <2>1 DEF Sets, Keys, PhashKeys
  <2>3. PhashFits'
    BY <2>1, <2>2 DEF PhashFits, DctAccepted
  <2>4. /\ "gray" \notin PhashKeys /\ "block" \notin PhashKeys /\ RadialKeys \cap PhashKeys = {}
        /\ MhashKeys \cap PhashKeys = {} /\ ModeKeys \cap PhashKeys = {}
    BY DEF PhashKeys, RadialKeys, MhashKeys, ModeKeys
  <2> QED
    BY <2>2, <2>3, <2>4, PartsKept DEF ConfigInvariant
<1>4. ASSUME NEW p \in Arguments.radial, SetRadial(p) PROVE ConfigInvariant'
  <2>1. config' = [config EXCEPT !.projections = p.projections, !.samples = p.samples, !.sigma = p.sigma]
    BY <1>4 DEF SetRadial, Installs
  <2>2. /\ p.projections \in RadialCoeffs..4096 /\ p.samples \in 2..4096
        /\ Finite(p.sigma) /\ Above(p.sigma, 0) /\ p.sigma <= 128
    BY <1>4, Zenon DEF SetRadial, Installs
  <2>3. p.sigma \in 1..128
    BY <2>2, ConfigAssumption DEF Above
  <2>a. p.projections \in Nat /\ p.projections >= RadialCoeffs /\ p.samples \in Nat /\ p.samples >= 2
    <3> DEFINE rays == p.projections  samples == p.samples
    <3>1. rays \in RadialCoeffs..4096 /\ samples \in 2..4096
      BY <2>2
    <3> HIDE DEF rays, samples
    <3>2. rays \in Nat /\ rays >= RadialCoeffs /\ samples \in Nat /\ samples >= 2
      BY <3>1 DEF RadialCoeffs
    <3> QED
      BY <3>2 DEF rays, samples
  <2>4. /\ Sets(RadialKeys)
        /\ config'.projections = p.projections /\ config'.samples = p.samples /\ config'.sigma = p.sigma
    BY <1>0, <2>1 DEF Sets, Keys, RadialKeys
  <2>5. RadialFits'
    <3>1. /\ config'.projections \in Nat /\ config'.projections >= RadialCoeffs
          /\ config'.samples \in Nat /\ config'.samples >= 2
      BY ONLY <2>a, <2>4
    <3>2. config'.sigma \in 1..128
      BY ONLY <2>3, <2>4
    <3> QED
      BY ONLY <3>1, <3>2 DEF RadialFits
  <2>6. /\ "gray" \notin RadialKeys /\ "block" \notin RadialKeys /\ PhashKeys \cap RadialKeys = {}
        /\ MhashKeys \cap RadialKeys = {} /\ ModeKeys \cap RadialKeys = {}
    BY DEF PhashKeys, RadialKeys, MhashKeys, ModeKeys
  <2> QED
    BY <2>4, <2>5, <2>6, PartsKept DEF ConfigInvariant
<1>5. ASSUME NEW p \in Arguments.mhash, SetMhash(p) PROVE ConfigInvariant'
  <2> DEFINE width == HalfWidth(p.alpha, p.level)
  <2>1. config' = [config EXCEPT !.mhAlpha = p.alpha, !.mhLevel = p.level, !.mhSize = p.size]
    BY <1>5 DEF SetMhash, Installs
  <2>2. /\ Above(p.alpha, 1) /\ p.level >= 0 /\ Finite(p.alpha) /\ Finite(p.level)
        /\ p.size \in 2 * MhGrid..4096 /\ 2 * width + 1 <= 65
    BY <1>5, Zenon DEF SetMhash, Installs
  <2>a. p.size \in Nat /\ p.size >= 2 * MhGrid
    <3> DEFINE size == p.size
    <3>1. size \in 2 * MhGrid..4096
      BY <2>2
    <3> HIDE DEF size
    <3>2. size \in Nat /\ size >= 2 * MhGrid
      BY <3>1 DEF MhGrid
    <3> QED
      BY <3>2 DEF size
  <2>3. width \in Nat \ {0}
    BY <2>2, ConfigAssumption DEF Above
  <2> HIDE DEF width
  <2>4. width \in 1..32
    BY <2>2, <2>3
  <2>5. /\ Sets(MhashKeys)
        /\ config'.mhAlpha = p.alpha /\ config'.mhLevel = p.level /\ config'.mhSize = p.size
    BY <1>0, <2>1 DEF Sets, Keys, MhashKeys
  <2>6. MhashFits'
    BY <2>a, <2>4, <2>5 DEF MhashFits, KernelFits, width
  <2>7. /\ "gray" \notin MhashKeys /\ "block" \notin MhashKeys /\ PhashKeys \cap MhashKeys = {}
        /\ RadialKeys \cap MhashKeys = {} /\ ModeKeys \cap MhashKeys = {}
    BY DEF PhashKeys, RadialKeys, MhashKeys, ModeKeys
  <2> QED
    BY <2>5, <2>6, <2>7, PartsKept DEF ConfigInvariant
<1>6. ASSUME NEW size \in Arguments.block, SetBlock(size) PROVE ConfigInvariant'
  <2>1. config' = [config EXCEPT !["block"] = size] /\ size \in 2..32
    BY <1>6 DEF SetBlock, Installs
  <2>2. /\ "block" \in Keys /\ "gray" \notin {"block"} /\ PhashKeys \cap {"block"} = {}
        /\ RadialKeys \cap {"block"} = {} /\ MhashKeys \cap {"block"} = {} /\ ModeKeys \cap {"block"} = {}
    BY DEF Keys, PhashKeys, RadialKeys, MhashKeys, ModeKeys
  <2>3. Sets({"block"}) /\ config'["block"] = size
    BY <2>1, <2>2, OneField
  <2>4. BlockFits'
    BY <2>1, <2>3 DEF BlockFits
  <2> QED
    BY <2>2, <2>3, <2>4, PartsKept DEF ConfigInvariant
<1>7. ASSUME NEW enable \in Arguments.flag, SetLoadGrayscale(enable) \/ SetAutoOrient(enable) \/ SetRemoveLL(enable)
      PROVE  ConfigInvariant'
  <2>1. PICK field \in {"loadGray", "autoOrient", "removeLL"}, new \in {0, 1} :
           config' = [config EXCEPT ![field] = new]
    BY <1>7 DEF SetLoadGrayscale, SetAutoOrient, SetRemoveLL, Flag
  <2> QED
    BY <1>a, <2>1 DEF Keys, ReadKeys, PhashKeys, RadialKeys, MhashKeys, ModeKeys
<1>8. ASSUME NEW limit \in Arguments.maxPixels, SetMaxPixels(limit) PROVE ConfigInvariant'
  <2>1. PICK new : config' = [config EXCEPT !["maxPixels"] = new]
    BY <1>8 DEF SetMaxPixels
  <2> QED
    BY <1>a, <2>1 DEF Keys, ReadKeys, PhashKeys, RadialKeys, MhashKeys, ModeKeys
<1>9. ASSUME NEW name \in Arguments.mode, SetAlphaMode(name) \/ SetWhashMode(name) \/ SetDecodeScale(name)
      PROVE  ConfigInvariant'
  <2>1. PICK field \in ModeKeys :
           /\ config' = [config EXCEPT ![field] = name]
           /\ field = "alpha" => name \in AlphaModes
           /\ field = "whash" => name \in WhashModes
           /\ field = "scale" => name \in DecodeScales
    BY <1>9 DEF SetAlphaMode, SetWhashMode, SetDecodeScale, Installs, ModeKeys
  <2> QED
    BY <1>b, <2>1
<1>10. CASE UNCHANGED config
  <2>1. Sets({})
    BY <1>0, <1>10 DEF Sets
  <2> QED
    BY <2>1, PartsKept DEF ConfigInvariant
<1> QED
  BY <1>1, <1>2, <1>3, <1>4, <1>5, <1>6, <1>7, <1>8, <1>9, <1>10 DEF ConfigNext

\* Every digest has the bytes its bits need, and not one more.
LEMMA DigestsFit ==
    ASSUME ConfigInvariant, NEW algo \in Algorithms
    PROVE  /\ ShapeSize(algo) \in 1..DigestBytes
           /\ BitsMade(algo) <= 8 * ShapeSize(algo)
           /\ algo \in {"bmh", "mhash", "radial"} => 8 * ShapeSize(algo) - BitsMade(algo) < 8
<1>0. PhashFits /\ RadialFits /\ BlockFits
  BY DEF ConfigInvariant
<1>1. CASE algo = "bmh"
  <2> DEFINE bits == config.block * config.block  octets == (bits + 7) \div 8
  <2>1. bits \in 1..32 * 32
    <3>1. \A b \in 2..32 : b * b \in 1..32 * 32
      OBVIOUS
    <3>2. config.block \in 2..32
      BY <1>0 DEF BlockFits
    <3> QED
      BY ONLY <3>1, <3>2
  <2>2. ShapeSize(algo) = (IF octets > 128 THEN 128 ELSE octets) /\ BitsMade(algo) = bits
    BY <1>1 DEF ShapeSize, BitsMade, DigestBytes
  <2> HIDE DEF bits
  <2>3. octets \in 1..128 /\ bits <= 8 * octets /\ 8 * octets - bits < 8
    BY <2>1
  <2> HIDE DEF octets
  <2>4. ShapeSize(algo) = octets
    BY <2>2, <2>3
  <2> QED
    BY <2>2, <2>3, <2>4 DEF DigestBytes
<1>2. CASE algo = "phash"
  <2>1. \A r \in 4..8 : r * r <= 64
    OBVIOUS
  <2>2. ShapeSize(algo) = 8 /\ BitsMade(algo) = config.reduction * config.reduction
    BY <1>2 DEF ShapeSize, BitsMade
  <2>3. BitsMade(algo) <= 64
    BY <1>0, <2>1, <2>2 DEF PhashFits
  <2> QED
    BY <1>2, <2>2, <2>3 DEF DigestBytes
<1>3. CASE algo \in {"ahash", "dhash", "whash"}
  BY <1>3, ShapeSize(algo) = 8, BitsMade(algo) = 64 DEF ShapeSize, BitsMade, DigestBytes
<1>4. CASE algo = "mhash"
  BY <1>4, ShapeSize(algo) = 72, BitsMade(algo) = 576 DEF ShapeSize, BitsMade, DigestBytes, MhBytes
<1>5. CASE algo = "radial"
  <2>1. ShapeSize(algo) = 40
    BY <1>5 DEF ShapeSize, RadialCoeffs
  <2>2. \A x : x \in Nat /\ x >= 40 => (IF x < 40 THEN x ELSE 40) = 40
    OBVIOUS
  <2>3. BitsMade(algo) = 8 * (IF config.projections < 40 THEN config.projections ELSE 40)
    BY <1>5 DEF BitsMade, RadialCoeffs
  <2>4. BitsMade(algo) = 320
    BY <1>0, <2>2, <2>3 DEF RadialFits, RadialCoeffs
  <2> QED
    BY <2>1, <2>4 DEF DigestBytes
<1>6. CASE algo = "color_hash"
  BY <1>6, ShapeSize(algo) = 108, BitsMade(algo) = 864 DEF ShapeSize, BitsMade, DigestBytes, ColorBytes
<1>7. CASE algo = "color_moments"
  BY <1>7, ShapeSize(algo) = 18, BitsMade(algo) = 144 DEF ShapeSize, BitsMade, DigestBytes, MomentBytes
<1> QED
  BY <1>1, <1>2, <1>3, <1>4, <1>5, <1>6, <1>7 DEF Algorithms

LEMMA ConfigImplies == ConfigInvariant => ConfigurationUsable
<1> SUFFICES ASSUME ConfigInvariant PROVE ConfigurationUsable
  OBVIOUS
<1>1. DctComputes /\ KernelFits /\ BlurUncut
  BY DEF ConfigInvariant, PhashFits, RadialFits, MhashFits, DctComputes, BlurUncut
<1>2. config.mhSize \div MhGrid >= 2 /\ config.samples >= 2
  <2>1. \A size : size \in Nat /\ size >= 2 * 31 => size \div 31 >= 2
    OBVIOUS
  <2> QED
    BY <2>1 DEF ConfigInvariant, RadialFits, MhashFits, MhGrid
<1>3. GrayOf(<<255, 255, 255>>) = 255 /\ GrayOf(<<0, 0, 0>>) = 0 /\ \A k \in 1..3 : config.gray[k] >= 0
  BY DEF ConfigInvariant, Weights, GrayOf, GrayScale
<1>4. config.alpha \in AlphaModes /\ config.whash \in WhashModes /\ config.scale \in DecodeScales
  BY DEF ConfigInvariant, Selections
<1> QED
  BY <1>1, <1>2, <1>3, <1>4, DigestsFit DEF ConfigurationUsable

THEOREM ConfigInductive == ConfigSpec => []ConfigInvariant
  BY ConfigStarts, ConfigSteps, PTL DEF ConfigSpec

\* Whatever setters are called, in whatever order, every computation can work with the
\* configuration they leave.
THEOREM ConfigurationStaysUsable == ConfigSpec => []ConfigurationUsable
  BY ConfigInductive, ConfigImplies, PTL

-----------------------------------------------------------------------------
\* Correlation.  The loops hold the sums over the bytes they have passed, and the peak is
\* the largest numerator so far.  What those sums say of deviations from the mean is
\* algebra over sums (Recursion), and that the quotient is at most 1 is the inequality
\* of Cauchy and Schwarz.

LEMMA DigestIsSummable ==
    ASSUME n \in Nat, NEW f \in [Below(n) -> Int]
    PROVE  Summable(f, Below(n)) /\ DOMAIN f = 0..n - 1
  BY FS_Interval DEF Summable, Below

LEMMA TotalIsSum ==
    ASSUME n \in Nat, NEW f \in [Below(n) -> Int]
    PROVE  Total(f) = Sums(f)[Below(n)]
<1>1. DOMAIN f = 0..n - 1
  BY DigestIsSummable
<1> QED
  BY <1>1 DEF Total, MapThenSumSet, MapThenFoldSet, Sums, AddsUp, Chosen, Below

LEMMA VarianceIsSum ==
    ASSUME n \in Nat, NEW f \in [Below(n) -> Int], Total(f) \in Int
    PROVE  Variance(f) = Sums([k \in Below(n) |-> Deviation(f, k) * Deviation(f, k)])[Below(n)]
<1> DEFINE T == Below(n)  e == [k \in T |-> Deviation(f, k) * Deviation(f, k)]
     Folds(g) == g = [s \in SUBSET T |-> IF s = {} THEN 0
                        ELSE Deviation(f, Chosen(s)) * Deviation(f, Chosen(s)) + g[s \ {Chosen(s)}]]
<1>1. e \in [T -> Int]
  BY DEF Deviation
<1>2. Summable(e, T) /\ DOMAIN e = T
  BY <1>1, DigestIsSummable
<1>3. \A s \in SUBSET T : s # {} => e[Chosen(s)] = Deviation(f, Chosen(s)) * Deviation(f, Chosen(s))
  BY ChosenIsIn
<1> HIDE DEF e
<1>4. \A g : Folds(g) <=> AddsUp(e, g)
  BY <1>2, <1>3 DEF AddsUp
<1>5. Folds(Sums(e))
  BY <1>2, <1>4, SumsAddUp
<1>6. Variance(f) = (CHOOSE g : Folds(g))[T]
  BY DEF Variance, MapThenSumSet, MapThenFoldSet, Chosen, Below
<1> HIDE DEF Folds
<1>7. Folds(CHOOSE g : Folds(g))
  BY <1>5
<1>8. (CHOOSE g : Folds(g)) = Sums(e)
  BY <1>2, <1>4, <1>7, SumsAreOne
<1> QED
  BY <1>6, <1>8 DEF e

LEMMA CovarianceIsSum ==
    ASSUME n \in Nat, NEW shift \in Int,
           \A k \in Below(n) : Deviation(first, k) * Deviation(second, (k - shift) % n) \in Int
    PROVE  Covariance(shift) =
              Sums([k \in Below(n) |-> Deviation(first, k) * Deviation(second, (k - shift) % n)])[Below(n)]
<1> DEFINE T == Below(n)  e == [k \in T |-> Deviation(first, k) * Deviation(second, (k - shift) % n)]
     Folds(g) == g = [s \in SUBSET T |-> IF s = {} THEN 0
                        ELSE Deviation(first, Chosen(s)) * Deviation(second, (Chosen(s) - shift) % n) + g[s \ {Chosen(s)}]]
<1>1. e \in [T -> Int]
  OBVIOUS
<1>2. Summable(e, T) /\ DOMAIN e = T
  BY <1>1, DigestIsSummable
<1>3. \A s \in SUBSET T : s # {} =>
         e[Chosen(s)] = Deviation(first, Chosen(s)) * Deviation(second, (Chosen(s) - shift) % n)
  BY ChosenIsIn
<1> HIDE DEF e
<1>4. \A g : Folds(g) <=> AddsUp(e, g)
  BY <1>2, <1>3 DEF AddsUp
<1>5. Folds(Sums(e))
  BY <1>2, <1>4, SumsAddUp
<1>6. Covariance(shift) = (CHOOSE g : Folds(g))[T]
  BY DEF Covariance, MapThenSumSet, MapThenFoldSet, Chosen, Below
<1> HIDE DEF Folds
<1>7. Folds(CHOOSE g : Folds(g))
  BY <1>5
<1>8. (CHOOSE g : Folds(g)) = Sums(e)
  BY <1>2, <1>4, <1>7, SumsAreOne
<1> QED
  BY <1>6, <1>8 DEF e

\* The sums the loops make.
Squares(f) == [k \in Below(n) |-> f[k] * f[k]]
Turned(s, k) == IF k >= s THEN k - s ELSE (k + n) - s
Turn(s)    == [k \in Below(n) |-> Turned(s, k)]
SecondTurned(s) == [k \in Below(n) |-> second[Turn(s)[k]]]
Products(s) == [k \in Below(n) |-> first[k] * second[Turn(s)[k]]]
SumA  == Sums(first)[Below(n)]
SumB  == Sums(second)[Below(n)]
NumAt(s) == n * Sums(Products(s))[Below(n)] - SumA * SumB

Comparable == n \in Nat \ {0} /\ first \in [Below(n) -> 0..ByteMax] /\ second \in [Below(n) -> 0..ByteMax]

\* n times the variance, by the code's integers.
LEMMA VarianceIs ==
    ASSUME n \in Nat, NEW f \in [Below(n) -> Int]
    PROVE  Variance(f) = n * (n * Sums(Squares(f))[Below(n)] - Sums(f)[Below(n)] * Sums(f)[Below(n)])
<1> DEFINE total == Sums(f)[Below(n)]  squares == Sums(Squares(f))[Below(n)]
     e == [k \in Below(n) |-> Deviation(f, k) * Deviation(f, k)]
<1>1. Squares(f) \in [Below(n) -> Int]
  BY DEF Squares
<1>2. n \in 0..n
  OBVIOUS
<1>3. total \in Int /\ squares \in Int
  BY <1>1, <1>2, StepByStep
<1>4. Total(f) = total
  BY TotalIsSum
<1>5. Variance(f) = Sums(e)[Below(n)]
  BY <1>3, <1>4, VarianceIsSum
<1> HIDE DEF total, squares
<1>6. e \in [Below(n) -> Int]
  BY <1>3, <1>4 DEF Deviation
<1>7. \A k \in Below(n) : e[k] = (n * n) * Squares(f)[k] + (-(2 * n * total)) * f[k] + 0 * f[k] + total * total
  <2> SUFFICES ASSUME NEW k \in Below(n)
               PROVE  e[k] = (n * n) * Squares(f)[k] + (-(2 * n * total)) * f[k] + 0 * f[k] + total * total
    OBVIOUS
  <2> DEFINE x == f[k]
  <2>1. e[k] = (n * x - total) * (n * x - total) /\ Squares(f)[k] = x * x /\ x \in Int
    BY <1>4 DEF Deviation, Squares
  <2> HIDE DEF x, e
  <2>2. (n * x - total) * (n * x - total) = (n * n) * (x * x) + (-(2 * n * total)) * x + 0 * x + total * total
    BY <1>3, <2>1
  <2> QED
    BY <2>1, <2>2 DEF x
<1> HIDE DEF e
<1>8. Sums(e)[Below(n)] = (n * n) * squares + (-(2 * n * total)) * total + 0 * total + n * (total * total)
  <2>1. n * n \in Int /\ -(2 * n * total) \in Int /\ 0 \in Int /\ total * total \in Int
    BY <1>3
  <2>2. Sums(e)[Below(n)] = (n * n) * Sums(Squares(f))[Below(n)] + (-(2 * n * total)) * Sums(f)[Below(n)]
                              + 0 * Sums(f)[Below(n)] + n * (total * total)
    <3>1. Combines(n, e, n * n, Squares(f), -(2 * n * total), f, 0, f, total * total)
      BY <1>1, <1>6, <1>7, <2>1 DEF Combines
    <3> QED
      BY <3>1, Combined
  <2> QED
    BY <2>2 DEF total, squares
<1>9. (n * n) * squares + (-(2 * n * total)) * total + 0 * total + n * (total * total)
        = n * (n * squares - total * total)
  BY <1>3
<1> QED
  BY <1>5, <1>8, <1>9 DEF total, squares

LEMMA VarianceNatural ==
    ASSUME n \in Nat, NEW f \in [Below(n) -> Int]
    PROVE  Variance(f) \in Nat
<1> DEFINE e == [k \in Below(n) |-> Deviation(f, k) * Deviation(f, k)]
<1>1. Total(f) \in Int
  BY TotalIsSum, StepByStep
<1>2. Variance(f) = Sums(e)[Below(n)]
  BY <1>1, VarianceIsSum
<1>3. \A x \in Int : x * x \in Nat
  OBVIOUS
<1>4. \A k \in Below(n) : Deviation(f, k) \in Int
  BY <1>1 DEF Deviation
<1>5. e \in [Below(n) -> Nat]
  BY <1>3, <1>4
<1> QED
  BY <1>2, <1>5, SumsOfNaturals

\* The second digest, read from another place on, is the whole of it.
LEMMA TurnIsPermutation ==
    ASSUME n \in Nat, NEW s \in Below(n)
    PROVE  /\ Turn(s) \in [Below(n) -> Below(n)]
           /\ \A j, k \in Below(n) : Turn(s)[j] = Turn(s)[k] => j = k
           /\ {Turn(s)[k] : k \in Below(n)} = Below(n)
<1>1. Turn(s) \in [Below(n) -> Below(n)]
  BY DEF Turn, Turned, Below
<1>2. \A j, k \in Below(n) : Turn(s)[j] = Turn(s)[k] => j = k
  BY DEF Turn, Turned, Below
<1>3. ASSUME NEW j \in Below(n) PROVE \E k \in Below(n) : Turn(s)[k] = j
  <2>1. CASE j + s < n
    <3>1. j + s \in Below(n) /\ Turn(s)[j + s] = j
      BY <2>1 DEF Turn, Turned, Below
    <3> QED
      BY <3>1
  <2>2. CASE j + s >= n
    <3>1. (j + s) - n \in Below(n) /\ Turn(s)[(j + s) - n] = j
      BY <2>2 DEF Turn, Turned, Below
    <3> QED
      BY <3>1
  <2> QED
    BY <2>1, <2>2 DEF Below
<1> QED
  BY <1>1, <1>2, <1>3

TurnedBy(s, f, h) ==
    /\ n \in Nat /\ s \in Below(n) /\ f \in [Below(n) -> Int] /\ h \in [Below(n) -> Int]
    /\ \A k \in Below(n) : h[k] = f[Turn(s)[k]]

LEMMA TurnedSum ==
    ASSUME NEW s, NEW f, NEW h, TurnedBy(s, f, h)
    PROVE  Sums(h)[Below(n)] = Sums(f)[Below(n)]
<1>0. /\ n \in Nat /\ s \in Below(n) /\ f \in [Below(n) -> Int] /\ h \in [Below(n) -> Int]
      /\ \A k \in Below(n) : h[k] = f[Turn(s)[k]]
  BY DEF TurnedBy
<1>1. IsFiniteSet(Below(n))
  BY <1>0, DigestIsSummable DEF Summable
<1>2. Rearranges(Turn(s), Below(n), f, h)
  BY <1>0, <1>1, TurnIsPermutation DEF Rearranges
<1>3. Sums(h)[Below(n)] = Sums(f)[{Turn(s)[k] : k \in Below(n)}]
  BY <1>2, Rearranged
<1> QED
  BY <1>0, <1>3, TurnIsPermutation

LEMMA TurnIsRemainder ==
    ASSUME n \in Nat, NEW s \in Below(n), NEW k \in Below(n)
    PROVE  (k - s) % n = Turn(s)[k]
<1>1. n \in Nat \ {0} /\ k \in 0..n - 1 /\ s \in 0..n - 1
  BY DEF Below
<1> DEFINE r == (k - s) % n  q == (k - s) \div n
<1>2. r \in 0..n - 1 /\ q \in Int /\ k - s = n * q + r
  BY <1>1, SMT
<1> HIDE DEF r, q
<1>3. q = 0 \/ q = -1
  <2>1. q >= 1 => n * q >= n
    BY <1>1, <1>2
  <2>2. q <= -2 => n * q <= -(2 * n)
    BY <1>1, <1>2
  <2> QED
    BY <1>1, <1>2, <2>1, <2>2
<1>4. n * 0 = 0 /\ n * (-1) = -n
  BY <1>1
<1>5. r = Turned(s, k)
  BY <1>1, <1>2, <1>3, <1>4 DEF Turned
<1> QED
  BY <1>5 DEF r, Turn

\* The covariance at a shift, by the code's integers.
LEMMA CovarianceTerms ==
    ASSUME Comparable, NEW s \in Below(n), NEW k \in Below(n)
    PROVE  /\ Deviation(first, k) \in Int /\ Deviation(first, k) = n * first[k] - SumA
           /\ Turn(s)[k] \in Below(n)
           /\ Deviation(second, (k - s) % n) \in Int
           /\ Deviation(second, (k - s) % n) = n * second[Turn(s)[k]] - SumB
<1>1. n \in Nat /\ first \in [Below(n) -> Int] /\ second \in [Below(n) -> Int]
  BY DEF Comparable
<1>2. SumA \in Int /\ SumB \in Int
  BY <1>1, StepByStep DEF SumA, SumB
<1>3. Total(first) = SumA /\ Total(second) = SumB
  BY <1>1, TotalIsSum DEF SumA, SumB
<1>4. (k - s) % n = Turn(s)[k] /\ Turn(s)[k] \in Below(n)
  BY <1>1, TurnIsRemainder, TurnIsPermutation
<1>5. first[k] \in Int /\ second[Turn(s)[k]] \in Int
  BY <1>1, <1>4
<1> QED
  BY <1>1, <1>2, <1>3, <1>4, <1>5 DEF Deviation

LEMMA CovarianceIs ==
    ASSUME Comparable, NEW s \in Below(n)
    PROVE  Covariance(s) = n * NumAt(s) /\ NumAt(s) \in Int
<1> DEFINE x == first  y == SecondTurned(s)  xy == Products(s)  A == SumA  B == SumB
     D == Sums(Products(s))[Below(n)]
     e == [k \in Below(n) |-> Deviation(first, k) * Deviation(second, (k - s) % n)]
<1>1. n \in Nat /\ x \in [Below(n) -> Int] /\ second \in [Below(n) -> Int]
  BY DEF Comparable
<1>2. /\ y \in [Below(n) -> Int] /\ xy \in [Below(n) -> Int]
      /\ \A k \in Below(n) : xy[k] = x[k] * y[k] /\ y[k] = second[Turn(s)[k]]
  BY <1>1, CovarianceTerms DEF SecondTurned, Products
<1>3. A \in Int /\ B \in Int /\ D \in Int
  BY <1>1, <1>2, StepByStep DEF SumA, SumB
<1>4. Sums(y)[Below(n)] = B
  <2> HIDE DEF y
  <2>1. TurnedBy(s, second, y)
    BY ONLY <1>1, <1>2, s \in Below(n) DEF TurnedBy
  <2> QED
    BY <2>1, TurnedSum DEF SumB
<1>5. e \in [Below(n) -> Int] /\ \A k \in Below(n) : e[k] = (n * x[k] - A) * (n * y[k] - B)
  <2>1. ASSUME NEW k \in Below(n)
        PROVE  /\ Deviation(first, k) \in Int /\ Deviation(first, k) = n * x[k] - A
               /\ Deviation(second, (k - s) % n) \in Int /\ Deviation(second, (k - s) % n) = n * y[k] - B
    BY <1>2, CovarianceTerms
  <2> HIDE DEF x, y, A, B
  <2>2. \A k \in Below(n) : Deviation(first, k) * Deviation(second, (k - s) % n) \in Int
    BY <2>1
  <2> QED
    BY <2>1, <2>2
<1>6. Covariance(s) = Sums(e)[Below(n)]
  <2>1. s \in Int
    BY DEF Below, Comparable
  <2>2. \A k \in Below(n) : Deviation(first, k) * Deviation(second, (k - s) % n) \in Int
    BY CovarianceTerms
  <2> QED
    BY <1>1, <2>1, <2>2, CovarianceIsSum
<1> HIDE DEF e, x, y, xy, A, B
<1>7. ASSUME NEW k \in Below(n)
      PROVE  e[k] = (n * n) * xy[k] + (-(n * A)) * y[k] + (-(n * B)) * x[k] + A * B
  <2> DEFINE a == x[k]  b == y[k]
  <2>1. a \in Int /\ b \in Int /\ e[k] = (n * a - A) * (n * b - B) /\ xy[k] = a * b
    BY <1>1, <1>2, <1>5
  <2> HIDE DEF a, b
  <2>2. (n * a - A) * (n * b - B) = (n * n) * (a * b) + (-(n * A)) * b + (-(n * B)) * a + A * B
    BY <1>1, <1>3, <2>1
  <2> QED
    BY <2>1, <2>2 DEF a, b
<1>8. Combines(n, e, n * n, xy, -(n * A), y, -(n * B), x, A * B)
  <2>1. n * n \in Int /\ -(n * A) \in Int /\ -(n * B) \in Int /\ A * B \in Int
    BY <1>1, <1>3
  <2> QED
    BY <1>1, <1>2, <1>5, <1>7, <2>1 DEF Combines
<1>9. Sums(e)[Below(n)] = (n * n) * D + (-(n * A)) * B + (-(n * B)) * A + n * (A * B)
  <2>1. Sums(x)[Below(n)] = A /\ Sums(xy)[Below(n)] = D
    BY DEF A, SumA, x, xy
  <2>2. Sums(e)[Below(n)] = (n * n) * Sums(xy)[Below(n)] + (-(n * A)) * Sums(y)[Below(n)]
                              + (-(n * B)) * Sums(x)[Below(n)] + n * (A * B)
    BY <1>8, Combined
  <2> QED
    BY <1>4, <2>1, <2>2
<1> HIDE DEF D
<1>10. (n * n) * D + (-(n * A)) * B + (-(n * B)) * A + n * (A * B) = n * (n * D - A * B)
  BY <1>1, <1>3
<1>11. NumAt(s) = n * D - A * B
  BY DEF NumAt, D, A, B
<1> QED
  BY <1>1, <1>3, <1>6, <1>9, <1>10, <1>11

\* The product of two sums of squares is at least the square of the sum of the products.
Multiplies(m, x, y, xx, yy, xy) ==
    /\ m \in Nat /\ x \in [Below(m) -> Int] /\ y \in [Below(m) -> Int]
    /\ xx \in [Below(m) -> Int] /\ yy \in [Below(m) -> Int] /\ xy \in [Below(m) -> Int]
    /\ \A k \in Below(m) : xx[k] = x[k] * x[k] /\ yy[k] = y[k] * y[k] /\ xy[k] = x[k] * y[k]

LEMMA CauchySchwarz ==
    ASSUME NEW m, NEW x, NEW y, NEW xx, NEW yy, NEW xy, Multiplies(m, x, y, xx, yy, xy),
           Sums(yy)[Below(m)] > 0
    PROVE  Sums(xy)[Below(m)] * Sums(xy)[Below(m)] <= Sums(xx)[Below(m)] * Sums(yy)[Below(m)]
<1> DEFINE X == Sums(xx)[Below(m)]  Y == Sums(yy)[Below(m)]  C == Sums(xy)[Below(m)]
     e == [k \in Below(m) |-> (Y * x[k] - C * y[k]) * (Y * x[k] - C * y[k])]
<1>0. /\ m \in Nat /\ x \in [Below(m) -> Int] /\ y \in [Below(m) -> Int]
      /\ xx \in [Below(m) -> Int] /\ yy \in [Below(m) -> Int] /\ xy \in [Below(m) -> Int]
      /\ \A k \in Below(m) : xx[k] = x[k] * x[k] /\ yy[k] = y[k] * y[k] /\ xy[k] = x[k] * y[k]
  BY DEF Multiplies
<1>1. X \in Int /\ Y \in Int /\ C \in Int
  BY <1>0, StepByStep
<1>2. Y > 0
  OBVIOUS
<1> HIDE DEF X, Y, C
<1>3. ASSUME NEW k \in Below(m)
      PROVE  e[k] \in Nat /\ e[k] = (Y * Y) * xx[k] + (-(2 * (Y * C))) * xy[k] + (C * C) * yy[k] + 0
  <2> DEFINE a == x[k]  b == y[k]
  <2>1. a \in Int /\ b \in Int /\ e[k] = (Y * a - C * b) * (Y * a - C * b)
        /\ xx[k] = a * a /\ xy[k] = a * b /\ yy[k] = b * b
    BY <1>0
  <2> HIDE DEF a, b, e
  <2>2. (Y * a - C * b) * (Y * a - C * b) = (Y * Y) * (a * a) + (-(2 * (Y * C))) * (a * b) + (C * C) * (b * b) + 0
    BY <1>1, <2>1
  <2>3. \A z \in Int : z * z \in Nat
    OBVIOUS
  <2>4. Y * a - C * b \in Int
    BY <1>1, <2>1
  <2> QED
    BY <2>1, <2>2, <2>3, <2>4
<1>4. e \in [Below(m) -> Nat] /\ e \in [Below(m) -> Int]
  BY <1>3
<1> HIDE DEF e
<1>5. Combines(m, e, Y * Y, xx, -(2 * (Y * C)), xy, C * C, yy, 0)
  <2>1. Y * Y \in Int /\ -(2 * (Y * C)) \in Int /\ C * C \in Int /\ 0 \in Int
    BY <1>1
  <2> QED
    BY <1>0, <1>3, <1>4, <2>1 DEF Combines
<1>6. Sums(e)[Below(m)] = (Y * Y) * X + (-(2 * (Y * C))) * C + (C * C) * Y + m * 0
  BY <1>5, Combined DEF X, Y, C
<1>7. (Y * Y) * X + (-(2 * (Y * C))) * C + (C * C) * Y + m * 0 = Y * (X * Y - C * C)
  BY <1>0, <1>1
<1>8. Sums(e)[Below(m)] \in Nat
  BY <1>0, <1>4, SumsOfNaturals
<1>9. Y * (X * Y - C * C) >= 0
  BY <1>6, <1>7, <1>8
<1>10. C * C <= X * Y
  <2> DEFINE z == X * Y - C * C
  <2>1. z \in Int /\ X * Y \in Int /\ C * C \in Int
    BY <1>1
  <2>2. z >= 0
    <3> HIDE DEF z
    <3>1. z < 0 => Y * z < 0
      BY <1>1, <1>2, <2>1
    <3>2. Y * z >= 0
      BY <1>9 DEF z
    <3>3. z \in Int
      BY <2>1
    <3>4. Y * z \in Int
      BY <1>1, <3>3
    <3> QED
      BY ONLY <3>1, <3>2, <3>3, <3>4
  <2> QED
    BY <2>1, <2>2
<1> QED
  BY <1>10 DEF X, Y, C

-----------------------------------------------------------------------------
\* What the loops hold, in terms of the sums.
Totals ==
    sums = [a |-> SumA, b |-> SumB, aa |-> Sums(Squares(first))[Below(n)], bb |-> Sums(Squares(second))[Below(n)]]

PeakBelow(shifts) ==
    /\ peak.found <=> shifts > 0
    /\ shifts > 0 => /\ \E s \in Below(shifts) : peak.num = NumAt(s)
                     /\ \A s \in Below(shifts) : NumAt(s) <= peak.num

AddingUp ==
    /\ i \in 0..n /\ d = 0 /\ dot = 0 /\ peak = NoPeak /\ result = NoResult
    /\ sums = [a  |-> Sums(first)[Below(i)], b |-> Sums(second)[Below(i)],
               aa |-> Sums(Squares(first))[Below(i)], bb |-> Sums(Squares(second))[Below(i)]]

Shifting ==
    /\ Totals /\ varA > 0 /\ varB > 0 /\ result = NoResult
    /\ d \in 0..n /\ PeakBelow(d)
    /\ peak \in [found : BOOLEAN, num : Int]

Multiplying == d < n /\ i \in 0..n /\ dot = Sums(Products(d))[Below(i)]

Answered ==
    /\ Totals
    /\ \/ result = [NoResult EXCEPT !.status = "NO_STRUCTURE"] /\ (varA <= 0 \/ varB <= 0)
       \/ /\ result = [status |-> "SUCCESS", num |-> peak.num, varA |-> varA, varB |-> varB]
          /\ varA > 0 /\ varB > 0 /\ PeakBelow(n)

CorrelationInvariant ==
    /\ stage \in {"idle", "sums", "shift", "dot", "returned"}
    /\ stage = "idle" => i = 0 /\ d = 0 /\ dot = 0 /\ sums = NoSums /\ peak = NoPeak /\ result = NoResult
    /\ stage # "idle" => Comparable /\ n \in 1..MaxBytes
    /\ stage = "sums" => AddingUp
    /\ stage \in {"shift", "dot"} => Shifting
    /\ stage = "dot" => Multiplying
    /\ stage = "returned" => Answered

LEMMA SumsOfDigests ==
    ASSUME Comparable
    PROVE  /\ first \in [Below(n) -> Int] /\ second \in [Below(n) -> Int]
           /\ Squares(first) \in [Below(n) -> Int] /\ Squares(second) \in [Below(n) -> Int]
           /\ \A s \in Below(n) : Products(s) \in [Below(n) -> Int]
           /\ SumA \in Int /\ SumB \in Int
           /\ Sums(Squares(first))[Below(n)] \in Int /\ Sums(Squares(second))[Below(n)] \in Int
<1>1. n \in Nat /\ first \in [Below(n) -> Int] /\ second \in [Below(n) -> Int]
  BY DEF Comparable
<1>2. Squares(first) \in [Below(n) -> Int] /\ Squares(second) \in [Below(n) -> Int]
  BY <1>1 DEF Squares
<1>3. ASSUME NEW s \in Below(n) PROVE Products(s) \in [Below(n) -> Int]
  <2>1. \A k \in Below(n) : first[k] \in Int /\ second[Turn(s)[k]] \in Int
    BY <1>1, TurnIsPermutation
  <2> QED
    BY <2>1 DEF Products
<1>4. n \in 0..n
  BY <1>1
<1> QED
  BY <1>1, <1>2, <1>3, <1>4, StepByStep DEF SumA, SumB

LEMMA CorrelationStarts == CorrelationIdle => CorrelationInvariant
  BY DEF CorrelationIdle, CorrelationInvariant

LEMMA CallStep ==
    ASSUME CorrelationInvariant, NEW size \in 1..MaxBytes,
           NEW a \in [0..size - 1 -> 0..ByteMax], NEW b \in [0..size - 1 -> 0..ByteMax],
           CorrelationCall(size, a, b)
    PROVE  CorrelationInvariant'
<1>1. Comparable' /\ (n \in 1..MaxBytes)'
  BY CorrelationAssumption DEF CorrelationCall, Comparable, Below
<1>2. (first \in [Below(n) -> Int] /\ second \in [Below(n) -> Int])' /\ n' \in Nat
  BY <1>1 DEF Comparable
<1>3. (Squares(first) \in [Below(n) -> Int] /\ Squares(second) \in [Below(n) -> Int])'
  BY <1>2 DEF Squares
<1>4. (/\ Sums(first)[Below(0)] = 0 /\ Sums(second)[Below(0)] = 0
       /\ Sums(Squares(first))[Below(0)] = 0 /\ Sums(Squares(second))[Below(0)] = 0)'
  BY <1>2, <1>3, StepByStep
<1>5. AddingUp'
  <2>1. (/\ stage = "sums" /\ i = 0 /\ d = 0 /\ dot = 0 /\ sums = NoSums /\ peak = NoPeak /\ result = NoResult)'
    BY DEF CorrelationCall, CorrelationInvariant
  <2>2. i' \in 0..n'
    BY <1>2, <2>1
  <2> QED
    BY <1>4, <2>1, <2>2 DEF AddingUp, NoSums
<1>6. stage' = "sums"
  BY DEF CorrelationCall
<1> QED
  BY <1>1, <1>5, <1>6 DEF CorrelationInvariant

\* Nothing but the loops' counters and sums changes within a call.
Given == UNCHANGED <<first, second, n>>

LEMMA GivenKeeps ==
    ASSUME Given
    PROVE  /\ Comparable => Comparable'
           /\ SumA' = SumA /\ SumB' = SumB
           /\ Squares(first)' = Squares(first) /\ Squares(second)' = Squares(second)
           /\ \A s : Products(s)' = Products(s) /\ NumAt(s)' = NumAt(s)
           /\ \A k : Below(k)' = Below(k) 
<1>1. first' = first /\ second' = second /\ n' = n
  BY DEF Given
<1>2. \A s : Products(s)' = Products(s)
  BY <1>1 DEF Products, Turn, Turned, Below
<1> QED
  BY <1>1, <1>2 DEF Comparable, SumA, SumB, Squares, NumAt, Below

LEMMA AddUpStep ==
    ASSUME CorrelationInvariant, AddUp
    PROVE  CorrelationInvariant'
<1>1. stage = "sums" /\ i < n /\ AddingUp /\ Comparable /\ n \in 1..MaxBytes /\ Given
  BY DEF AddUp, CorrelationInvariant, Given
<1>2. i \in Below(n) /\ i' = i + 1 /\ i' \in 0..n
  BY <1>1 DEF AddUp, AddingUp, Comparable, Below
<1>3. /\ Sums(first)[Below(i + 1)] = Sums(first)[Below(i)] + first[i]
      /\ Sums(second)[Below(i + 1)] = Sums(second)[Below(i)] + second[i]
      /\ Sums(Squares(first))[Below(i + 1)] = Sums(Squares(first))[Below(i)] + first[i] * first[i]
      /\ Sums(Squares(second))[Below(i + 1)] = Sums(Squares(second))[Below(i)] + second[i] * second[i]
  <2>1. Squares(first)[i] = first[i] * first[i] /\ Squares(second)[i] = second[i] * second[i]
    BY <1>2 DEF Squares
  <2>2. n \in Nat
    BY <1>1 DEF Comparable
  <2> QED
    BY <1>1, <1>2, <2>1, <2>2, SumsOfDigests, StepByStep
<1>4. (sums = [a  |-> Sums(first)[Below(i)], b |-> Sums(second)[Below(i)],
               aa |-> Sums(Squares(first))[Below(i)], bb |-> Sums(Squares(second))[Below(i)]])'
  <2>1. sums' = [a  |-> sums.a + first[i], b  |-> sums.b + second[i],
                 aa |-> sums.aa + first[i] * first[i], bb |-> sums.bb + second[i] * second[i]]
    BY DEF AddUp
  <2>2. /\ sums.a = Sums(first)[Below(i)] /\ sums.b = Sums(second)[Below(i)]
        /\ sums.aa = Sums(Squares(first))[Below(i)] /\ sums.bb = Sums(Squares(second))[Below(i)]
    BY <1>1 DEF AddingUp
  <2>3. first' = first /\ second' = second /\ Squares(first)' = Squares(first) /\ Squares(second)' = Squares(second)
    BY <1>1, GivenKeeps DEF Given
  <2>4. sums' = [a  |-> Sums(first)[Below(i + 1)], b |-> Sums(second)[Below(i + 1)],
                 aa |-> Sums(Squares(first))[Below(i + 1)], bb |-> Sums(Squares(second))[Below(i + 1)]]
    BY <1>3, <2>1, <2>2
  <2> QED
    BY <1>2, <2>3, <2>4
<1>5. AddingUp'
  <2>1. UNCHANGED <<d, dot, peak, result, n>>
    BY DEF AddUp
  <2> QED
    BY <1>1, <1>2, <1>4, <2>1 DEF AddingUp
<1>6. stage' = "sums" /\ Comparable' /\ n' = n
  BY <1>1, GivenKeeps DEF AddUp
<1> QED
  BY <1>1, <1>5, <1>6 DEF CorrelationInvariant

LEMMA AnswerStep ==
    ASSUME CorrelationInvariant, stage = "sums", i >= n, NEW r, CorrelationAnswer(r),
           \/ r = [NoResult EXCEPT !.status = "NO_STRUCTURE"] /\ (varA <= 0 \/ varB <= 0)
    PROVE  CorrelationInvariant'
<1>1. AddingUp /\ Comparable /\ n \in 1..MaxBytes /\ Given
  BY DEF CorrelationAnswer, CorrelationInvariant, Given
<1>2. i = n
  BY <1>1 DEF AddingUp, Comparable
<1>3. Totals
  BY <1>1, <1>2 DEF AddingUp, Totals, SumA, SumB
<1>4. Totals' /\ varA' = varA /\ varB' = varB /\ result' = r /\ stage' = "returned" /\ Comparable' /\ n' = n
  BY <1>1, <1>3, GivenKeeps DEF CorrelationAnswer, Totals, Given, varA, varB
<1> QED
  BY <1>1, <1>4 DEF CorrelationInvariant, Answered

LEMMA StructuredStep ==
    ASSUME CorrelationInvariant, Structured
    PROVE  CorrelationInvariant'
<1>1. AddingUp /\ Comparable /\ n \in 1..MaxBytes /\ Given /\ i >= n /\ varA > 0 /\ varB > 0
  BY DEF Structured, CorrelationInvariant, Given
<1>2. i = n
  BY <1>1 DEF AddingUp, Comparable
<1>3. Totals /\ d = 0 /\ peak = NoPeak /\ result = NoResult
  BY <1>1, <1>2 DEF AddingUp, Totals, SumA, SumB
<1>4. /\ Totals' /\ varA' = varA /\ varB' = varB /\ Comparable' /\ n' = n
      /\ stage' = "shift" /\ d' = 0 /\ peak' = NoPeak /\ result' = NoResult
  BY <1>1, <1>3, GivenKeeps DEF Structured, Totals, Given, varA, varB
<1>5. PeakBelow(d)' /\ (peak \in [found : BOOLEAN, num : Int])' /\ d' \in 0..n'
  BY <1>1, <1>4 DEF PeakBelow, NoPeak
<1>6. Shifting'
  BY <1>1, <1>4, <1>5 DEF Shifting
<1> QED
  BY <1>1, <1>4, <1>6 DEF CorrelationInvariant

\* Steps that leave the sums and the peak alone.
LEMMA ShiftingStays ==
    ASSUME Shifting, Comparable, Given, UNCHANGED <<sums, d, peak, result>>
    PROVE  Shifting' /\ Comparable'
<1>1. Totals' /\ varA' = varA /\ varB' = varB /\ Comparable'
  BY GivenKeeps DEF Shifting, Totals, varA, varB, Given
<1>2. PeakBelow(d)'
  BY GivenKeeps DEF PeakBelow, Shifting
<1> QED
  BY <1>1, <1>2 DEF Shifting, Given

LEMMA StartShiftStep ==
    ASSUME CorrelationInvariant, StartShift
    PROVE  CorrelationInvariant'
<1>1. Shifting /\ Comparable /\ n \in 1..MaxBytes /\ Given /\ d < n /\ UNCHANGED <<sums, d, peak, result>>
  BY DEF StartShift, CorrelationInvariant, Given
<1>2. Shifting' /\ Comparable' /\ n' = n /\ stage' = "dot"
  BY <1>1, ShiftingStays DEF StartShift
<1>3. dot' = 0 /\ i' = 0 /\ d' = d
  BY DEF StartShift
<1>4. d \in Below(n) /\ n \in Nat
  BY <1>1 DEF Shifting, Comparable, Below
<1>5. Sums(Products(d))[Below(0)] = 0
  BY <1>1, <1>4, SumsOfDigests, StepByStep
<1>6. (Sums(Products(d))[Below(i)])' = Sums(Products(d))[Below(0)]
  BY <1>1, <1>3, GivenKeeps
<1>7. Multiplying'
  BY <1>1, <1>2, <1>3, <1>4, <1>5, <1>6 DEF Multiplying, Below
<1> QED
  BY <1>1, <1>2, <1>7 DEF CorrelationInvariant

\* The widths: a product fits its type, and so does every sum of them.
LEMMA Products2 ==
    ASSUME Comparable, NEW s \in Below(n)
    PROVE  /\ ByteMax * ByteMax \in Nat
           /\ Products(s) \in [Below(n) -> 0..ByteMax * ByteMax]
           /\ \A k \in Below(n) : Products(s)[k] = first[k] * second[Turn(s)[k]]
<1>1. ByteMax \in Nat /\ n \in Nat
  BY CorrelationAssumption DEF Comparable
<1>2. ASSUME NEW a \in 0..ByteMax, NEW b \in 0..ByteMax PROVE a * b \in 0..ByteMax * ByteMax
  <2>1. a * b <= ByteMax * b
    BY <1>1, <1>2
  <2>2. ByteMax * b <= ByteMax * ByteMax
    BY <1>1, <1>2
  <2>3. a * b \in Nat /\ ByteMax * b \in Nat /\ ByteMax * ByteMax \in Nat
    BY <1>1, <1>2
  <2> QED
    BY <2>1, <2>2, <2>3
<1>3. \A k \in Below(n) : first[k] \in 0..ByteMax /\ second[Turn(s)[k]] \in 0..ByteMax
  BY <1>1, TurnIsPermutation DEF Comparable
<1>4. \A k \in Below(n) : first[k] * second[Turn(s)[k]] \in 0..ByteMax * ByteMax
  BY <1>2, <1>3
<1>5. ByteMax * ByteMax \in Nat
  BY <1>1
<1> QED
  BY <1>4, <1>5 DEF Products

LEMMA MultiplyExact ==
    ASSUME Comparable, n \in 1..MaxBytes, d \in Below(n), i \in Below(n), dot = Sums(Products(d))[Below(i)]
    PROVE  /\ Shifted(i) = second[Turn(d)[i]]
           /\ first[i] * Shifted(i) \in Nat /\ first[i] * Shifted(i) < ProductModulus
           /\ dot + first[i] * Shifted(i) \in Nat /\ dot + first[i] * Shifted(i) < DotModulus
           /\ dot + first[i] * Shifted(i) = Sums(Products(d))[Below(i + 1)]
<1> DEFINE M == ByteMax * ByteMax  product == first[i] * Shifted(i)
<1>1. n \in Nat /\ MaxBytes \in Nat /\ M \in Nat /\ M < ProductModulus /\ MaxBytes * M < DotModulus
      /\ ProductModulus \in Nat /\ DotModulus \in Nat
  BY CorrelationAssumption DEF Comparable
<1>2. i \in Nat /\ i + 1 \in 0..n /\ i + 1 <= MaxBytes /\ i < n /\ d \in Nat /\ d < n
  BY <1>1 DEF Below
<1>3. Shifted(i) = second[Turn(d)[i]]
  <2>1. Turn(d)[i] = IF i >= d THEN i - d ELSE (i + n) - d
    BY DEF Turn, Turned
  <2>2. i + n - d >= n <=> i >= d
    BY <1>1, <1>2
  <2>3. (i + n - d) - n = i - d
    BY <1>1, <1>2
  <2>4. (IF i + n - d >= n THEN (i + n - d) - n ELSE i + n - d) = Turn(d)[i]
    BY <1>1, <1>2, <2>1, <2>2, <2>3
  <2> QED
    BY <2>4 DEF Shifted
<1>4. product = Products(d)[i] /\ Products(d) \in [Below(n) -> 0..M]
  BY <1>3, Products2
<1> HIDE DEF M, product
<1>5. product \in 0..M
  BY <1>4
<1>6. Sums(Products(d))[Below(i + 1)] \in 0..(i + 1) * M
  BY <1>1, <1>2, <1>4, SumsStayBelow
<1>7. Sums(Products(d))[Below(i + 1)] = dot + product
  <2>1. Products(d) \in [Below(n) -> Int]
    BY SumsOfDigests
  <2> QED
    BY <1>1, <1>4, <2>1, StepByStep
<1>8. (i + 1) * M <= MaxBytes * M /\ (i + 1) * M \in Nat /\ MaxBytes * M \in Nat
  BY <1>1, <1>2
<1> QED
  BY <1>1, <1>3, <1>5, <1>6, <1>7, <1>8 DEF product

LEMMA Unwrapped ==
    ASSUME NEW m \in Nat, NEW a \in Nat, a < m
    PROVE  a % m = a
  OBVIOUS

LEMMA MultiplyStep ==
    ASSUME CorrelationInvariant, Multiply
    PROVE  CorrelationInvariant'
<1>1. Shifting /\ Multiplying /\ Comparable /\ n \in 1..MaxBytes /\ Given /\ i < n /\ UNCHANGED <<sums, d, peak, result>>
  BY DEF Multiply, CorrelationInvariant, Given
<1>2. n \in Nat /\ d \in Below(n) /\ i \in Below(n) /\ dot = Sums(Products(d))[Below(i)]
  BY <1>1 DEF Shifting, Multiplying, Comparable, Below
<1>3. dot' = Sums(Products(d))[Below(i + 1)]
  <2>1. ProductModulus \in Nat /\ DotModulus \in Nat
    BY CorrelationAssumption
  <2>2. (first[i] * Shifted(i)) % ProductModulus = first[i] * Shifted(i)
    BY <1>1, <1>2, <2>1, MultiplyExact, Unwrapped
  <2>3. (dot + first[i] * Shifted(i)) % DotModulus = dot + first[i] * Shifted(i)
    BY <1>1, <1>2, <2>1, MultiplyExact, Unwrapped
  <2>4. dot' = (dot + ((first[i] * Shifted(i)) % ProductModulus)) % DotModulus
    BY DEF Multiply, Widened
  <2> QED
    BY <1>1, <1>2, <2>2, <2>3, <2>4, MultiplyExact
<1>4. Shifting' /\ Comparable' /\ n' = n /\ stage' = "dot" /\ i' = i + 1 /\ d' = d
  BY <1>1, ShiftingStays DEF Multiply, Given
<1>5. Products(d)' = Products(d) /\ Below(i)' = Below(i + 1)
  BY <1>1, <1>4, GivenKeeps
<1>6. Multiplying'
  BY <1>1, <1>2, <1>3, <1>4, <1>5 DEF Multiplying, Below
<1> QED
  BY <1>1, <1>4, <1>6 DEF CorrelationInvariant

LEMMA EndShiftStep ==
    ASSUME CorrelationInvariant, EndShift
    PROVE  CorrelationInvariant'
<1>1. Shifting /\ Multiplying /\ Comparable /\ n \in 1..MaxBytes /\ Given /\ i >= n /\ UNCHANGED <<sums, result>>
  BY DEF EndShift, CorrelationInvariant, Given
<1>2. n \in Nat /\ d \in Below(n) /\ i = n /\ d' = d + 1 /\ d' \in 0..n /\ stage' = "shift"
  BY <1>1 DEF EndShift, Shifting, Multiplying, Comparable, Below
<1>3. num = NumAt(d)
  BY <1>1, <1>2 DEF Multiplying, Shifting, Totals, num, NumAt
<1>4. \A s \in Below(d + 1) : NumAt(s) \in Int /\ (s \in Below(d) \/ s = d)
  BY <1>1, <1>2, CovarianceIs DEF Below
<1>5. PeakBelow(d) /\ peak \in [found : BOOLEAN, num : Int]
  BY <1>1 DEF Shifting
<1>6. d \in Below(d + 1) /\ d \in Nat /\ \A s \in Below(d) : s \in Below(d + 1)
  BY <1>2 DEF Below
<1>7. peak' = IF AbovePeak THEN [found |-> TRUE, num |-> num] ELSE peak
  BY DEF EndShift
<1>8. /\ peak' \in [found : BOOLEAN, num : Int] /\ peak'.found
      /\ \E s \in Below(d + 1) : peak'.num = NumAt(s)
      /\ \A s \in Below(d + 1) : NumAt(s) <= peak'.num
  <2>0. NumAt(d) \in Int
    BY <1>4, <1>6
  <2>1. CASE AbovePeak
    <3>1. peak' = [found |-> TRUE, num |-> NumAt(d)]
      BY <1>3, <1>7, <2>1
    <3>2. \A s \in Below(d) : NumAt(s) <= NumAt(d)
      <4>1. CASE d = 0
        BY <4>1 DEF Below
      <4>2. CASE d # 0
        <5>1. peak.found /\ NumAt(d) > peak.num /\ peak.num \in Int /\ \A s \in Below(d) : NumAt(s) <= peak.num
          BY <1>3, <1>5, <1>6, <2>1, <4>2 DEF PeakBelow, AbovePeak
        <5> QED
          BY <1>4, <1>6, <2>0, <5>1
      <4> QED
        BY <4>1, <4>2
    <3>3. \A s \in Below(d + 1) : NumAt(s) <= NumAt(d)
      BY <1>4, <2>0, <3>2
    <3> QED
      BY <1>6, <2>0, <3>1, <3>3
  <2>2. CASE ~AbovePeak
    <3>1. peak' = peak /\ peak.found /\ NumAt(d) <= peak.num
      BY <1>3, <1>5, <1>7, <2>0, <2>2 DEF AbovePeak
    <3>2. d > 0
      BY <1>5, <3>1 DEF PeakBelow
    <3>3. \E s \in Below(d) : peak.num = NumAt(s)
      BY <1>5, <3>2 DEF PeakBelow
    <3>4. \A s \in Below(d) : NumAt(s) <= peak.num
      BY <1>5, <3>2 DEF PeakBelow
    <3> QED
      BY <1>4, <1>5, <1>6, <3>1, <3>3, <3>4
  <2> QED
    BY <2>1, <2>2
<1>9. PeakBelow(d)'
  <2>1. \A s : NumAt(s)' = NumAt(s)
    BY <1>1, GivenKeeps
  <2>2. Below(d)' = Below(d + 1) /\ d' > 0
    BY <1>2, <1>6 DEF Below
  <2> QED
    BY <1>8, <2>1, <2>2 DEF PeakBelow
<1>10. Shifting' /\ Comparable' /\ n' = n
  <2>1. Totals' /\ varA' = varA /\ varB' = varB /\ Comparable'
    BY <1>1, GivenKeeps DEF Shifting, Totals, varA, varB, Given
  <2> QED
    BY <1>1, <1>2, <1>8, <1>9, <2>1 DEF Shifting, Given
<1> QED
  BY <1>1, <1>2, <1>10 DEF CorrelationInvariant

LEMMA ScoreStep ==
    ASSUME CorrelationInvariant, Score
    PROVE  CorrelationInvariant'
<1>1. Shifting /\ Comparable /\ n \in 1..MaxBytes /\ Given /\ d >= n /\ UNCHANGED <<sums, peak>>
  BY DEF Score, CorrelationAnswer, CorrelationInvariant, Given
<1>2. d = n /\ PeakBelow(n)
  BY <1>1 DEF Shifting, Comparable
<1>3. Totals' /\ varA' = varA /\ varB' = varB /\ Comparable' /\ n' = n
  BY <1>1, GivenKeeps DEF Shifting, Totals, varA, varB, Given
<1>4. PeakBelow(n)'
  BY <1>1, <1>2, <1>3, GivenKeeps DEF PeakBelow
<1>5. stage' = "returned" /\ result' = [status |-> "SUCCESS", num |-> peak.num, varA |-> varA, varB |-> varB]
  BY DEF Score, CorrelationAnswer
<1>6. Answered'
  <2>1. varA > 0 /\ varB > 0 /\ peak' = peak
    BY <1>1 DEF Shifting
  <2> QED
    BY <1>3, <1>4, <1>5, <2>1 DEF Answered
<1> QED
  BY <1>1, <1>3, <1>5, <1>6 DEF CorrelationInvariant

LEMMA CorrelationSteps == CorrelationInvariant /\ [CorrelationNext]_correlationVars => CorrelationInvariant'
<1> SUFFICES ASSUME CorrelationInvariant, [CorrelationNext]_correlationVars PROVE CorrelationInvariant'
  OBVIOUS
<1>1. ASSUME NEW size \in 1..MaxBytes, NEW a \in [0..size - 1 -> 0..ByteMax], NEW b \in [0..size - 1 -> 0..ByteMax],
             CorrelationCall(size, a, b)
      PROVE  CorrelationInvariant'
  BY <1>1, CallStep
<1>2. CASE AddUp
  BY <1>2, AddUpStep
<1>3. CASE NoStructure
  BY <1>3, AnswerStep DEF NoStructure
<1>4. CASE Structured
  BY <1>4, StructuredStep
<1>5. CASE StartShift
  BY <1>5, StartShiftStep
<1>6. CASE Multiply
  BY <1>6, MultiplyStep
<1>7. CASE EndShift
  BY <1>7, EndShiftStep
<1>8. CASE Score
  BY <1>8, ScoreStep
<1>9. CASE CorrelationReturn
  BY <1>9 DEF CorrelationReturn, CorrelationInvariant
<1>10. CASE UNCHANGED correlationVars
  <2>1. Given /\ UNCHANGED <<stage, i, d, sums, dot, peak, result>>
    BY <1>10 DEF correlationVars, Given
  <2>2. CASE stage = "idle"
    BY <2>1, <2>2 DEF CorrelationInvariant
  <2>3. CASE stage = "sums"
    <3>1. Comparable' /\ n' = n /\ AddingUp'
      BY <2>1, <2>3, GivenKeeps DEF CorrelationInvariant, AddingUp, Given
    <3> QED
      BY <2>1, <2>3, <3>1 DEF CorrelationInvariant
  <2>4. CASE stage \in {"shift", "dot"}
    <3>1. Shifting' /\ Comparable' /\ n' = n
      BY <2>1, <2>4, ShiftingStays DEF CorrelationInvariant, Given
    <3>2. Multiplying => Multiplying'
      BY <2>1, GivenKeeps DEF Multiplying, Given
    <3> QED
      BY <2>1, <2>4, <3>1, <3>2 DEF CorrelationInvariant
  <2>5. CASE stage = "returned"
    <3>1. Totals' /\ varA' = varA /\ varB' = varB /\ Comparable' /\ n' = n
      BY <2>1, <2>5, GivenKeeps DEF CorrelationInvariant, Answered, Totals, varA, varB, Given
    <3>2. PeakBelow(n) => PeakBelow(n)'
      BY <2>1, GivenKeeps DEF PeakBelow, Given
    <3>3. Answered'
      BY <2>1, <2>5, <3>1, <3>2 DEF CorrelationInvariant, Answered
    <3> QED
      BY <2>1, <2>5, <3>1, <3>3 DEF CorrelationInvariant
  <2> QED
    BY <2>2, <2>3, <2>4, <2>5 DEF CorrelationInvariant
<1> QED
  BY <1>1, <1>2, <1>3, <1>4, <1>5, <1>6, <1>7, <1>8, <1>9, <1>10 DEF CorrelationNext

THEOREM CorrelationInductive == CorrelationSpec => []CorrelationInvariant
  BY CorrelationStarts, CorrelationSteps, PTL DEF CorrelationSpec

LEMMA VariancesAre ==
    ASSUME Comparable, Totals
    PROVE  /\ n * varA = Variance(first) /\ n * varB = Variance(second)
           /\ varA \in Int /\ varB \in Int
           /\ Variance(first) \in Nat /\ Variance(second) \in Nat
<1>1. n \in Nat
  BY DEF Comparable
<1>2. Variance(first) = n * varA /\ Variance(second) = n * varB
  BY <1>1, SumsOfDigests, VarianceIs DEF varA, varB, Totals, SumA, SumB
<1>3. varA \in Int /\ varB \in Int
  BY <1>1, SumsOfDigests DEF varA, varB, Totals
<1> QED
  BY <1>1, <1>2, <1>3, SumsOfDigests, VarianceNatural

LEMMA PeakIsBounded ==
    ASSUME Comparable, Totals, varB > 0, NEW s \in Below(n)
    PROVE  NumAt(s) * NumAt(s) <= varA * varB
<1> DEFINE x  == [k \in Below(n) |-> Deviation(first, k)]
     y  == [k \in Below(n) |-> Deviation(second, (k - s) % n)]
     xx == [k \in Below(n) |-> Deviation(first, k) * Deviation(first, k)]
     zz == [k \in Below(n) |-> Deviation(second, k) * Deviation(second, k)]
     yy == [k \in Below(n) |-> Deviation(second, (k - s) % n) * Deviation(second, (k - s) % n)]
     xy == [k \in Below(n) |-> Deviation(first, k) * Deviation(second, (k - s) % n)]
<1>1. n \in Nat /\ n > 0
  BY DEF Comparable
<1>2. \A k \in Below(n) : /\ Deviation(first, k) \in Int /\ Deviation(second, (k - s) % n) \in Int
                          /\ (k - s) % n = Turn(s)[k] /\ Turn(s)[k] \in Below(n)
  BY <1>1, CovarianceTerms, TurnIsRemainder
<1>3. \A k \in Below(n) : Deviation(second, k) \in Int
  BY <1>1, SumsOfDigests, TotalIsSum DEF Deviation, SumB
<1>4. /\ x \in [Below(n) -> Int] /\ y \in [Below(n) -> Int] /\ xx \in [Below(n) -> Int]
      /\ yy \in [Below(n) -> Int] /\ zz \in [Below(n) -> Int] /\ xy \in [Below(n) -> Int]
  BY <1>2, <1>3
<1>5. \A k \in Below(n) : /\ xx[k] = x[k] * x[k] /\ yy[k] = y[k] * y[k] /\ xy[k] = x[k] * y[k]
                          /\ yy[k] = zz[Turn(s)[k]]
  BY <1>2
<1>6. Sums(xx)[Below(n)] = n * varA
  BY <1>1, SumsOfDigests, TotalIsSum, VarianceIsSum, VariancesAre DEF SumA
<1>7. Sums(zz)[Below(n)] = n * varB
  BY <1>1, SumsOfDigests, TotalIsSum, VarianceIsSum, VariancesAre DEF SumB
<1>8. Sums(xy)[Below(n)] = n * NumAt(s)
  <2>1. s \in Int
    BY <1>1 DEF Below
  <2>2. \A k \in Below(n) : Deviation(first, k) * Deviation(second, (k - s) % n) \in Int
    BY <1>2
  <2> QED
    BY <1>1, <2>1, <2>2, CovarianceIsSum, CovarianceIs
<1> HIDE DEF x, y, xx, yy, zz, xy
<1>9. Sums(yy)[Below(n)] = n * varB
  <2>1. TurnedBy(s, zz, yy)
    BY <1>1, <1>4, <1>5 DEF TurnedBy
  <2> QED
    BY <1>7, <2>1, TurnedSum
<1> DEFINE c == NumAt(s)
<1>10. c \in Int /\ varA \in Int /\ varB \in Int
  BY CovarianceIs, VariancesAre
<1>11. n * varB > 0
  BY <1>1, <1>10
<1>12. (n * c) * (n * c) <= (n * varA) * (n * varB)
  <2>1. Multiplies(n, x, y, xx, yy, xy)
    BY <1>1, <1>4, <1>5 DEF Multiplies
  <2>2. Sums(xy)[Below(n)] * Sums(xy)[Below(n)] <= Sums(xx)[Below(n)] * Sums(yy)[Below(n)]
    BY <1>9, <1>11, <2>1, CauchySchwarz
  <2> QED
    BY <1>6, <1>8, <1>9, <2>2
<1> HIDE DEF c
<1>13. c * c <= varA * varB
  <2> DEFINE z == varA * varB - c * c
  <2>1. (n * c) * (n * c) = (n * n) * (c * c) /\ (n * varA) * (n * varB) = (n * n) * (varA * varB)
    BY <1>1, <1>10
  <2>2. (n * n) * (varA * varB) - (n * n) * (c * c) = (n * n) * z
    BY <1>1, <1>10
  <2>3. (n * n) * z >= 0
    BY <1>1, <1>10, <1>12, <2>1, <2>2
  <2>4. z \in Int /\ n * n > 0 /\ n * n \in Int
    BY <1>1, <1>10
  <2>5. z >= 0
    <3> HIDE DEF z
    <3> DEFINE m == n * n
    <3>1. m \in Int /\ m > 0 /\ z \in Int /\ m * z >= 0
      BY <2>3, <2>4
    <3> HIDE DEF m
    <3>2. z < 0 => m * z < 0
      BY <3>1
    <3>3. m * z \in Int
      BY <3>1
    <3> QED
      BY ONLY <3>1, <3>2, <3>3
  <2>6. varA * varB \in Int /\ c * c \in Int
    BY <1>10
  <2> QED
    BY <2>5, <2>6
<1> QED
  BY <1>13 DEF c

LEMMA AnswerIsExact == CorrelationInvariant => PeakIsExact
<1> SUFFICES ASSUME CorrelationInvariant PROVE PeakIsExact
  OBVIOUS
<1>1. CASE stage # "returned"
  <2>1. result = NoResult
    BY <1>1 DEF CorrelationInvariant, AddingUp, Shifting
  <2> QED
    BY <2>1 DEF PeakIsExact, NoResult
<1>2. CASE stage = "returned"
  <2>1. Comparable /\ Answered /\ Totals /\ n \in Nat /\ n > 0
    BY <1>2 DEF CorrelationInvariant, Answered, Comparable
  <2>2. /\ n * varA = Variance(first) /\ n * varB = Variance(second)
        /\ varA \in Int /\ varB \in Int /\ Variance(first) \in Nat /\ Variance(second) \in Nat
    BY <2>1, VariancesAre
  <2>3. 0 \in {Variance(first), Variance(second)} <=> varA <= 0 \/ varB <= 0
    <3>1. \A v \in Int : (n * v >= 0 => v >= 0) /\ (n * v = 0 <=> v = 0)
      BY <2>1
    <3>2. varA >= 0 /\ varB >= 0 /\ (n * varA = 0 <=> varA = 0) /\ (n * varB = 0 <=> varB = 0)
      BY <2>2, <3>1
    <3> QED
      BY <2>2, <3>2
  <2>4. CASE result = [NoResult EXCEPT !.status = "NO_STRUCTURE"] /\ (varA <= 0 \/ varB <= 0)
    BY <2>3, <2>4 DEF PeakIsExact, NoResult
  <2>5. CASE /\ result = [status |-> "SUCCESS", num |-> peak.num, varA |-> varA, varB |-> varB]
             /\ varA > 0 /\ varB > 0 /\ PeakBelow(n)
    <3> DEFINE covariances == {Covariance(shift) : shift \in 0..n - 1}
    <3>1. Below(n) = 0..n - 1
      BY DEF Below
    <3>2. PICK s \in Below(n) : peak.num = NumAt(s)
      BY <2>1, <2>5 DEF PeakBelow
    <3>3. n * peak.num \in covariances
      BY <2>1, <3>1, <3>2, CovarianceIs
    <3>4. ASSUME NEW c \in covariances PROVE c <= n * peak.num
      <4>1. PICK t \in Below(n) : c = Covariance(t)
        BY <3>1
      <4>2. c = n * NumAt(t) /\ NumAt(t) \in Int /\ NumAt(s) \in Int /\ NumAt(t) <= NumAt(s)
        BY <2>1, <2>5, <3>2, <4>1, CovarianceIs DEF PeakBelow
      <4>3. n * NumAt(t) <= n * NumAt(s)
        BY <2>1, <4>2
      <4> QED
        BY <3>2, <4>2, <4>3
    <3>5. peak.num * peak.num <= varA * varB
      BY <2>1, <2>5, <3>2, PeakIsBounded
    <3>6. /\ result.status = "SUCCESS" /\ result.num = peak.num /\ result.varA = varA /\ result.varB = varB
      BY <2>5
    <3>7. ~(varA <= 0 \/ varB <= 0)
      BY <2>2, <2>5
    <3> HIDE DEF covariances
    <3>8. /\ n * result.num \in covariances /\ \A c \in covariances : c <= n * result.num
          /\ n * result.varA = Variance(first) /\ n * result.varB = Variance(second)
          /\ result.num * result.num <= result.varA * result.varB
      BY <2>2, <3>3, <3>4, <3>5, <3>6
    <3> QED
      BY <2>3, <3>6, <3>7, <3>8 DEF PeakIsExact, covariances
  <2> QED
    BY <2>1, <2>4, <2>5 DEF Answered
<1> QED
  BY <1>1, <1>2

\* ph_radial_similarity() ends with the largest correlation over all shifts, by the
\* definition over deviations from the mean, which the square root of the product of the
\* variances bounds; and without one exactly if a digest is constant.
THEOREM ScoreIsThePeak == CorrelationSpec => []PeakIsExact
  BY CorrelationInductive, AnswerIsExact, PTL

\* The widths.  The sum of products outlives its loop, so its bound is part of what is kept.
DotFits == n \in 0..MaxBytes /\ dot \in 0..n * (ByteMax * ByteMax)

LEMMA DotFitsInLoop == CorrelationInvariant /\ stage = "dot" => DotFits
<1> SUFFICES ASSUME CorrelationInvariant, stage = "dot"
             PROVE  DotFits
  OBVIOUS
<1> DEFINE M == ByteMax * ByteMax
<1>1. Shifting /\ Multiplying /\ Comparable
  BY DEF CorrelationInvariant
<1>2. n \in Nat /\ M \in Nat /\ d \in Below(n) /\ i \in 0..n
  BY <1>1, CorrelationAssumption DEF Comparable, Shifting, Multiplying, Below
<1>3. Products(d) \in [Below(n) -> 0..M]
  BY <1>1, <1>2, Products2
<1> HIDE DEF M
<1>4. dot \in 0..i * M
  BY <1>1, <1>2, <1>3, SumsStayBelow DEF Multiplying
<1>5. i * M <= n * M /\ i * M \in Nat /\ n * M \in Nat
  BY <1>2
<1>6. dot \in 0..n * M
  BY <1>4, <1>5
<1>7. n \in 0..MaxBytes
  BY CorrelationAssumption DEF CorrelationInvariant
<1> QED
  BY <1>6, <1>7 DEF DotFits, M

LEMMA DotFitsStays ==
    ASSUME CorrelationInvariant, CorrelationInvariant', DotFits, [CorrelationNext]_correlationVars
    PROVE  DotFits'
<1>0. ByteMax * ByteMax \in Nat
  BY CorrelationAssumption
<1>1. CASE stage' = "dot"
  <2>1. (CorrelationInvariant /\ stage = "dot" => DotFits)'
    BY DotFitsInLoop, PTL
  <2> QED
    BY <1>1, <2>1
<1>2. CASE UNCHANGED <<n, dot>>
  BY <1>2 DEF DotFits
<1>3. ASSUME NEW size \in 1..MaxBytes, dot' = dot, dot = 0, n' = size PROVE DotFits'
  <2>1. size * (ByteMax * ByteMax) \in Nat
    BY <1>0, <1>3, CorrelationAssumption
  <2>2. size \in 0..MaxBytes
    BY <1>3, CorrelationAssumption
  <2> QED
    BY <1>3, <2>1, <2>2 DEF DotFits
<1>4. CASE \E size \in 1..MaxBytes : \E a, b \in [0..size - 1 -> 0..ByteMax] : CorrelationCall(size, a, b)
  BY <1>3, <1>4 DEF CorrelationCall, CorrelationInvariant
<1>5. CASE CorrelationReturn
  <2>1. dot' = 0 /\ n' = 0 /\ 0 * (ByteMax * ByteMax) = 0
    BY <1>0, <1>5 DEF CorrelationReturn
  <2> QED
    BY <2>1, CorrelationAssumption DEF DotFits
<1> QED
  BY <1>1, <1>2, <1>4, <1>5
  DEF CorrelationNext, correlationVars, AddUp, NoStructure, Structured, CorrelationAnswer, StartShift, Multiply,
      EndShift, Score

LEMMA DotFitsStarts == CorrelationIdle => DotFits
<1>1. 0 * (ByteMax * ByteMax) = 0
  BY CorrelationAssumption
<1> QED
  BY <1>1, CorrelationAssumption DEF CorrelationIdle, DotFits

\* Two factors, each with its bound.
LEMMA ProductFits ==
    ASSUME NEW a \in Nat, NEW b \in Nat, NEW p \in Nat, NEW q \in Nat, a <= p, b <= q
    PROVE  a * b \in Nat /\ a * b <= p * q
<1>1. a * b <= p * b /\ p * b <= p * q
  OBVIOUS
<1>2. a * b \in Nat /\ p * b \in Nat /\ p * q \in Nat
  OBVIOUS
<1> QED
  BY <1>1, <1>2

LEMMA SumsFit ==
    ASSUME CorrelationInvariant, stage # "idle"
    PROVE  /\ sums.a \in 0..n * ByteMax /\ sums.b \in 0..n * ByteMax
           /\ sums.aa \in 0..n * (ByteMax * ByteMax) /\ sums.bb \in 0..n * (ByteMax * ByteMax)
<1> DEFINE M == ByteMax * ByteMax
<1>1. /\ Comparable /\ n \in Nat /\ ByteMax \in Nat /\ M \in Nat
      /\ first \in [Below(n) -> 0..ByteMax] /\ second \in [Below(n) -> 0..ByteMax]
  BY CorrelationAssumption DEF CorrelationInvariant, Comparable
<1>2. Squares(first) \in [Below(n) -> 0..M] /\ Squares(second) \in [Below(n) -> 0..M]
  <2>1. \A x \in 0..ByteMax : x * x \in 0..ByteMax * ByteMax
    BY <1>1, ProductFits
  <2>2. \A k \in Below(n) : first[k] * first[k] \in 0..M /\ second[k] * second[k] \in 0..M
    BY <1>1, <2>1
  <2> QED
    BY <2>2 DEF Squares
<1>3. PICK j \in 0..n : sums = [a  |-> Sums(first)[Below(j)], b |-> Sums(second)[Below(j)],
                                aa |-> Sums(Squares(first))[Below(j)], bb |-> Sums(Squares(second))[Below(j)]]
  <2>1. CASE stage = "sums"
    BY <2>1 DEF CorrelationInvariant, AddingUp
  <2>2. CASE Totals
    <3>1. n \in 0..n
      BY <1>1
    <3> QED
      BY <2>2, <3>1 DEF Totals, SumA, SumB
  <2>3. stage = "sums" \/ Totals
    BY DEF CorrelationInvariant, Shifting, Answered
  <2> QED
    BY <2>1, <2>2, <2>3
<1> HIDE DEF M
<1>4. /\ sums.a \in 0..j * ByteMax /\ sums.b \in 0..j * ByteMax
      /\ sums.aa \in 0..j * M /\ sums.bb \in 0..j * M
  BY <1>1, <1>2, <1>3, SumsStayBelow
<1>5. /\ j * ByteMax <= n * ByteMax /\ j * ByteMax \in Nat /\ n * ByteMax \in Nat
      /\ j * M <= n * M /\ j * M \in Nat /\ n * M \in Nat
  BY <1>1, <1>3, ProductFits
<1>6. /\ sums.a \in 0..n * ByteMax /\ sums.b \in 0..n * ByteMax
      /\ sums.aa \in 0..n * M /\ sums.bb \in 0..n * M
  BY <1>4, <1>5
<1> QED
  BY <1>6 DEF M

LEMMA NothingWrapsHere ==
    ASSUME CorrelationInvariant, DotFits
    PROVE  NothingWraps
<1> DEFINE M == ByteMax * ByteMax  top == (MaxBytes * MaxBytes) * M
<1>0. ByteMax \in Nat /\ MaxBytes \in Nat /\ M \in Nat /\ top \in Nat /\ LongModulus \in Nat /\ top < LongModulus
  BY CorrelationAssumption
<1>1. CASE stage = "idle"
  <2>1. n \in Nat => n * 0 = 0
    OBVIOUS
  <2>2. /\ dot = 0 /\ sums.a = 0 /\ sums.b = 0 /\ sums.aa = 0 /\ sums.bb = 0
    BY <1>1 DEF CorrelationInvariant, NoSums
  <2>3. n \in Nat /\ 0 < LongModulus /\ 0 * 0 = 0
    BY <1>0 DEF DotFits
  <2> QED
    BY <1>1, <2>1, <2>2, <2>3 DEF NothingWraps
<1>2. CASE stage # "idle"
  <2>1. n \in Nat /\ n <= MaxBytes /\ Comparable /\ n \in 1..MaxBytes
    BY <1>0, <1>2 DEF CorrelationInvariant, Comparable
  <2>2. /\ sums.a \in 0..n * ByteMax /\ sums.b \in 0..n * ByteMax
        /\ sums.aa \in 0..n * M /\ sums.bb \in 0..n * M /\ dot \in 0..n * M
    BY <1>2, SumsFit DEF DotFits
  <2> HIDE DEF M, top
  <2>3. n * ByteMax <= MaxBytes * ByteMax /\ n * M <= MaxBytes * M /\ MaxBytes * ByteMax \in Nat /\ MaxBytes * M \in Nat
        /\ n * ByteMax \in Nat /\ n * M \in Nat
    BY <1>0, <2>1, ProductFits
  <2>4. MaxBytes * (MaxBytes * M) = top
    BY <1>0 DEF top
  <2>5. (MaxBytes * ByteMax) * (MaxBytes * ByteMax) = top
    <3>1. (MaxBytes * ByteMax) * (MaxBytes * ByteMax) = (MaxBytes * MaxBytes) * (ByteMax * ByteMax)
      BY <1>0
    <3> QED
      BY <3>1 DEF top, M
  <2>6. ASSUME NEW x \in {dot, sums.aa, sums.bb} PROVE n * x < LongModulus
    <3>1. x \in Nat /\ x <= MaxBytes * M
      BY <2>2, <2>3
    <3>2. n * x \in Nat /\ n * x <= MaxBytes * (MaxBytes * M)
      BY <1>0, <2>1, <2>3, <3>1, ProductFits
    <3> QED
      BY <1>0, <2>4, <3>2
  <2>7. ASSUME NEW x \in {sums.a, sums.b}, NEW y \in {sums.a, sums.b} PROVE x * y < LongModulus
    <3>1. x \in Nat /\ x <= MaxBytes * ByteMax /\ y \in Nat /\ y <= MaxBytes * ByteMax
      BY <2>2, <2>3
    <3>2. x * y \in Nat /\ x * y <= (MaxBytes * ByteMax) * (MaxBytes * ByteMax)
      BY <2>3, <3>1, ProductFits
    <3> QED
      BY <1>0, <2>5, <3>2
  <2>8. stage = "dot" /\ i < n => first[i] * Shifted(i) < ProductModulus /\ dot + first[i] * Shifted(i) < DotModulus
    <3> SUFFICES ASSUME stage = "dot", i < n
                 PROVE  first[i] * Shifted(i) < ProductModulus /\ dot + first[i] * Shifted(i) < DotModulus
      OBVIOUS
    <3>1. i \in Below(n) /\ d \in Below(n) /\ dot = Sums(Products(d))[Below(i)]
      BY <2>1 DEF CorrelationInvariant, Shifting, Multiplying, Below
    <3> QED
      BY <2>1, <3>1, MultiplyExact
  <2> QED
    BY <2>6, <2>7, <2>8 DEF NothingWraps
<1> QED
  BY <1>1, <1>2

\* No product, sum of products, variance or numerator leaves the type it is kept in.
THEOREM WidthsSuffice == CorrelationSpec => []NothingWraps
<1>1. CorrelationSpec => []DotFits
  BY CorrelationInductive, DotFitsStarts, DotFitsStays, PTL DEF CorrelationSpec
<1> QED
  BY <1>1, CorrelationInductive, NothingWrapsHere, PTL

-----------------------------------------------------------------------------
\* Quota.  ph_parse_ll() compares with the largest number before it multiplies; by
\* induction over the digits it has what is written or has seen that it does not fit.
\* Any texts.
AnyWord == [negative : BOOLEAN, digits : Seq(0..9)]
AnyFile == {NoFile} \cup {Text(words) : words \in Seq(AnyWord)}
AnyRoot == [cpu_max : AnyFile, quota : AnyFile, period : AnyFile]

\* The number that the digits write, after each of them, and what ph_parse_ll() has then.
Counts(digits, f) ==
    f = [k \in 0..Len(digits) |-> IF k = 0 THEN 0 ELSE f[k - 1] * 10 + digits[k]]

Reads(digits, f) ==
    f = [k \in 0..Len(digits) |->
            IF k = 0 THEN 0
            ELSE IF f[k - 1] = Unreadable \/ f[k - 1] > (LongMax - digits[k]) \div 10 THEN Unreadable
            ELSE f[k - 1] * 10 + digits[k]]

Counted(digits) == CHOOSE f : Counts(digits, f)

LEMMA CountedIs ==
    ASSUME NEW digits \in Seq(0..9)
    PROVE  Counts(digits, Counted(digits)) /\ Counted(digits) \in [0..Len(digits) -> Nat]
<1> DEFINE size == Len(digits)  step == [k \in 1..size |-> [v \in Nat |-> v * 10 + digits[k]]]  F == Counted(digits)
<1>1. size \in Nat /\ \A k \in 1..size : digits[k] \in 0..9
  OBVIOUS
<1>2. step \in [1..size -> [Nat -> Nat]]
  BY <1>1
<1>3. PICK f \in [0..size -> Nat] : f = [k \in 0..size |-> IF k = 0 THEN 0 ELSE step[k][f[k - 1]]]
  <2> HIDE DEF step, size
  <2>1. Loop(size, Nat, 0, step)
    BY <1>1, <1>2 DEF Loop
  <2> QED
    BY <2>1, LoopExists
<1>4. ASSUME NEW k \in 0..size, k # 0 PROVE step[k][f[k - 1]] = f[k - 1] * 10 + digits[k]
  <2>1. k \in 1..size /\ k - 1 \in 0..size
    BY <1>1, <1>4
  <2>2. f[k - 1] \in Nat
    BY <1>3, <2>1
  <2> QED
    BY <2>1, <2>2
<1>5. Counts(digits, f)
  <2> HIDE DEF step
  <2> QED
    BY <1>3, <1>4 DEF Counts
<1>6. Counts(digits, F)
  BY <1>5 DEF Counted
<1>7. F = [k \in 0..size |-> IF k = 0 THEN 0 ELSE F[k - 1] * 10 + digits[k]]
  BY <1>6 DEF Counts
<1> DEFINE P == {k \in 0..size : F[k] \in Nat}
<1> HIDE DEF F, step
<1>8. 0 \in P
  BY <1>1, <1>7
<1>9. ASSUME NEW k \in Below(size), k \in P PROVE k + 1 \in P
  <2>1. k + 1 \in 1..size /\ k + 1 \in 0..size /\ k + 1 # 0 /\ (k + 1) - 1 = k /\ F[k] \in Nat
    BY <1>1, <1>9 DEF Below
  <2>2. F[k + 1] = F[k] * 10 + digits[k + 1]
    <3> HIDE DEF size
    <3> QED
      BY ONLY <1>7, <2>1
  <2>3. digits[k + 1] \in Nat
    <3>1. digits[k + 1] \in 0..9
      <4> HIDE DEF size
      <4> QED
        BY ONLY <1>1, <2>1
    <3> QED
      BY <3>1
  <2>4. F[k + 1] \in Nat
    <3> HIDE DEF size
    <3> QED
      BY ONLY <2>1, <2>2, <2>3
  <2> QED
    BY <2>1, <2>4
<1>10. \A k \in 0..size : k \in P
  <2> HIDE DEF P
  <2> QED
    BY <1>1, <1>8, <1>9, OneByOne
<1>11. F \in [0..size -> Nat]
  BY <1>7, <1>10
<1> QED
  BY <1>6, <1>11 DEF F

Values == 0..LongMax \cup {Unreadable}

LEMMA ReadingExists ==
    ASSUME NEW digits \in Seq(0..9)
    PROVE  \E f : Reads(digits, f)
<1> DEFINE size == Len(digits)
     After(v, x) == IF v = Unreadable \/ v > (LongMax - x) \div 10 THEN Unreadable ELSE v * 10 + x
     step == [k \in 1..size |-> [v \in Values |-> After(v, digits[k])]]
<1>1. size \in Nat /\ \A k \in 1..size : digits[k] \in 0..9
  OBVIOUS
<1>2. ASSUME NEW v \in Values, NEW x \in 0..9 PROVE After(v, x) \in Values
  BY QuotaAssumption DEF Values, Unreadable
<1>3. step \in [1..size -> [Values -> Values]]
  <2> HIDE DEF After
  <2> QED
    BY <1>1, <1>2
<1>4. 0 \in Values
  BY QuotaAssumption DEF Values
<1>5. PICK f \in [0..size -> Values] : f = [k \in 0..size |-> IF k = 0 THEN 0 ELSE step[k][f[k - 1]]]
  <2> HIDE DEF step, size
  <2>1. Loop(size, Values, 0, step)
    BY <1>1, <1>3, <1>4 DEF Loop
  <2> QED
    BY <2>1, LoopExists
<1>6. \A k \in 0..size : k # 0 => step[k][f[k - 1]] = After(f[k - 1], digits[k])
  <2> HIDE DEF After
  <2> QED
    BY <1>1
<1>7. f = [k \in 0..size |-> IF k = 0 THEN 0 ELSE After(f[k - 1], digits[k])]
  <2> HIDE DEF step, After
  <2> QED
    BY <1>5, <1>6
<1> QED
  BY <1>7 DEF Reads

\* ph_parse_ll() reads what is written, or sees that it does not fit.
LEMMA DigitsRead ==
    ASSUME NEW digits \in Seq(0..9)
    PROVE  LET count == Counted(digits)[Len(digits)] IN
           Digits(digits) = IF count <= LongMax THEN count ELSE Unreadable
<1> DEFINE size == Len(digits)  C == Counted(digits)  R == CHOOSE f : Reads(digits, f)
     P == {k \in 0..size : R[k] = IF C[k] <= LongMax THEN C[k] ELSE Unreadable}
<1>1. size \in Nat /\ \A k \in 1..size : digits[k] \in 0..9
  OBVIOUS
<1>2. C \in [0..size -> Nat] /\ C = [k \in 0..size |-> IF k = 0 THEN 0 ELSE C[k - 1] * 10 + digits[k]]
  BY CountedIs DEF Counts
<1>3. R = [k \in 0..size |->
              IF k = 0 THEN 0
              ELSE IF R[k - 1] = Unreadable \/ R[k - 1] > (LongMax - digits[k]) \div 10 THEN Unreadable
              ELSE R[k - 1] * 10 + digits[k]]
  <2>1. Reads(digits, R)
    BY ReadingExists
  <2> HIDE DEF R
  <2> QED
    BY <2>1 DEF Reads
<1>4. Digits(digits) = R[size]
  BY DEF Digits, Reads
<1> HIDE DEF C, R
<1>5. 0 \in P
  BY <1>1, <1>2, <1>3, QuotaAssumption
<1>6. ASSUME NEW k \in Below(size), k \in P PROVE k + 1 \in P
  <2> DEFINE c == C[k]  r == R[k]  x == digits[k + 1]
  <2>1. k + 1 \in 1..size /\ k + 1 \in 0..size /\ (k + 1) - 1 = k /\ k + 1 # 0 /\ k \in 0..size
    BY <1>1 DEF Below
  <2>2. c \in Nat /\ x \in 0..9 /\ r = IF c <= LongMax THEN c ELSE Unreadable
    BY <1>1, <1>2, <1>6, <2>1
  <2>3. C[k + 1] = c * 10 + x
    BY <1>2, <2>1
  <2>4. R[k + 1] = IF r = Unreadable \/ r > (LongMax - x) \div 10 THEN Unreadable ELSE r * 10 + x
    BY <1>3, <2>1
  <2> HIDE DEF c, r, x
  <2>5. LongMax \in Nat /\ Unreadable = -LongMax - 1
    BY QuotaAssumption DEF Unreadable
  <2>6. c > (LongMax - x) \div 10 <=> c * 10 + x > LongMax
    BY <2>2, <2>5
  <2>7. R[k + 1] = IF C[k + 1] <= LongMax THEN C[k + 1] ELSE Unreadable
    <3>1. CASE c > LongMax
      BY <2>2, <2>3, <2>4, <2>5, <3>1
    <3>2. CASE c <= LongMax
      BY <2>2, <2>3, <2>4, <2>5, <2>6, <3>2
    <3> QED
      BY <2>2, <2>5, <3>1, <3>2
  <2> QED
    BY <2>1, <2>7
<1>7. size \in P
  <2>1. \A k \in 0..size : k \in P
    <3> HIDE DEF P
    <3> QED
      BY <1>1, <1>5, <1>6, OneByOne
  <2> QED
    BY <1>1, <2>1
<1> QED
  BY <1>4, <1>7 DEF C

LEMMA WrittenIs ==
    ASSUME NEW word \in AnyWord
    PROVE  LET count == Counted(word.digits)[Len(word.digits)] IN
           count \in Nat /\ Written(word) = IF word.negative THEN -count ELSE count
<1>1. word.digits \in Seq(0..9) /\ Len(word.digits) \in 0..Len(word.digits)
  BY DEF AnyWord
<1>2. Counted(word.digits)[Len(word.digits)] \in Nat
  BY <1>1, CountedIs
<1>3. Written(word) = IF word.negative THEN -Counted(word.digits)[Len(word.digits)]
                      ELSE Counted(word.digits)[Len(word.digits)]
  BY DEF Written, Counted, Counts
<1> QED
  BY <1>2, <1>3

Positive(word) == word.digits # <<>> /\ Written(word) \in 1..LongMax

LEMMA NumberIs ==
    ASSUME NEW word \in AnyWord
    PROVE  /\ Number(word) \in Int
           /\ Positive(word) <=> Number(word) # Unreadable /\ Number(word) > 0
           /\ Positive(word) => Number(word) = Written(word)
<1> DEFINE count == Counted(word.digits)[Len(word.digits)]
<1>1. word.digits \in Seq(0..9) /\ word.negative \in BOOLEAN
  BY DEF AnyWord
<1>2. count \in Nat /\ Written(word) = IF word.negative THEN -count ELSE count
  BY WrittenIs
<1>3. Digits(word.digits) = IF count <= LongMax THEN count ELSE Unreadable
  BY <1>1, DigitsRead
<1> HIDE DEF count
<1>4. LongMax \in Nat /\ Unreadable = -LongMax - 1
  BY QuotaAssumption DEF Unreadable
<1> QED
  BY <1>1, <1>2, <1>3, <1>4 DEF Number, Positive

\* ph_cpu_quota_limit() rounds up, and does not go beyond an int.
LEMMA SharesAreOne ==
    ASSUME NEW quota \in 1..LongMax, NEW period \in 1..LongMax,
           NEW one \in Int, one * period >= quota, (one - 1) * period < quota,
           NEW other \in Int, other * period >= quota, (other - 1) * period < quota
    PROVE  one = other
<1>0. quota \in Int /\ period \in Nat \ {0}
  BY QuotaAssumption
<1>1. ASSUME NEW a \in Int, NEW b \in Int, a * period >= quota, (b - 1) * period < quota PROVE b <= a
  <2>1. a <= b - 1 => a * period <= (b - 1) * period
    BY <1>0, <1>1
  <2> QED
    BY <1>0, <1>1, <2>1
<1> QED
  BY <1>1

LEMMA RoundedUp ==
    ASSUME NEW quota \in 1..LongMax, NEW period \in 1..LongMax
    PROVE  LET cpus == UpByRest(quota, period) IN
           /\ cpus \in 1..LongMax
           /\ cpus * period >= quota /\ (cpus - 1) * period < quota
<1> DEFINE q == quota \div period  r == quota % period  cpus == UpByRest(quota, period)
<1>0. quota \in Nat \ {0} /\ period \in Nat \ {0} /\ LongMax \in Nat
  BY QuotaAssumption
<1>1. q \in Nat /\ r \in 0..period - 1 /\ quota = period * q + r
  BY <1>0, SMT
<1>2. (r = 0 => cpus = q + 0) /\ (r # 0 => cpus = q + 1)
  BY DEF UpByRest
<1> HIDE DEF q, r, cpus
<1>3. cpus \in Int /\ ((cpus = q /\ r = 0) \/ (cpus = q + 1 /\ r > 0))
  <2>1. q \in Int /\ r \in Nat
    BY <1>0, <1>1
  <2> QED
    BY <1>2, <2>1
<1>4. q * period = period * q /\ (q + 1) * period = period * q + period /\ (q - 1) * period = period * q - period
  BY <1>0, <1>1
<1>5. period * q \in Nat
  BY <1>0, <1>1
<1>6. (q + 1) - 1 = q
  BY <1>1
<1>7. cpus * period >= quota /\ (cpus - 1) * period < quota
  <2>1. CASE cpus = q /\ r = 0
    BY <1>0, <1>1, <1>4, <1>5, <2>1
  <2>2. CASE cpus = q + 1 /\ r > 0
    BY <1>0, <1>1, <1>4, <1>5, <1>6, <2>2
  <2> QED
    BY <1>3, <2>1, <2>2
<1>8. cpus >= 1
  <2>1. cpus <= 0 => cpus * period <= 0 * period
    BY <1>0, <1>3
  <2> QED
    BY <1>0, <1>3, <1>7, <2>1
<1>9. cpus <= quota
  <2> DEFINE less == cpus - 1
  <2>1. less \in Nat
    BY <1>3, <1>8
  <2> HIDE DEF less
  <2>2. less <= less * period
    BY <1>0, <2>1
  <2>3. less * period \in Nat
    BY <1>0, <2>1
  <2>4. less < quota
    BY <1>0, <1>7, <2>1, <2>2, <2>3 DEF less
  <2> QED
    BY <1>0, <1>3, <2>4 DEF less
<1> QED
  BY <1>0, <1>3, <1>7, <1>8, <1>9 DEF cpus

LEMMA ClampedIs ==
    ASSUME NEW cpus \in 1..LongMax
    PROVE  Clamped(cpus) = Lesser(cpus, IntMax)
<1>1. IntMax \in Nat \ {0} /\ LongMax \in Nat /\ cpus \in Nat
  BY QuotaAssumption
<1>2. cpus <= IntMax => cpus % (2 * (IntMax + 1)) = cpus
  BY <1>1
<1> QED
  BY <1>1, <1>2 DEF Clamped, Lesser, ToInt

LEMMA QuotaIsShare ==
    ASSUME NEW words \in Seq(AnyWord)
    PROVE  /\ ~States(words) => QuotaLimit(words) = 0
           /\ States(words) => Share(words) \in 1..LongMax /\ QuotaLimit(words) = Lesser(Share(words), IntMax)
<1>1. CASE Len(words) < 2
  BY <1>1 DEF States, QuotaLimit
<1>2. CASE Len(words) >= 2
  <2>1. Len(words) \in Nat /\ 1 \in 1..Len(words) /\ 2 \in 1..Len(words)
    BY <1>2
  <2> DEFINE one == words[1]  two == words[2]
  <2>2. one \in AnyWord /\ two \in AnyWord
    BY <2>1
  <2> HIDE DEF one, two
  <2>3. /\ Number(one) \in Int /\ Number(two) \in Int
        /\ Positive(one) <=> Number(one) # Unreadable /\ Number(one) > 0
        /\ Positive(two) <=> Number(two) # Unreadable /\ Number(two) > 0
        /\ Positive(one) => Number(one) = Written(one)
        /\ Positive(two) => Number(two) = Written(two)
    BY <2>2, NumberIs
  <2>4. States(words) <=> Positive(one) /\ Positive(two)
    <3>1. \A k \in 1..2 : k = 1 \/ k = 2
      OBVIOUS
    <3> QED
      BY <1>2, <3>1 DEF States, Positive, one, two
  <2>5. QuotaLimit(words) = IF Unreadable \in {Number(one), Number(two)} THEN 0
                            ELSE IF Number(one) <= 0 \/ Number(two) <= 0 THEN 0
                            ELSE Clamped(UpByRest(Number(one), Number(two)))
    BY <1>2, <2>1 DEF QuotaLimit, one, two
  <2>6. CASE ~States(words)
    BY <2>3, <2>4, <2>5, <2>6
  <2>7. CASE States(words)
    <3> DEFINE quota == Written(one)  period == Written(two)  cpus == UpByRest(quota, period)
         Is(c) == c * period >= quota /\ (c - 1) * period < quota
    <3>1. quota \in 1..LongMax /\ period \in 1..LongMax /\ Number(one) = quota /\ Number(two) = period
      BY <2>3, <2>4, <2>7 DEF Positive
    <3>2. QuotaLimit(words) = Clamped(cpus)
      BY <2>3, <2>4, <2>5, <2>7, <3>1
    <3> HIDE DEF quota, period, cpus
    <3>3. cpus \in 1..LongMax /\ Is(cpus)
      BY <3>1, RoundedUp DEF cpus
    <3>4. Share(words) = CHOOSE c \in 1..LongMax : Is(c)
      BY DEF Share, quota, period, one, two
    <3>5. Share(words) \in 1..LongMax /\ Is(Share(words))
      <4> HIDE DEF Is
      <4> QED
        BY <3>3, <3>4
    <3>6. Share(words) = cpus
      <4>1. LongMax \in Nat
        BY QuotaAssumption
      <4>2. cpus \in Int /\ Share(words) \in Int
        BY <3>3, <3>5, <4>1
      <4> QED
        BY <3>1, <3>3, <3>5, <4>2, SharesAreOne
    <3> QED
      BY <2>7, <3>2, <3>3, <3>6, ClampedIs
  <2> QED
    BY <2>6, <2>7
<1>3. Len(words) \in Nat
  OBVIOUS
<1> QED
  BY <1>1, <1>2, <1>3

\* The words that ph_cgroup_cpu_limit() finds, if any.
WordsOf(root) ==
    IF root.cpu_max # NoFile THEN root.cpu_max.words
    ELSE IF NoFile \in {root.quota, root.period} THEN <<>>
    ELSE root.quota.words \o root.period.words

LEMMA CgroupIsShare ==
    ASSUME NEW root \in AnyRoot
    PROVE  WordsOf(root) \in Seq(AnyWord) /\ CgroupLimit(root) = QuotaLimit(WordsOf(root))
<1>1. root.cpu_max \in AnyFile /\ root.quota \in AnyFile /\ root.period \in AnyFile
  BY DEF AnyRoot
<1>2. ASSUME NEW f \in AnyFile, f # NoFile PROVE f.words \in Seq(AnyWord)
  BY <1>2 DEF AnyFile, Text
<1>3. <<>> \in Seq(AnyWord) /\ QuotaLimit(<<>>) = 0
  BY DEF QuotaLimit
<1>4. CASE root.cpu_max # NoFile
  BY <1>1, <1>2, <1>4 DEF WordsOf, CgroupLimit
<1>5. CASE root.cpu_max = NoFile /\ NoFile \in {root.quota, root.period}
  BY <1>3, <1>5 DEF WordsOf, CgroupLimit
<1>6. CASE root.cpu_max = NoFile /\ NoFile \notin {root.quota, root.period}
  <2>1. root.quota.words \in Seq(AnyWord) /\ root.period.words \in Seq(AnyWord)
    BY <1>1, <1>2, <1>6
  <2>2. root.quota.words \o root.period.words \in Seq(AnyWord)
    BY <2>1
  <2> QED
    BY <1>6, <2>2 DEF WordsOf, CgroupLimit
<1> QED
  BY <1>4, <1>5, <1>6

LEMMA CpusAreCounted ==
    ASSUME NEW online \in Int, NEW affinity \in Nat, NEW root \in AnyRoot,
           NEW cpus, cpus = AvailableCpus(online, affinity, root),
           NEW limits, limits = Limits([online |-> online, affinity |-> affinity, root |-> root])
    PROVE  cpus \in limits /\ cpus >= 1 /\ \A limit \in limits : cpus <= limit
<1> DEFINE words == WordsOf(root)  share == Share(words)  quota == CgroupLimit(root)
     most == IF online > 0 THEN online ELSE 1
     known == IF affinity > 0 THEN {affinity} ELSE {}
     stated == IF States(words) THEN {share} ELSE {}
<1>1. IntMax \in Nat \ {0} /\ LongMax \in Nat
  BY QuotaAssumption
<1>2. /\ ~States(words) => quota = 0
      /\ States(words) => share \in 1..LongMax /\ quota = Lesser(share, IntMax)
  BY CgroupIsShare, QuotaIsShare
<1>3. limits = {most, IntMax} \cup known \cup stated
  BY DEF Limits, WordsOf
<1>4. cpus = LET size == IF online > 0 THEN Lesser(online, IntMax) ELSE 1
                   allowed == IF affinity > 0 THEN Lesser(affinity, size) ELSE size
               IN  IF quota > 0 THEN Lesser(quota, allowed) ELSE allowed
  BY DEF AvailableCpus, OnlineCpus
<1> HIDE DEF words, share, quota
<1>5. CASE States(words)
  <2>1. share \in Nat \ {0} /\ quota = Lesser(share, IntMax)
    BY <1>1, <1>2, <1>5
  <2> QED
    BY <1>1, <1>3, <1>4, <1>5, <2>1 DEF Lesser
<1>6. CASE ~States(words)
  BY <1>1, <1>2, <1>3, <1>4, <1>6 DEF Lesser
<1> QED
  BY <1>5, <1>6

QuotaNext ==
    \/ \E online \in Int, affinity \in Nat, root \in AnyRoot : CountCpus(online, affinity, root)
    \/ Forget

QuotaSpec == call = NoCall /\ [][QuotaNext]_call

\* Whatever the files of the control group hold, numbers too long for any type included,
\* the number of CPUs is the strictest of the limits there are, and at least 1.
THEOREM CpusAreStrictest == QuotaSpec => []CpusCounted
<1>1. call = NoCall => CpusCounted
  BY DEF NoCall, CpusCounted
<1>2. CpusCounted /\ [QuotaNext]_call => CpusCounted'
  <2> SUFFICES ASSUME CpusCounted, [QuotaNext]_call PROVE CpusCounted'
    OBVIOUS
  <2>1. ASSUME NEW online \in Int, NEW affinity \in Nat, NEW root \in AnyRoot, CountCpus(online, affinity, root)
        PROVE  CpusCounted'
    <3> DEFINE given == [online |-> online, affinity |-> affinity, root |-> root]
    <3>1. call' = [what |-> "cpus", given |-> given, answer |-> AvailableCpus(online, affinity, root)]
      BY <2>1 DEF CountCpus, Answer
    <3> HIDE DEF given
    <3>2. call'.given = given /\ call'.answer = AvailableCpus(online, affinity, root)
      BY <3>1
    <3>3. /\ call'.answer \in Limits(given) /\ call'.answer >= 1
          /\ \A limit \in Limits(given) : call'.answer <= limit
      BY <3>2, CpusAreCounted DEF given
    <3>4. Limits(call.given)' = Limits(given)
      BY <3>2 DEF Limits, States, Share, Written
    <3> QED
      BY <3>2, <3>3, <3>4 DEF CpusCounted
  <2>2. CASE Forget
    BY <2>2 DEF Forget, NoCall, CpusCounted
  <2>3. CASE UNCHANGED call
    <3>1. Limits(call.given)' = Limits(call.given)
      BY <2>3 DEF Limits, States, Share, Written
    <3> QED
      BY <2>3, <3>1 DEF CpusCounted
  <2> QED
    BY <2>1, <2>2, <2>3 DEF QuotaNext
<1> QED
  BY <1>1, <1>2, PTL DEF QuotaSpec

-----------------------------------------------------------------------------
\* OnceInit, for any number of threads and of failed warm-ups.  Its invariants are not
\* inductive: what a caller past the lock may assume is kept by Progress, and how many
\* builds the failures account for by Accounts.

\* What is known at each place of the protocol.
Progress ==
    /\ inited => table = "ready"
    /\ \A t \in Threads :
        /\ pc[t] \in {"build", "building", "publish"} => ~inited
        /\ pc[t] = "publish" => table = "ready"
        /\ (pc[t] \in {"unlock", "proceed", "use", "fill"} /\ failures = 0) => inited
        /\ pc[t] = "fill" => failures # 0

\* A build that is neither under way nor published has failed.
Accounts ==
    /\ builds <= failures + 1
    /\ (~inited /\ \A t \in Threads : pc[t] \notin {"building", "publish"}) =>
            builds <= failures

OnceInvariant == OnceTypeOK /\ OneInside /\ Progress /\ Accounts

\* The initial states satisfy the inductive invariant.
LEMMA OnceIdleInvariant == OnceIdle => OnceInvariant
<1> SUFFICES ASSUME OnceIdle PROVE OnceInvariant
  OBVIOUS
<1> USE OnceAssumption DEF OnceIdle, Labels, Inside
<1>1. OnceTypeOK
  <2>1. dispatch \in BOOLEAN /\ lock \in BOOLEAN /\ inited \in BOOLEAN
    OBVIOUS
  <2>2. pc \in [Threads -> Labels]
    OBVIOUS
  <2>3. failures \in 0..MaxFailures /\ builds \in 0..(MaxFailures + 1)
    OBVIOUS
  <2> QED
    BY <2>1, <2>2, <2>3 DEF OnceTypeOK
<1>2. OneInside
  BY DEF OneInside
<1>3. Progress /\ Accounts
  BY DEF Progress, Accounts
<1> QED
  BY <1>1, <1>2, <1>3 DEF OnceInvariant

\* Every step keeps the types and the bound on the builds.
LEMMA StepTyping == OnceInvariant /\ [OnceNext]_onceVars => OnceTypeOK'
<1> SUFFICES ASSUME OnceInvariant, [OnceNext]_onceVars PROVE OnceTypeOK'
  OBVIOUS
<1> USE OnceAssumption DEF OnceInvariant, OnceTypeOK, Labels, Inside
<1>1. ASSUME NEW t \in Threads, BeginBuild(t) PROVE OnceTypeOK'
  <2>1. \A u \in Threads : pc[u] \notin {"building", "publish"}
    BY <1>1 DEF BeginBuild, BuildLeaving, OneInside
  <2>2. builds <= failures
    BY <1>1, <2>1 DEF BeginBuild, BuildLeaving, Progress, Accounts
  <2> QED
    BY <1>1, <2>2 DEF BeginBuild, BuildLeaving, Torn, Goto
<1>2. ASSUME NEW t \in Threads, BuildFails(t) PROVE OnceTypeOK'
  BY <1>2 DEF BuildFails, FailGoingTo, Goto
<1>3. ASSUME NEW t \in Threads, LookFirst(t) \/ Spin(t) \/ Acquire(t) \/ LookAgain(t) PROVE OnceTypeOK'
  BY <1>3 DEF LookFirst, Spin, Acquire, LookAgain, LookAgainFinding, Goto, onceVars
<1>4. ASSUME NEW t \in Threads, FinishBuild(t) \/ Publish(t) \/ Unlock(t) PROVE OnceTypeOK'
  BY <1>4 DEF FinishBuild, Publish, Unlock, Goto
<1>5. ASSUME NEW t \in Threads, Use(t) \/ UseCold(t) \/ Fill(t) \/ Leave(t) PROVE OnceTypeOK'
  BY <1>5 DEF Use, UseCold, Fill, Leave, Goto
<1>6. CASE UNCHANGED onceVars
  BY <1>6 DEF onceVars
<1> QED
  BY <1>1, <1>2, <1>3, <1>4, <1>5, <1>6 DEF OnceNext, Go, Locked

\* Every step keeps the lock exclusive.
LEMMA StepOneInside == OnceInvariant /\ [OnceNext]_onceVars => OneInside'
<1> SUFFICES ASSUME OnceInvariant, [OnceNext]_onceVars PROVE OneInside'
  OBVIOUS
<1> USE DEF OnceInvariant, OnceTypeOK, OneInside, Inside, Labels, Goto
<1>1. ASSUME NEW t \in Threads, LookFirst(t) \/ Spin(t) PROVE OneInside'
  BY <1>1 DEF LookFirst, Spin, onceVars
<1>2. ASSUME NEW t \in Threads, Acquire(t) PROVE OneInside'
  BY <1>2 DEF Acquire
<1>3. ASSUME NEW t \in Threads, LookAgain(t) \/ BeginBuild(t) \/ FinishBuild(t) PROVE OneInside'
  BY <1>3 DEF LookAgain, LookAgainFinding, BeginBuild, BuildLeaving, FinishBuild
<1>4. ASSUME NEW t \in Threads, BuildFails(t) \/ Publish(t) PROVE OneInside'
  BY <1>4 DEF BuildFails, FailGoingTo, Publish
<1>5. ASSUME NEW t \in Threads, Unlock(t) PROVE OneInside'
  BY <1>5 DEF Unlock
<1>6. ASSUME NEW t \in Threads, Use(t) \/ UseCold(t) \/ Fill(t) \/ Leave(t) PROVE OneInside'
  BY <1>6 DEF Use, UseCold, Fill, Leave
<1>7. CASE UNCHANGED onceVars
  BY <1>7 DEF onceVars
<1> QED
  BY <1>1, <1>2, <1>3, <1>4, <1>5, <1>6, <1>7 DEF OnceNext, Go, Locked

\* Every step keeps what the places of the protocol promise.
LEMMA StepProgress == OnceInvariant /\ [OnceNext]_onceVars => Progress'
<1> SUFFICES ASSUME OnceInvariant, [OnceNext]_onceVars PROVE Progress'
  OBVIOUS
<1> USE OnceAssumption DEF OnceInvariant, OnceTypeOK, Progress, Labels, Inside, Goto
<1>1. ASSUME NEW t \in Threads, LookFirst(t) \/ Spin(t) \/ Acquire(t) \/ LookAgain(t) PROVE Progress'
  BY <1>1 DEF LookFirst, Spin, Acquire, LookAgain, LookAgainFinding, onceVars
<1>2. ASSUME NEW t \in Threads, BeginBuild(t) PROVE Progress'
  BY <1>2 DEF BeginBuild, BuildLeaving, OneInside
<1>3. ASSUME NEW t \in Threads, FinishBuild(t) \/ BuildFails(t) PROVE Progress'
  BY <1>3 DEF FinishBuild, BuildFails, FailGoingTo
<1>4. ASSUME NEW t \in Threads, Publish(t) PROVE Progress'
  BY <1>4 DEF Publish, OneInside
<1>5. ASSUME NEW t \in Threads, Unlock(t) \/ Use(t) \/ UseCold(t) PROVE Progress'
  BY <1>5 DEF Unlock, Use, UseCold
<1>6. ASSUME NEW t \in Threads, Fill(t) \/ Leave(t) PROVE Progress'
  BY <1>6 DEF Fill, Leave
<1>7. CASE UNCHANGED onceVars
  BY <1>7 DEF onceVars
<1> QED
  BY <1>1, <1>2, <1>3, <1>4, <1>5, <1>6, <1>7 DEF OnceNext, Go, Locked

\* Every step keeps the account of builds and failures.
LEMMA StepAccounts == OnceInvariant /\ [OnceNext]_onceVars => Accounts'
<1> SUFFICES ASSUME OnceInvariant, [OnceNext]_onceVars PROVE Accounts'
  OBVIOUS
<1> USE OnceAssumption DEF OnceInvariant, OnceTypeOK, Accounts, Labels, Inside, Goto
<1>1. ASSUME NEW t \in Threads, LookFirst(t) \/ Spin(t) \/ Acquire(t) \/ LookAgain(t) PROVE Accounts'
  BY <1>1 DEF LookFirst, Spin, Acquire, LookAgain, LookAgainFinding, onceVars
<1>2. ASSUME NEW t \in Threads, BeginBuild(t) PROVE Accounts'
  <2>1. builds <= failures
    BY <1>2 DEF BeginBuild, BuildLeaving, OneInside, Progress
  <2>2. builds' = builds + 1 /\ failures' = failures /\ pc'[t] = "building"
    BY <1>2 DEF BeginBuild, BuildLeaving
  <2> QED
    BY <2>1, <2>2
<1>3. ASSUME NEW t \in Threads, FinishBuild(t) \/ BuildFails(t) PROVE Accounts'
  BY <1>3 DEF FinishBuild, BuildFails, FailGoingTo
<1>4. ASSUME NEW t \in Threads, Publish(t) \/ Unlock(t) PROVE Accounts'
  BY <1>4 DEF Publish, Unlock
<1>5. ASSUME NEW t \in Threads, Use(t) \/ UseCold(t) \/ Fill(t) \/ Leave(t) PROVE Accounts'
  BY <1>5 DEF Use, UseCold, Fill, Leave
<1>6. CASE UNCHANGED onceVars
  BY <1>6 DEF onceVars
<1> QED
  BY <1>1, <1>2, <1>3, <1>4, <1>5, <1>6 DEF OnceNext, Go, Locked

\* The inductive invariant holds throughout.
THEOREM OnceInductive == OnceSpec => []OnceInvariant
<1>1. OnceInvariant /\ [OnceNext]_onceVars => OnceInvariant'
  BY StepTyping, StepOneInside, StepProgress, StepAccounts DEF OnceInvariant
<1> QED
  BY OnceIdleInvariant, <1>1, PTL DEF OnceSpec

\* The flags are flags, every thread is at a known place, and no more is built
\* than the failures allow.
THEOREM OnceTypeCorrect == OnceSpec => []OnceTypeOK
<1>1. OnceInvariant => OnceTypeOK
  BY DEF OnceInvariant
<1> QED
  BY OnceInductive, <1>1, PTL

\* Mutual exclusion: however many threads race for the first use, one at a time
\* is between atomic_flag_test_and_set() and atomic_flag_clear(), and the flag is
\* held exactly as long.
THEOREM LockIsExclusive == OnceSpec => []OneInside
<1>1. OnceInvariant => OneInside
  BY DEF OnceInvariant
<1> QED
  BY OnceInductive, <1>1, PTL

\* No thread reads the DCT matrix, the CRC tables or, after a warm-up that has not
\* failed, the decoder's table while it is written.
THEOREM TablesReadWhole == OnceSpec => []ReadersSeeWhole
<1>1. OnceInvariant => ReadersSeeWhole
  BY DEF OnceInvariant, Progress, ReadersSeeWhole
<1> QED
  BY OnceInductive, <1>1, PTL

\* The check under the lock makes every build but a failed one the only one.
THEOREM OneBuildPerSuccess == OnceSpec => []BuiltOnce
<1>1. OnceInvariant => BuiltOnce
  BY DEF OnceInvariant, Progress, Accounts, BuiltOnce
<1> QED
  BY OnceInductive, <1>1, PTL
=============================================================================
