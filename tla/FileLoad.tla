------------------------------ MODULE FileLoad ------------------------------
(***************************************************************************)
(* ph_load_from_file() around its bytes: ph_open_file_bytes(), the readers  *)
(* of the bytes (the decoder, then the orientation scan), and               *)
(* ph_release_file_bytes() (src/fileio.c, src/core.c), while another        *)
(* process renames files over the path and rewrites them in place.          *)
(*                                                                         *)
(* A file is an inode; its contents are a length in units of the read chunk *)
(* and a version that every rewrite changes.                                *)
(***************************************************************************)
EXTENDS Integers

CONSTANTS
    Files,        \* the regular files the path may name
    Special,      \* the FIFOs, devices and directories it may name
    NoInode,      \* what a path that names nothing, a closed descriptor and a NULL mapping have
    MaxLength,    \* bound: the length of a file
    ReadChunk,    \* PH_READ_CHUNK
    MaxChanges,   \* bound: renames and rewrites by the other process
    MaxEintr      \* bound: interrupted reads

ASSUME FileAssumption ==
    /\ Files \cap Special = {} /\ NoInode \notin Files \cup Special
    /\ MaxLength \in Nat \ {0} /\ ReadChunk \in Nat \ {0}
    /\ MaxChanges \in Nat /\ MaxEintr \in Nat

VARIABLES
    named,     \* the inode the path names, or NoInode
    length,    \* the length of each regular file
    version,   \* the version of its contents
    changes,   \* changes made so far
    pc,
    fd,        \* the inode the descriptor is open on, or NoInode
    size,      \* what fstat() said
    heap,      \* size of the heap buffer, 0 when there is none
    mapped,    \* the inode mapped, or NoInode
    got,       \* bytes read so far
    eintr,     \* interrupted reads so far
    opened,    \* history: what this load opened
    bytes,     \* history: the <<inode, version>> pairs the heap copy consists of
    decoded,   \* history: the pairs the decoder saw
    scanned,   \* history: the pairs the orientation scan saw
    result

world  == <<named, length, version, changes>>
memory == <<heap, mapped>>
seen   == <<decoded, scanned>>
fileVars == <<world, pc, fd, size, memory, got, eintr, opened, bytes, seen, result>>

-----------------------------------------------------------------------------
\* The other process.
Rename(f) ==
    /\ changes < MaxChanges
    /\ changes' = changes + 1
    /\ named' = f
    /\ UNCHANGED <<length, version, pc, fd, size, memory, got, eintr, opened, bytes, seen, result>>

Rewrite(f, n) ==
    /\ changes < MaxChanges
    /\ changes' = changes + 1
    /\ length' = [length EXCEPT ![f] = n]
    /\ version' = [version EXCEPT ![f] = @ + 1]
    /\ UNCHANGED <<named, pc, fd, size, memory, got, eintr, opened, bytes, seen, result>>

-----------------------------------------------------------------------------
Begin ==
    /\ pc = "idle"
    /\ pc' = "open"
    /\ size' = 0 /\ got' = 0 /\ eintr' = 0
    /\ opened' = NoInode /\ bytes' = {} /\ decoded' = {} /\ scanned' = {}
    /\ result' = "none"
    /\ UNCHANGED <<world, fd, memory>>

\* The one open(); it never waits for a FIFO's writer (O_NONBLOCK).
Open ==
    /\ pc = "open"
    /\ named # NoInode
    /\ fd' = named
    /\ opened' = named
    /\ pc' = "stat"
    /\ UNCHANGED <<world, size, memory, got, eintr, bytes, seen, result>>

\* The path names nothing or may not be opened.
OpenFails ==
    /\ pc = "open"
    /\ pc' = "idle"
    /\ result' = "IO"
    /\ UNCHANGED <<world, fd, size, memory, got, eintr, opened, bytes, seen>>

\* ph_check_open_file(): fstat() works, and says a regular file with a byte in it.
Check ==
    /\ pc = "stat"
    /\ fd \in Files
    /\ length[fd] > 0
    /\ size' = length[fd]
    /\ pc' = "map"
    /\ UNCHANGED <<world, fd, memory, got, eintr, opened, bytes, seen, result>>

\* It refuses the descriptor.  Fault: the descriptor stays open.
CheckFailsLeaving(descriptor) ==
    /\ pc = "stat"
    /\ fd' = descriptor
    /\ pc' = "idle"
    /\ result' = "IO"
    /\ UNCHANGED <<world, size, memory, got, eintr, opened, bytes, seen>>

CheckFailsOpen == CheckFailsLeaving(fd)
CheckFails     == CheckFailsLeaving(NoInode)

\* mmap() works: the descriptor is closed, the mapping keeps the file.  Fault: the
\* path is opened a second time for it.
MapInode(f) ==
    /\ pc = "map"
    /\ f \in Files
    /\ mapped' = f
    /\ fd' = NoInode
    /\ pc' = "decode"
    /\ UNCHANGED <<world, size, heap, got, eintr, opened, bytes, seen, result>>

MapByPath == MapInode(named)
Map       == MapInode(fd)

MapFails ==
    /\ pc = "map"
    /\ pc' = "alloc"
    /\ UNCHANGED <<world, fd, size, memory, got, eintr, opened, bytes, seen, result>>

\* ph_read_open_file(): a buffer of the size fstat() gave.
Alloc ==
    /\ pc = "alloc"
    /\ \/ heap' = size /\ pc' = "read" /\ UNCHANGED <<fd, result>>
       \/ pc' = "idle" /\ result' = "ALLOCATION_FAILED" /\ fd' = NoInode /\ UNCHANGED heap
    /\ UNCHANGED <<world, size, mapped, got, eintr, opened, bytes, seen>>

Least(a, b) == IF a < b THEN a ELSE b

\* read() returns n > 0: at most `want`, and at most what the file now has.
ReadAtMost(want) ==
    /\ pc = "read"
    /\ got < size
    /\ \E n \in 1..Least(want, length[fd] - got) : got' = got + n
    /\ bytes' = bytes \cup {<<fd, version[fd]>>}
    /\ UNCHANGED <<world, pc, fd, size, memory, eintr, opened, seen, result>>

ReadWholeChunk == ReadAtMost(ReadChunk)
Read           == ReadAtMost(Least(size - got, ReadChunk))

\* read() returns -1 with EINTR.
ReadInterrupted ==
    /\ pc = "read"
    /\ got < size
    /\ eintr < MaxEintr
    /\ eintr' = eintr + 1
    /\ UNCHANGED <<world, pc, fd, size, memory, got, opened, bytes, seen, result>>

ReadStops(buffer) ==
    /\ pc = "read"
    /\ heap' = buffer
    /\ fd' = NoInode
    /\ pc' = "idle"
    /\ result' = "IO"
    /\ UNCHANGED <<world, size, mapped, got, eintr, opened, bytes, seen>>

AtEnd == pc = "read" /\ length[fd] <= got

\* A read error.  Fault: the buffer stays.
ReadErrorKeeping == got < size /\ ReadStops(heap)
ReadError        == got < size /\ ReadStops(0)

\* The file ended before its first byte.
ReadNothing == AtEnd /\ got = 0 /\ ReadStops(0)

\* The loop is left: everything is read, or the file ended earlier than fstat()
\* promised.  Fault: only a full buffer ends it.
ReadEndsWhen(enough) ==
    /\ pc = "read"
    /\ enough
    /\ fd' = NoInode
    /\ pc' = "decode"
    /\ UNCHANGED <<world, size, memory, got, eintr, opened, bytes, seen, result>>

ReadEndsWhenFull == ReadEndsWhen(got = size)
ReadEnds         == ReadEndsWhen(got = size \/ (AtEnd /\ got > 0))

\* What a reader of the bytes sees: the heap copy, or the mapped file as it is now.
Visible == IF mapped # NoInode THEN {<<mapped, version[mapped]>>} ELSE bytes

\* ph_load_encoded_bytes(): the decoder reads the bytes and then, if the image is
\* to be turned upright, the scan for the orientation tag reads them again.  Fault:
\* the scan reads the file.
Decode ==
    /\ pc = "decode"
    /\ decoded' = Visible
    /\ \/ pc' = "scan" /\ UNCHANGED result
       \/ \E r \in {"SUCCESS", "CORRUPT"} : pc' = "release" /\ result' = r
    /\ UNCHANGED <<world, fd, size, memory, got, eintr, opened, bytes, scanned>>

ScanSeeing(pairs) ==
    /\ pc = "scan"
    /\ scanned' = pairs
    /\ result' = "SUCCESS"
    /\ pc' = "release"
    /\ UNCHANGED <<world, fd, size, memory, got, eintr, opened, bytes, decoded>>

ScanFile == pc = "scan" /\ ScanSeeing({<<opened, version[opened]>>})
Scan     == ScanSeeing(Visible)

\* ph_release_file_bytes()
Release ==
    /\ pc = "release"
    /\ heap' = 0
    /\ mapped' = NoInode
    /\ pc' = "idle"
    /\ UNCHANGED <<world, fd, size, got, eintr, opened, bytes, seen, result>>

FileInit ==
    /\ named \in Files \cup Special \cup {NoInode}
    /\ length \in [Files -> 0..MaxLength]
    /\ version = [f \in Files |-> 0]
    /\ changes = 0
    /\ pc = "idle" /\ fd = NoInode /\ size = 0 /\ heap = 0 /\ mapped = NoInode /\ got = 0
    /\ eintr = 0 /\ opened = NoInode /\ bytes = {} /\ decoded = {} /\ scanned = {}
    /\ result = "none"

Other ==
    \/ \E f \in Files \cup Special \cup {NoInode} : Rename(f)
    \/ \E f \in Files, n \in 0..MaxLength : Rewrite(f, n)

Load ==
    \/ Open \/ OpenFails \/ Check \/ CheckFails \/ Map \/ MapFails \/ Alloc
    \/ Read \/ ReadInterrupted \/ ReadNothing \/ ReadEnds
    \/ Decode \/ Scan \/ Release

FileNext == Begin \/ Load \/ ReadError \/ Other

FileSpec == FileInit /\ [][FileNext]_fileVars

\* A load that has begun keeps running; nothing obliges read() to fail.
FairSpec == FileSpec /\ WF_fileVars(Load)

-----------------------------------------------------------------------------
Inodes == Files \cup Special
Pairs  == SUBSET (Files \X Nat)

\* The descriptor, the buffer and the mapping are what the C types allow.
FileTypeOK ==
    /\ named \in Inodes \cup {NoInode}
    /\ length \in [Files -> 0..MaxLength] /\ version \in [Files -> Nat] /\ changes \in Nat
    /\ pc \in {"idle", "open", "stat", "map", "alloc", "read", "decode", "scan", "release"}
    /\ fd \in Inodes \cup {NoInode} /\ opened \in Inodes \cup {NoInode}
    /\ mapped \in Files \cup {NoInode}
    /\ size \in 0..MaxLength /\ heap \in 0..MaxLength /\ got \in Nat /\ eintr \in Nat
    /\ bytes \in Pairs /\ decoded \in Pairs /\ scanned \in Pairs
    /\ result \in {"none", "SUCCESS", "IO", "ALLOCATION_FAILED", "CORRUPT"}

\* Nothing is held once the load is over, whichever step of it failed, and a reader
\* of the bytes has either the mapping or the heap copy, and no open descriptor.
NothingLeaks ==
    /\ pc \in {"idle", "open"} => fd = NoInode /\ heap = 0 /\ mapped = NoInode
    /\ pc \in {"decode", "scan", "release"} => fd = NoInode /\ (heap > 0 <=> mapped = NoInode)

\* read() never writes past the buffer, although the file may have grown since
\* fstat(), and no reader is ever handed an empty file.
BufferHolds ==
    /\ got <= size
    /\ heap > 0 => heap = size
    /\ (heap > 0 /\ pc \in {"decode", "scan"}) => got > 0

\* Every byte used comes from the one inode that was opened and checked, however
\* often the path is renamed over meanwhile.
OneFile == \A p \in bytes \cup decoded \cup scanned : p[1] = opened

\* A load uses one file, and of a heap copy one snapshot: the decoder and the scan
\* see the same bytes, which are that file's.
CopyIsOneSnapshot ==
    /\ OneFile
    /\ (pc = "release" /\ heap > 0 /\ scanned # {}) => scanned = decoded

\* A load ends: a file that shrank under the read loop ends it.
LoadEnds == pc = "open" ~> pc = "idle"

\* What the comment of ph_open_file_bytes() says: everything downstream, decode and
\* orientation scan, "works on that one snapshot".
WorksOnOneSnapshot == (pc = "release" /\ scanned # {}) => scanned = decoded
=============================================================================
