------------------------------ MODULE Messages ------------------------------
(***************************************************************************)
(* The diagnostic message of a failed load, copied into a fixed buffer and  *)
(* cut to fit without splitting a UTF-8 character (src/safety.h), and that  *)
(* of a file, whose path gives way in its middle (src/fileio.c).  A message *)
(* is the sequence of its bytes, of which only the kinds are told   *)
(* apart: "lead2", "lead3" and "lead4" begin characters of so many bytes,   *)
(* "cont" continues one, "plain" is one, "bad" (F8 to FF) is in none.       *)
(***************************************************************************)
EXTENDS Integers, Sequences, SequencesExt, Calls

Bytes == {"plain", "lead2", "lead3", "lead4", "cont", "bad"}

NeededBy(byte) == CASE byte = "lead4" -> 4 [] byte = "lead3" -> 3 [] byte = "lead2" -> 2 [] OTHER -> 1

\* ph_utf8_cut(): how many of the first `length` bytes stay.  `back` continuation bytes,
\* at most 4, are stepped over to find the byte that leads them.
MaxBack == 4

Back(s, length) ==
    CHOOSE back \in 0..length :
        /\ back <= MaxBack /\ \A k \in 0..back - 1 : s[length - k] = "cont"
        /\ back = MaxBack \/ back = length \/ s[length - back] # "cont"

\* Fault: the lead itself is not counted among the bytes that are there.
LacksOne(back, lead) == back < NeededBy(lead)
Lacks(back, lead)    == back + 1 < NeededBy(lead)

Utf8Cut(s, length) ==
    LET back == Back(s, length)
        lead == s[length - back]
    IN  IF back = length \/ lead \notin {"lead2", "lead3", "lead4"} THEN length
        ELSE IF Lacks(back, lead) THEN (length - back) - 1 ELSE length

\* ph_set_err_msg(), into a buffer of `room` bytes, one of which ends the string.
SetErrMsg(msg, room) ==
    IF Len(msg) < room THEN msg ELSE SubSeq(msg, 1, Utf8Cut(msg, room - 1))

\* ph_format_path_msg() of `before` bytes, a path, and `after` bytes.  A path that does
\* not fit keeps its two ends, with an ellipsis between them.  Fault: the end is taken
\* from where the room for it begins.
Ellipsis == 3
Plain(count) == [k \in 1..count |-> "plain"]

TailAsItIs(path, start)  == start
TailStart(path, start) ==
    CHOOSE k \in start..Len(path) :
        /\ k = Len(path) \/ path[k + 1] # "cont"
        /\ \A j \in start..k - 1 : path[j + 1] = "cont"

PathMsg(path, before, after, size) ==
    LET fixed == before + after
        whole == Plain(before) \o path \o Plain(after)
        room  == ((size - 1) - fixed) - Ellipsis
        head  == Utf8Cut(path, room \div 2)
        tail  == TailStart(path, Len(path) - (room - room \div 2))
    IN  IF fixed + Len(path) < size THEN whole
        ELSE IF fixed + Ellipsis + 2 >= size THEN SubSeq(whole, 1, Utf8Cut(whole, size - 1))
        ELSE Plain(before) \o SubSeq(path, 1, head) \o Plain(Ellipsis)
                \o SubSeq(path, tail + 1, Len(path)) \o Plain(after)

PathMessage(path, before, after, size) ==
    Answer("path", [path |-> path, before |-> before, after |-> after, size |-> size],
           PathMsg(path, before, after, size))

Message(msg, room) == Answer("message", [msg |-> msg, room |-> room], SetErrMsg(msg, room))

-----------------------------------------------------------------------------
\* The UTF-8 strings: whole characters.
IsUtf8(s) ==
    LET n == Len(s)
        Whole[k \in 1..n + 1] ==
            k = n + 1 \/ /\ s[k] \in {"plain", "lead2", "lead3", "lead4"}
                         /\ k + NeededBy(s[k]) <= n + 1
                         /\ \A j \in k + 1..k + NeededBy(s[k]) - 1 : s[j] = "cont"
                         /\ Whole[k + NeededBy(s[k])]
    IN  Whole[1]

MessageCut(msg, room, answer) ==
    LET kept == Len(answer)
    IN  /\ IsPrefix(answer, msg) /\ kept < room
        /\ IsUtf8(msg) =>
              /\ IsUtf8(answer)
              /\ \A k \in kept + 1..Len(msg) : k < room => ~IsUtf8(SubSeq(msg, 1, k))
        /\ kept < Len(msg) => kept >= room - 4

\* What is there of a path: its two ends, which use the room but for a cut character each.
PathCut(given, answer) ==
    LET fixed == given.before + given.after + Ellipsis
        ends(head, tail) ==
            Plain(given.before) \o SubSeq(given.path, 1, head) \o Plain(Ellipsis)
                \o SubSeq(given.path, Len(given.path) - tail + 1, Len(given.path)) \o Plain(given.after)
    IN  /\ Len(answer) < given.size
        /\ IsUtf8(given.path) => IsUtf8(answer)
        /\ fixed + 2 < given.size /\ given.before + Len(given.path) + given.after >= given.size =>
              \E head, tail \in 0..Len(given.path) :
                  /\ head + tail <= Len(given.path) /\ answer = ends(head, tail)
                  /\ IsUtf8(given.path) => fixed + head + tail >= given.size - 7

\* The cut of a UTF-8 message is one, and the longest that fits; and of any other
\* message, too, only the beginnings of a character are ever dropped: at most 3 bytes.
\* A path keeps both its ends, and a UTF-8 path the end and the beginning of a
\* character at each side of the gap.
CutKeepsCharacters ==
    /\ call.what = "message" => MessageCut(call.given.msg, call.given.room, call.answer)
    /\ call.what = "path" => PathCut(call.given, call.answer)
=============================================================================
