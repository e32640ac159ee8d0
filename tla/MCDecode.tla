------------------------------ MODULE MCDecode ------------------------------
\* Every defect in every shape of image, in a whole and in a cut container; and an
\* image without defect in every small container.
EXTENDS Decode

\* JPEG: what follows the prefix is every sequence of up to MaxTail bytes.
CONSTANT MaxTail

SeqsUpTo(set, n) == UNION {[1..k -> set] : k \in 0..n}

Bytes == {FF, EOI, SOS, 0, 2, 208}

\* After SOI: nothing, a scan, or a segment with an end marker in it.
Prefixes == {<<FF, SOI>>, <<FF, SOI, FF, SOS, 0, 2>>, <<FF, SOI, FF, 225, 0, 4, FF, EOI>>}
Jpegs    == {prefix \o tail : prefix \in Prefixes, tail \in SeqsUpTo(Bytes, MaxTail)}


\* PNG: a header, image data, and what may stand around and after it.  A file has
\* at most MaxChunk bytes, as the code has it: a longer chunk does not fit.
Chunk(type, length, sound) == [type |-> type, length |-> length, sound |-> sound]

Header == {Chunk("IHDR", 13, TRUE), Chunk("IHDR", 13, FALSE)}
Data   == {Chunk("IDAT", 1, TRUE), Chunk("IDAT", 1, FALSE)}
Text   == {Chunk("tEXt", 0, TRUE), Chunk("tEXt", 1, FALSE), Chunk("tEXt", MaxChunk + 1, TRUE)}
End    == {Chunk("IEND", 0, TRUE), Chunk("IEND", 1, TRUE), Chunk("IEND", 0, FALSE)}

ChunkLists ==
    {<<h, d, a>> : h \in Header, d \in Data, a \in Text \cup End} \cup
    {<<Chunk("IHDR", 13, TRUE), Chunk("IDAT", 1, TRUE), a, e>> : a \in Text \cup End, e \in End} \cup
    {<<Chunk("IHDR", 13, TRUE), t, d, e>> : t \in Text, d \in Data, e \in End}

Pngs == {[chunks |-> c, bytes |-> n] : c \in ChunkLists, n \in 8..76}

\* WebP: RIFF states what follows its first 8 bytes.
Webps == {[stated |-> s, bytes |-> n] : s \in 4..8, n \in 12..17}

-----------------------------------------------------------------------------
Whole(format) ==
    CASE format = "jpeg" -> <<FF, SOI, FF, EOI>>
      [] format = "png"  -> [chunks |-> <<Chunk("IHDR", 13, TRUE), Chunk("IDAT", 1, TRUE), Chunk("IEND", 0, TRUE)>>,
                             bytes |-> 58]
      [] format = "webp" -> [stated |-> 8, bytes |-> 16]
      [] OTHER           -> <<>>

Cut(format) ==
    CASE format = "jpeg" -> <<FF, SOI, FF>>
      [] format = "png"  -> [Whole("png") EXCEPT !.bytes = 40]
      [] format = "webp" -> [stated |-> 8, bytes |-> 15]
      [] OTHER           -> <<>>

File(format, defect, container, color, interlaced) ==
    [format |-> format, defect |-> defect, container |-> container, color |-> color, interlaced |-> interlaced]

\* Only a PNG is interlaced; WebP is always color, and so is the HDR image that
\* may have a zero side.
Shaped(format, defect, color, interlaced) ==
    /\ interlaced => format = "png"
    /\ format = "webp" \/ defect = "zero" => color

MCFiles ==
    UNION {{File(f, d, c, color, i) : d \in {d \in Defects(f) : Shaped(f, d, color, i)}, c \in {Whole(f), Cut(f)}} :
              f \in {"jpeg", "png", "webp", "other"}, color \in BOOLEAN, i \in BOOLEAN}
    \cup {File("jpeg", "none", c, TRUE, FALSE) : c \in Jpegs}
    \cup {File("png", "none", c, TRUE, FALSE) : c \in Pngs}
    \cup {File("webp", "none", c, TRUE, FALSE) : c \in Webps}
=============================================================================
