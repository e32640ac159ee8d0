-------------------------------- MODULE Exif --------------------------------
(***************************************************************************)
(* The search for the EXIF orientation in an encoded file                   *)
(* (src/image/orient.c): a scanner for each container finds the TIFF block, *)
(* and the first directory of the block is searched for the tag.            *)
(*                                                                         *)
(* Files are those of Containers.  ExifMark is the prefix "Exif\0\0" of     *)
(* the block.  A block is where its TIFF structure begins and how many      *)
(* bytes it has; all positions count from 0.                                *)
(***************************************************************************)
EXTENDS Containers, Calls, FiniteSetsExt

CONSTANT ExifMark       \* a sequence of bytes: 6 in the code

ASSUME ExifAssumption == ExifMark \in Seq(0..255)

NoBlock == [start |-> 0, length |-> -1]
MarkLength == Len(ExifMark)
APP1       == 225

-----------------------------------------------------------------------------
\* ph_exif_orientation_from_jpeg()
HasMark(p, pos) == SubSeq(p, pos + 1, pos + MarkLength) = ExifMark

JpegExif(p) ==
    LET n == Len(p)
        Walk[i \in 0..n + 1] ==
            IF i + 4 > n THEN NoBlock
            ELSE IF Byte(p, i) # FF \/ Byte(p, i + 1) = FF THEN Walk[i + 1]
            ELSE LET m == Byte(p, i + 1)
                     length == Be16(p, i + 2)
                 IN IF m \in {SOI, EOI, 1} \/ IsRestart(m) THEN Walk[i + 2]
                    ELSE IF m = SOS \/ length < 2 \/ i + 2 + length > n THEN NoBlock
                    ELSE IF m = APP1 /\ length - 2 >= MarkLength /\ HasMark(p, i + 4)
                         THEN [start |-> i + 4 + MarkLength, length |-> (length - 2) - MarkLength]
                    ELSE Walk[i + 2 + length]
    IN  IF n < 4 \/ Byte(p, 0) # FF \/ Byte(p, 1) # SOI THEN NoBlock ELSE Walk[2]

-----------------------------------------------------------------------------
\* PNG and WebP: chunks of [type, length, marked], `marked` telling whether the
\* payload begins with ExifMark, cut after so many bytes.
Unmarked(chunk, start) ==
    IF chunk.marked /\ chunk.length >= MarkLength
    THEN [start |-> start + MarkLength, length |-> chunk.length - MarkLength]
    ELSE [start |-> start, length |-> chunk.length]

\* ph_exif_orientation_from_png().  Fault: the checksum is not stepped over.
PngStep(chunk)    == 8 + chunk.length
PngAdvance(chunk) == 8 + chunk.length + 4

PngExif(png) ==
    LET n == png.bytes
        Walk[at \in (1..Len(png.chunks) + 1) \X Nat] ==
            LET k == at[1]
                i == at[2]
            IN  IF k > Len(png.chunks) \/ i + 8 > n THEN NoBlock
                ELSE LET chunk == png.chunks[k] IN
                     IF chunk.length > n - (i + 8) THEN NoBlock
                     ELSE IF chunk.type = "eXIf" THEN Unmarked(chunk, i + 8)
                     ELSE IF chunk.type = "IEND" \/ i + 8 + chunk.length > n - 4 THEN NoBlock
                     ELSE Walk[<<k + 1, i + PngAdvance(chunk)>>]
    IN  IF n < 8 THEN NoBlock ELSE Walk[<<1, 8>>]

\* ph_exif_orientation_from_webp().  Fault: odd chunks are not padded.
WebpStep(chunk)    == 8 + chunk.length
WebpAdvance(chunk) == 8 + chunk.length + (chunk.length % 2)

WebpExif(webp) ==
    LET n == webp.bytes
        Walk[at \in (1..Len(webp.chunks) + 1) \X Nat] ==
            LET k == at[1]
                i == at[2]
            IN  IF k > Len(webp.chunks) \/ i + 8 > n THEN NoBlock
                ELSE LET chunk == webp.chunks[k] IN
                     IF chunk.length > n - (i + 8) THEN NoBlock
                     ELSE IF chunk.type = "EXIF" THEN Unmarked(chunk, i + 8)
                     ELSE Walk[<<k + 1, i + WebpAdvance(chunk)>>]
    IN  IF n < 12 THEN NoBlock ELSE Walk[<<1, 12>>]

-----------------------------------------------------------------------------
\* ph_parse_tiff_orientation(): a block of `length` bytes says its byte order, the
\* magic number, where the directory is, how many entries it states, and those
\* entries, in the announced byte order.
EntrySize   == 12
Orientation == 274
Short       == 3

Conforms(entry) == entry.tag = Orientation /\ entry.type = Short /\ entry.count = 1

\* The entries looked at.  Fault: one that is cut off is looked at too.
EntriesStarted(tiff) == (tiff.length - tiff.offset - 2) \div EntrySize + 1
EntriesThere(tiff)   == (tiff.length - tiff.offset - 2) \div EntrySize

Entries(tiff) ==
    IF tiff.stated * EntrySize > tiff.length - tiff.offset - 2 THEN EntriesThere(tiff) ELSE tiff.stated

HasDirectory(tiff) ==
    /\ tiff.length >= 8
    /\ tiff.order \in {"II", "MM"} /\ tiff.magic
    /\ tiff.offset <= tiff.length /\ tiff.length - tiff.offset >= 2

TiffOrientation(tiff) ==
    IF ~HasDirectory(tiff) THEN 1
    ELSE LET found == {k \in 1..Entries(tiff) : Conforms(tiff.entries[k])} IN
         IF found = {} THEN 1
         ELSE LET value == tiff.entries[Min(found)].value IN
              IF value \in 1..8 THEN value ELSE 1

ScanJpeg(parts, p) == Answer("jpeg", [parts |-> parts, bytes |-> Len(p)], JpegExif(p))
ScanPng(png)       == Answer("png", png, PngExif(png))
ScanWebp(webp)     == Answer("webp", webp, WebpExif(webp))
ParseTiff(tiff)    == Answer("tiff", tiff, TiffOrientation(tiff))

-----------------------------------------------------------------------------
\* What a file was made of.  A JPEG: parts of [kind, bytes], of kind "exif" (a
\* segment that begins with ExifMark), "scan" (SOS and what follows) or "other".
PartStart(parts) ==
    LET f[k \in 1..Len(parts) + 1] == IF k = 1 THEN 2 ELSE f[k - 1] + Len(parts[k - 1].bytes)
    IN  f

First(k, kind(_)) == kind(k) /\ \A j \in 1..k - 1 : ~kind(j)

\* The block of the first segment that is one, if no scan has begun and all of it is
\* there; what looks like one inside another segment or in a scan is none.
JpegBlock(parts, bytes) ==
    LET exif(k)  == parts[k].kind = "exif"
        whole(k) == /\ First(k, exif) /\ PartStart(parts)[k + 1] <= bytes
                    /\ \A j \in 1..k : parts[j].kind # "scan"
    IN  IF \E k \in DOMAIN parts : whole(k)
        THEN LET k == CHOOSE k \in DOMAIN parts : whole(k) IN
             [start |-> PartStart(parts)[k] + 4 + MarkLength, length |-> Len(parts[k].bytes) - 4 - MarkLength]
        ELSE NoBlock

\* The same of chunks, of which chunk k has its payload at start[k], up to one whose type
\* closes the file.
ChunkBlock(file, start, type, closing) ==
    LET exif(k)  == file.chunks[k].type = type
        whole(k) == /\ First(k, exif) /\ start[k] + file.chunks[k].length <= file.bytes
                    /\ \A j \in 1..k : file.chunks[j].type \notin closing
    IN  IF \E k \in DOMAIN file.chunks : whole(k)
        THEN LET k == CHOOSE k \in DOMAIN file.chunks : whole(k) IN Unmarked(file.chunks[k], start[k])
        ELSE NoBlock

PngPayload(png)   == [k \in DOMAIN png.chunks |-> Start(png)[k] + 8]
WebpPayload(webp) ==
    LET f[k \in 1..Len(webp.chunks)] ==
            IF k = 1 THEN 20
            ELSE LET before == webp.chunks[k - 1].length IN f[k - 1] + 8 + 2 * ((before + 1) \div 2)
    IN  f

\* The tag: the first conforming entry all of whose bytes are in the block.
TagValue(tiff) ==
    LET ends(k)  == tiff.offset + 2 + EntrySize * k
        tag(k)   == Conforms(tiff.entries[k])
        there(k) == First(k, tag) /\ k <= tiff.stated /\ ends(k) <= tiff.length
    IN  IF HasDirectory(tiff) /\ \E k \in DOMAIN tiff.entries : there(k)
        THEN tiff.entries[CHOOSE k \in DOMAIN tiff.entries : there(k)].value
        ELSE 1

\* Whatever stands before it, fill bytes, decoys, odd chunks, and wherever the file is
\* cut, a scanner finds the Exif block that was written, wholly inside the file, or
\* none; and the orientation is that of the tag, if the tag is whole and has a value.
TagFound ==
    /\ call.what = "jpeg" => call.answer = JpegBlock(call.given.parts, call.given.bytes)
    /\ call.what = "png"  => call.answer = ChunkBlock(call.given, PngPayload(call.given), "eXIf", {"IEND"})
    /\ call.what = "webp" => call.answer = ChunkBlock(call.given, WebpPayload(call.given), "EXIF", {})
    /\ call.what = "tiff" =>
          LET value == TagValue(call.given) IN call.answer = (IF value \in 1..8 THEN value ELSE 1)
=============================================================================
