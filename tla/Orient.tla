------------------------------- MODULE Orient -------------------------------
(***************************************************************************)
(* ph_apply_exif_orientation() of src/image/orient.c: the copy of a decoded *)
(* image that shows it the way its EXIF orientation says.  The image is its *)
(* bytes; a byte is named by where it was stored.  Offsets are size_t       *)
(* values: a walk up a column or backwards along a row wraps modulo         *)
(* SizeMax + 1, as the C expressions do.                                    *)
(***************************************************************************)
EXTENDS SizeT

CONSTANTS
    Tile,       \* PH_ORIENT_TILE, 64
    Sides,      \* the widths and heights of the images, as the callers' ints
    Channels    \* their channel counts

ASSUME OrientAssumption ==
    /\ Tile \in Nat \ {0}
    /\ Sides \subseteq Int /\ Channels \subseteq Nat \ {0}

VARIABLES
    image,      \* the caller's *data, *width, *height, and the channel count
    turn,       \* the orientation asked for
    place,      \* "idle", "called", "row", "mirror", "tile", "copied"
    tile,       \* the corner of the tile that is walked: [x |-> ox0, y |-> oy0]
    at,         \* the pixel of the output that is written next: [x |-> ox, y |-> oy]
    soff, doff, \* the offsets read and written next
    out,        \* the output buffer
    answer      \* the status of the last call

copying    == <<tile, at, soff, doff, out>>
orientVars == <<image, turn, place, copying, answer>>

\* ph_safe_image_alloc_size()
Sizeable(w, h, channels) ==
    /\ w # 0 /\ h # 0 /\ channels # 0
    /\ w <= SizeMax \div h
    /\ w * h <= SizeMax \div channels

\* The stored bytes of an image: none where no buffer can hold it.
Stored(w, h, channels) ==
    [k \in IF w > 0 /\ h > 0 /\ Sizeable(w, h, channels) THEN 0..(w * h * channels) - 1 ELSE {} |-> k]

W  == image.width
H  == image.height
px == image.channels

Swaps(o) == o >= 5
Wd == IF Swaps(turn) THEN H ELSE W
Hd == IF Swaps(turn) THEN W ELSE H

src_stride == W * px
dst_stride == Wd * px

\* The byte offset of a pixel in a buffer with the given stride.
Offset(stride, x, y) == y * stride + x * px

FlipX == turn \in {7, 8}
FlipY == turn \in {6, 7}

\* Fault: a mirrored walk steps down too.
StepDown == src_stride
RowStep  == IF FlipY THEN Wrap(0 - src_stride) ELSE src_stride

\* ph_orient_copy_px(), memcpy(): n bytes of the image.
CopyBytes(d, s, n) == [k \in DOMAIN out |-> IF k \in d..(d + n) - 1 THEN image.data[s + (k - d)] ELSE out[k]]

-----------------------------------------------------------------------------
NoImage == [width |-> 0, height |-> 0, channels |-> 0, data |-> <<>>]

Corner  == [x |-> 0, y |-> 0]

OrientIdle ==
    /\ image = NoImage /\ turn = 1 /\ place = "idle"
    /\ tile = Corner /\ at = Corner /\ soff = 0 /\ doff = 0
    /\ out = <<>> /\ answer = "none"

OrientCall(w, h, channels, o) ==
    /\ place = "idle"
    /\ image' = [width |-> w, height |-> h, channels |-> channels, data |-> Stored(w, h, channels)]
    /\ turn' = o
    /\ place' = "called"
    /\ UNCHANGED <<copying, answer>>

Answers(status) == answer' = status /\ place' = "returned" /\ UNCHANGED <<image, turn, copying>>

\* Orientation 1, and anything unknown, needs no transform at all.
NoTurn == place = "called" /\ (turn <= 1 \/ turn > 8) /\ Answers("SUCCESS")

Turns == place = "called" /\ turn \in 2..8

\* Negative sides, and sizes that no buffer has.
Refused ==
    /\ Turns
    /\ IF W < 0 \/ H < 0 THEN Answers("INVALID_ARGUMENT")
                         ELSE ~Sizeable(Wd, Hd, px) /\ Answers("IMAGE_TOO_LARGE")

Sized == Turns /\ W >= 0 /\ H >= 0 /\ Sizeable(Wd, Hd, px)

OutOfMemory == Sized /\ Answers("ALLOCATION_FAILED")

Allocate ==
    /\ Sized
    /\ out' = [k \in 0..(Wd * Hd * px) - 1 |-> -1]
    /\ place' = IF turn = 4 THEN "rows" ELSE "start"
    /\ UNCHANGED <<image, turn, tile, at, soff, doff, answer>>

\* Orientation 4: whole rows, in reverse order.
CopyRow ==
    /\ place = "rows" /\ at.y < Hd
    /\ out' = CopyBytes(at.y * dst_stride, (H - 1 - at.y) * src_stride, src_stride)
    /\ at' = [at EXCEPT !.y = @ + 1]
    /\ UNCHANGED <<image, turn, place, tile, soff, doff, answer>>

\* Where a row of the output, or of a tile of it, begins in the image.
RowStart ==
    IF Swaps(turn)
    THEN Offset(src_stride, IF FlipX THEN W - 1 - at.y ELSE at.y, IF FlipY THEN H - 1 - at.x ELSE at.x)
    ELSE (W - 1) * px

StartRow ==
    /\ place = "start" /\ at.y < Hd
    /\ soff' = RowStart
    /\ doff' = Offset(dst_stride, at.x, at.y)
    /\ place' = IF Swaps(turn) THEN "tile" ELSE "mirror"
    /\ UNCHANGED <<image, turn, tile, at, out, answer>>

\* Orientations 2 and 3: each row backwards, `soff` being the offset in the row.
MirroredRow == (IF turn = 3 THEN H - 1 - at.y ELSE at.y) * src_stride

CopyMirrored ==
    /\ place = "mirror" /\ at.x < W
    /\ out' = CopyBytes(doff, MirroredRow + soff, px)
    /\ at' = [at EXCEPT !.x = @ + 1]
    /\ doff' = doff + px
    /\ soff' = Wrap(soff - px)
    /\ UNCHANGED <<image, turn, place, tile, answer>>

EndMirrored ==
    /\ place = "mirror" /\ at.x >= W
    /\ at' = [x |-> 0, y |-> at.y + 1]
    /\ place' = "start"
    /\ UNCHANGED <<image, turn, tile, soff, doff, out, answer>>

\* Orientations 5 to 8: a row of a tile is a piece of a column of the image.
TileEnd(from, side) == IF from + Tile < side THEN from + Tile ELSE side

CopyTransposed ==
    /\ place = "tile" /\ at.x < TileEnd(tile.x, Wd)
    /\ out' = CopyBytes(doff, soff, px)
    /\ at' = [at EXCEPT !.x = @ + 1]
    /\ doff' = doff + px
    /\ soff' = Wrap(soff + RowStep)
    /\ UNCHANGED <<image, turn, place, tile, answer>>

\* The next tile: to the right, then at the left below.
NextTile(right) ==
    IF right < Wd THEN [x |-> right, y |-> tile.y] ELSE [x |-> 0, y |-> tile.y + Tile]

\* The next row of the tile, or else the next tile.  Fault: the tile to the right begins
\* one pixel late.
EndRowThen(next) ==
    /\ place = "tile" /\ at.x >= TileEnd(tile.x, Wd)
    /\ IF at.y + 1 < TileEnd(tile.y, Hd)
       THEN at' = [x |-> tile.x, y |-> at.y + 1] /\ UNCHANGED tile
       ELSE tile' = next /\ at' = next
    /\ place' = "start"
    /\ UNCHANGED <<image, turn, soff, doff, out, answer>>

EndRowSkipping == EndRowThen(NextTile(tile.x + Tile + 1))
EndRow         == EndRowThen(NextTile(tile.x + Tile))

\* The stored image is freed, and the copy takes its place.
Install ==
    /\ place \in {"rows", "start"} /\ at.y >= Hd
    /\ image' = [image EXCEPT !.width = Wd, !.height = Hd, !.data = out]
    /\ answer' = "SUCCESS"
    /\ place' = "returned"
    /\ UNCHANGED <<turn, copying>>

OrientReturn ==
    /\ place = "returned"
    /\ image' = NoImage /\ turn' = 1 /\ place' = "idle"
    /\ tile' = Corner /\ at' = Corner /\ soff' = 0 /\ doff' = 0
    /\ out' = <<>> /\ answer' = "none"

OrientNext ==
    \/ \E w, h \in Sides, channels \in Channels, o \in 0..9 : OrientCall(w, h, channels, o)
    \/ NoTurn \/ Refused \/ OutOfMemory \/ Allocate
    \/ CopyRow \/ StartRow \/ CopyMirrored \/ EndMirrored \/ CopyTransposed \/ EndRow
    \/ Install \/ OrientReturn

OrientSpec == OrientIdle /\ [][OrientNext]_orientVars

-----------------------------------------------------------------------------
\* The EXIF definition: where the row and the column 0 of the stored image are seen.
RowZero    == <<"top", "top", "bottom", "bottom", "left", "right", "right", "left">>
ColumnZero == <<"left", "right", "right", "left", "top", "top", "bottom", "bottom">>

\* The place, counted from the top or from the left, of what is stored as number k of n
\* along an axis that begins at `side`.
Seen(side, k, n) == IF side \in {"top", "left"} THEN k ELSE n - 1 - k

SeenX(o, x, y, w, h) == IF Swaps(o) THEN Seen(RowZero[o], y, h) ELSE Seen(ColumnZero[o], x, w)
SeenY(o, x, y, w, h) == IF Swaps(o) THEN Seen(ColumnZero[o], x, w) ELSE Seen(RowZero[o], y, h)

\* The image, w wide and h high as stored, as the orientation says it is to be seen.
Upright(o, w, h) ==
    \A x \in 0..w - 1, y \in 0..h - 1, c \in 0..px - 1 :
        image.data[Offset(src_stride, SeenX(o, x, y, w, h), SeenY(o, x, y, w, h)) + c]
            = Offset(w * px, x, y) + c

\* The size the stored image had, of which an upright one shows the transpose.
StoredWidth  == IF answer = "SUCCESS" /\ turn \in 5..8 THEN H ELSE W
StoredHeight == IF answer = "SUCCESS" /\ turn \in 5..8 THEN W ELSE H

\* An image that was turned shows every stored pixel where the EXIF orientation puts it,
\* whatever the sides are to the tile; where nothing was turned, or something failed, the
\* caller still has the stored image.
TurnedOrUntouched ==
    place = "returned" =>
        IF answer = "SUCCESS" /\ turn \in 2..8 THEN Upright(turn, StoredWidth, StoredHeight)
        ELSE image.data = Stored(W, H, px)

\* No byte is read or written outside the two buffers: the offset of a mirrored walk,
\* which steps back by wrapping around, is never used once it has left the image.
CopiesInside ==
    LET inside(d, s, n) == d \in Nat /\ s \in Nat /\ (d + n) - 1 \in DOMAIN out /\ (s + n) - 1 \in DOMAIN image.data
    IN  /\ place = "rows" /\ at.y < Hd => inside(at.y * dst_stride, (H - 1 - at.y) * src_stride, src_stride)
        /\ place = "mirror" /\ at.x < W => inside(doff, MirroredRow + soff, px)
        /\ place = "tile" /\ at.x < TileEnd(tile.x, Wd) => inside(doff, soff, px)
=============================================================================
