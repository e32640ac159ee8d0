---------------------------- MODULE MCAlgorithms ----------------------------
(***************************************************************************)
(* The algorithms of the library and the scratch arena, one call at a time  *)
(* on one thread: each begins when the others are idle, so that what it     *)
(* computes depends on its arguments alone.  The arguments are samples,     *)
(* chosen below for the cases each algorithm tells apart.                   *)
(***************************************************************************)
EXTENDS Arena, Orient, Exif, Quota, AreaMean, Correlation, Digests, Alpha, ColorBins, Config, Messages,
        Filters, GridHashes

UpTo(set, most) == UNION {[1..size -> set] : size \in 0..most}

-----------------------------------------------------------------------------
\* Arena: sizes at both sides of the alignment, the smallest buffer and SIZE_MAX / 2.
SmallSizes == {1, 4, 7, 16, 33, 61}

\* Orient: sides around and beyond the tile, a negative one, and sizes no buffer has.
MCSides    == -1..5
MCChannels == {1, 3}

\* Exif: fill bytes, padding before a marker, markers without a length, a decoy in
\* another segment, an APP1 of another kind, Exif segments, a decoy in a scan.
MCMark == <<69>>

Part(kind, content) == [kind |-> kind, bytes |-> content]

Parts == {
    Part("other", <<FF, FF, 208>>), Part("other", <<7, FF, 1>>),
    Part("other", <<FF, 224, 0, 7, FF, APP1, 0, 3, 69>>), Part("other", <<FF, APP1, 0, 3, 88>>),
    Part("exif", <<FF, APP1, 0, 5, 69, FF, SOS>>),
    Part("scan", <<FF, SOS, 0, 2, FF, APP1, 0, 4, 69, 7>>)}

Whole(parts) == <<FF, SOI>> \o FlattenSeq([k \in DOMAIN parts |-> parts[k].bytes])

Chunk(type, length, marked) == [type |-> type, length |-> length, marked |-> marked]

PngChunks  == {Chunk("tEXt", 1, TRUE), Chunk("eXIf", 3, TRUE), Chunk("eXIf", 0, FALSE), Chunk("IEND", 0, FALSE)}
WebpChunks == {Chunk("VP8X", 1, TRUE), Chunk("VP8X", 2, FALSE), Chunk("EXIF", 3, TRUE), Chunk("EXIF", 0, FALSE)}

\* Tags: the orientation, with a value and without, other types, counts and tags.
Entry(tag, type, count, value) == [tag |-> tag, type |-> type, count |-> count, value |-> value]
MCEntries == {Entry(274, 3, 1, 6), Entry(274, 3, 1, 9), Entry(274, 4, 1, 3), Entry(274, 3, 2, 3), Entry(256, 3, 1, 2)}

Tiff(order, magic, length, directory, stated, entries) ==
    [order |-> order, magic |-> magic, length |-> length, offset |-> directory, stated |-> stated, entries |-> entries]

Tiffs ==
    {Tiff(order, magic, length, 8, stated, <<Entry(274, 3, 1, 6)>>) :
        order \in {"II", "MM", "XX"}, magic \in BOOLEAN, length \in {0, 7, 8, 9, 10, 21, 22}, stated \in 0..1}
    \cup {Tiff("II", TRUE, length, directory, stated, entries) :
            length \in {21, 22, 23, 33, 34}, directory \in {0, 8, 9, 100}, stated \in 0..3, entries \in [1..2 -> MCEntries]}

ExifCall ==
    \/ \E parts \in UpTo(Parts, 3) : LET whole == Whole(parts) IN
          \E bytesThere \in {Len(whole) - cut : cut \in 0..9} :
              bytesThere >= 0 /\ ScanJpeg(parts, SubSeq(whole, 1, bytesThere))
    \/ \E chunks \in UpTo(PngChunks, 3), bytesThere \in 0..50 : ScanPng([chunks |-> chunks, bytes |-> bytesThere])
    \/ \E chunks \in UpTo(WebpChunks, 3), bytesThere \in 0..45 : ScanWebp([chunks |-> chunks, bytes |-> bytesThere])
    \/ \E tiff \in Tiffs : ParseTiff(tiff)

-----------------------------------------------------------------------------
\* Quota: no number, zero, leading zeros, values at both sides of the widths (127 and
\* 15), longer ones, and negative ones.
Word(negative, digits) == [negative |-> negative, digits |-> digits]
Words ==
    {Word(FALSE, digits) : digits \in {<<>>, <<0>>, <<1>>, <<3>>, <<7>>, <<0, 5>>, <<3, 3>>, <<1, 0, 0>>,
                                       <<1, 2, 7>>, <<1, 2, 8>>, <<9, 9, 9>>}}
        \cup {Word(TRUE, <<1>>), Word(TRUE, <<1, 2, 7>>)}

OneWord == {NoFile} \cup {Text(<<word>>) : word \in Words}
Roots ==
    [cpu_max : {NoFile} \cup {Text(words) : words \in UpTo(Words, 2) \ {<<>>}},
     quota : {NoFile}, period : {Text(<<Word(FALSE, <<3>>)>>)}]
        \cup [cpu_max : {NoFile}, quota : OneWord, period : OneWord]

QuotaCall == \E root \in Roots, online \in {-1, 3, 20}, affinity \in {0, 2} : CountCpus(online, affinity, root)

-----------------------------------------------------------------------------
\* AreaMean: images smaller and larger than the grid of 4: one bright pixel, a ramp,
\* and all white, which has the largest sums.
Gray(w, h, values) == [width |-> w, height |-> h, pixel |-> values]
Grays(w, h) ==
    LET places == (0..w - 1) \X (0..h - 1)
        bright(p) == [q \in places |-> IF q = p THEN 255 ELSE 0]
    IN  {Gray(w, h, values) : values \in {bright(p) : p \in places}
            \cup {[p \in places |-> 17 * p[1] + 23 * p[2]], [p \in places |-> 255]}}

AreaCall == \E w, h \in 1..5, dw, dh \in 1..4 : \E gray \in Grays(w, h) : Downscale(gray, dw, dh)

-----------------------------------------------------------------------------
\* Digests: sizes around the word and the array, and beyond it; what lies beyond the
\* size is 9.
Digest(size, kind, content) ==
    [size |-> size, kind |-> kind,
     data |-> [k \in 0..DigestMax - 1 |-> IF k < Len(content) THEN content[k + 1] ELSE 9]]

Shapes   == {Digest(size, kind, <<1, 255, 7>>) : size \in {0, 2, 3, 5, 6}, kind \in Kinds \cup {"unnamed"}}
Contents == {Digest(3, "unspecified", content) : content \in [1..3 -> {0, 128, 255}]}
Features == {Digest(4, "vector16", content) : content \in [1..4 -> {0, 129}]}

HexDigits(count) == {[k \in 1..count |-> k % 16], [k \in 1..count |-> IF k = count THEN -1 ELSE k % 16]}

DigestCall ==
    \/ \E name \in {"hamming", "similarity", "l2", "intersection"} :
          \/ \E one, other \in Shapes : Compare(name, one, other)
          \/ \E one, other \in Contents : Compare(name, one, other)
    \/ \E one, other \in Features : Compare("l2", one, other)
    \/ \E digest \in Shapes, room \in 5..22 : Write(digest, room)
    \/ \E name \in Kinds \cup {"none", "misspelt"}, count \in 0..12 : \E digits \in HexDigits(count) :
          Read([name |-> name, digits |-> digits], Digest(2, "bits", <<77, 66, 55>>))
    \/ \E hash \in {0, 1, 255, 256, 4660, 65535} : WriteHash(hash) \/ DigestHash(hash)
    \/ \E digits \in UpTo({-1, 0, 1, 15}, 5) : ReadHash(digits)

-----------------------------------------------------------------------------
\* Alpha: gray and color, with and without alpha, no pixel, one, and several.
Pixels(size, count, values) ==
    {[channels |-> size, count |-> count, bytes |-> content] : content \in [0..count * size - 1 -> values]}

MCPictures ==
    Pixels(2, 0, {0}) \cup Pixels(2, 1, {0, 1, 128, 255}) \cup Pixels(2, 3, {3, 200})
        \cup Pixels(4, 2, {90, 255}) \cup Pixels(3, 2, {7}) \cup Pixels(1, 2, {7})

\* ColorBins: every color once; pixels of three colors, fewer and more than the lanes.
Colors == [r : 0..Level, g : 0..Level, b : 0..Level]
Black  == [r |-> 0, g |-> 0, b |-> 0]
Purple == [r |-> Level, g |-> 0, b |-> 1]
White  == [r |-> Level, g |-> Level, b |-> Level]

ColorCall == \E pixels \in {<<color>> : color \in Colors} \cup UpTo({Black, Purple, White}, 5) : Count(pixels)

\* Messages: every text of up to four bytes, and longer paths of the characters below.
MultiByte  == {<<"plain">>, <<"lead2", "cont">>, <<"lead4", "cont", "cont", "cont">>, <<"cont">>}

MessageCall ==
    \/ \E msg \in UpTo(Bytes, 4), room \in 1..5 : Message(msg, room)
    \/ \E parts \in UpTo(MultiByte, 4), before, after \in 1..2, size \in 1..14 :
          PathMessage(FlattenSeq(parts), before, after, size)

\* Filters: images narrower than the radius, of one and of several strips; blocks that
\* fill an image and that do not, and kernels up to its size; all tones equal, and not.
Places(m)  == (0..m - 1) \X (0..m - 1)
Checked(m) == [p \in Places(m) |-> (p[1] * 7 + p[2] * p[2] * 5) % 11]

Tones == {0, 3, 4, 255}

FilterCall ==
    \/ \E w, h \in 1..8, reach \in 0..4 : Blur(w, h, reach)
    \/ \E size \in 1..5 : \E data \in [1..size -> Tones] : Equalize(data)
    \/ \E side \in 4..7, kernel \in {1, 3, 5} : SumBlocks(Checked(side), side, kernel)
    \/ \E size \in 1..4, weights \in {<<38, 75, 15>>, <<0, 0, 128>>, <<43, 43, 42>>}, vectors \in BOOLEAN :
          \E pixels \in [1..size -> {<<255, 255, 255>>, <<1, 0, 254>>}] : ToGray(pixels, weights, vectors)

\* GridHashes: few values, so that many are equal; values up to the largest; a value
\* before those that make the median; images on both sides of the powers of two.
Images(m) ==
    {[p \in Places(m) |-> IF p = q THEN 255 ELSE 7 * (p[1] % 2)] : q \in Places(m)}
        \cup {[p \in Places(m) |-> (p[1] * 17 + p[2] * p[1] * 5 + p[2]) % 23], [p \in Places(m) |-> 9]}

HashCall ==
    \/ \E samples \in [0..3 -> {0, 1, 2, 255}] : ComputeAHash(samples)
    \/ \E grid \in [(0..HashSize) \X (0..HashSize - 1) -> {0, 1, 255}] : ComputeDHash(grid)
    \/ \E grid \in Images(5) : ComputeMhash(grid, 5, 1)
    \/ \E size \in {1, 4, 5} : \E samples \in [0..size - 1 -> {0, 1, 255}] : ComputeBmh(samples)
    \/ \E size \in 0..5, from \in 0..2, margin \in {0, 1, 3} :
          \E values \in [0..size - 1 -> {-3, -1, 2}] : PackMedian(values, size, from, margin)
    \/ \E how \in {"fast", "full"}, remove \in BOOLEAN, min_dim \in 1..9 :
          \E samples \in Images(WhashSize(how, min_dim)) : ComputeWhash(how, remove, min_dim, samples, 1)

\* Config: arguments at both sides of every limit.
MCArguments ==
    [gamma |-> {Infinity + 1, Infinity, 1, 2, 1000001},
     gray |-> {<<0, 0, 0>>, <<-1, 1, 1>>, <<1, 1, 1>>, <<8421504, 1, 0>>},
     phash |-> [dct : {0, 5, 33}, reduction : {3, 4, 8}],
     radial |-> [projections : {39, 40}, samples : {1, 2}, sigma : {Infinity + 1, 0, 128, 129}],
     mhash |-> [alpha : {Infinity + 1, 1, 2, 9}, level : {-1, 3, 4}, size : {61, 62}],
     block |-> {1, 3, 32, 33},
     flag |-> {0, 7},
     maxPixels |-> {0},
     mode |-> {"IGNORE", "QUARTER", "unknown"}]

-----------------------------------------------------------------------------
others == <<arenaVars, orientVars, correlationVars, alphaVars, config>>

Init == ArenaInit /\ OrientIdle /\ CorrelationIdle /\ AlphaIdle /\ ConfigIdle /\ call = NoCall

Unused == ~buffer /\ blocks = <<>> /\ marks = <<>>
Idle   == place = "idle" /\ stage = "idle" /\ doing = "idle" /\ call = NoCall

PureCall ==
    /\ Unused /\ Idle /\ config = Defaults
    /\ ExifCall \/ QuotaCall \/ AreaCall \/ DigestCall \/ ColorCall \/ MessageCall
       \/ FilterCall \/ HashCall

Next ==
    \/ (PureCall \/ Forget) /\ UNCHANGED others
    \/ Idle /\ config = Defaults /\ ArenaNext
       /\ UNCHANGED <<call, orientVars, correlationVars, alphaVars, config>>
    \/ /\ Unused /\ call = NoCall /\ stage = "idle" /\ doing = "idle" /\ config = Defaults
       /\ OrientNext
       /\ UNCHANGED <<call, arenaVars, correlationVars, alphaVars, config>>
    \/ /\ Unused /\ call = NoCall /\ place = "idle" /\ doing = "idle" /\ config = Defaults
       /\ CorrelationNext
       /\ UNCHANGED <<call, arenaVars, orientVars, alphaVars, config>>
    \/ /\ Unused /\ call = NoCall /\ place = "idle" /\ stage = "idle" /\ config = Defaults
       /\ AlphaNext
       /\ UNCHANGED <<call, arenaVars, orientVars, correlationVars, config>>
    \/ /\ Unused /\ Idle
       /\ ConfigNext
       /\ UNCHANGED <<call, arenaVars, orientVars, correlationVars, alphaVars>>

Spec == Init /\ [][Next]_<<call, others>>
=============================================================================
