--------------------------- MODULE Context_proofs ---------------------------
(***************************************************************************)
(* Theorems of Context for any pictures and any weights, and of FileLoad    *)
(* for any files.  The invariants of Context are inductive together: that a *)
(* load leaves no half-installed image rests on nothing else, that the      *)
(* caches are current on the types, and that a computation reads the        *)
(* current image on the caches being current.                               *)
(***************************************************************************)
EXTENDS Context, FileLoad, TLAPS

IInv == TypeOK /\ CachesAreCurrent /\ ComputationsReadCurrent /\ LoadIsAllOrNothing

\* The fields of ctx->image.
Images == [raw : Raws \cup {None}, side : Nat, channels : {0, 1, 3},
           gray : Grays \cup {None}, grid : Grays \cup {None}, gridValid : BOOLEAN]

\* ph_drop_gray_cache() leaves nothing derived.
LEMMA DropForgets ==
    ASSUME NEW i \in Images
    PROVE  /\ Drop(i) \in Images
           /\ Drop(i).gray = None /\ Drop(i).gridValid = FALSE
           /\ Drop(i).raw = i.raw /\ Drop(i).side = i.side /\ Drop(i).channels = i.channels
BY DEF Drop, Images

\* ph_reset_loaded_image() leaves nothing at all.
LEMMA ResetForgets ==
    ASSUME NEW i \in Images
    PROVE  /\ Reset(i) \in Images
           /\ Reset(i).gray = None /\ Reset(i).gridValid = FALSE
           /\ Reset(i).raw = None /\ Reset(i).side = 0 /\ Reset(i).channels = 0
BY DropForgets DEF Reset, Drop, Images

\* Installing a buffer changes only what describes it.
LEMMA InstallReplaces ==
    ASSUME NEW i \in Images, NEW raw \in Raws, NEW c \in {1, 3}
    PROVE  /\ Install(i, raw, c) \in Images
           /\ Install(i, raw, c).gray = i.gray /\ Install(i, raw, c).gridValid = i.gridValid
           /\ Install(i, raw, c).raw = raw
<1>1. raw.picture.side \in Nat
  BY ContextAssumption DEF Raws, AllPictures
<1> QED
  BY <1>1 DEF Install, Images

\* A decoded image is installed over an empty one.
LEMMA DecodedIsFresh ==
    ASSUME NEW p \in Pictures, NEW upright \in BOOLEAN, TypeOK
    PROVE  /\ Decoded(p, upright) \in Images
           /\ Decoded(p, upright).gray = None /\ Decoded(p, upright).gridValid = FALSE
           /\ Decoded(p, upright).raw = [picture |-> p, upright |-> upright]
<1> DEFINE raw == [picture |-> p, upright |-> upright]
           c   == IF loadGray THEN 1 ELSE Opaque(p.channels)
<1>1. Reset(image) \in Images /\ Reset(image).gray = None /\ Reset(image).gridValid = FALSE
  BY ResetForgets DEF TypeOK, Images
<1>2. c \in {1, 3}
  BY ContextAssumption DEF Opaque, AllPictures
<1>3. raw \in Raws
  BY DEF Raws
<1>4. Decoded(p, upright) = Install(Reset(image), raw, c)
  BY DEF Decoded
<1> HIDE DEF raw, c
<1>5. /\ Install(Reset(image), raw, c) \in Images
      /\ Install(Reset(image), raw, c).gray = Reset(image).gray
      /\ Install(Reset(image), raw, c).gridValid = Reset(image).gridValid
      /\ Install(Reset(image), raw, c).raw = raw
  BY <1>1, <1>2, <1>3, InstallReplaces
<1> QED
  BY <1>1, <1>4, <1>5 DEF raw

\* ph_get_gray() gives the gray image that is current, whether it was cached or not,
\* and touches nothing but the cache.
LEMMA GrayIsCurrent ==
    ASSUME TypeOK, CachesAreCurrent, image.raw # None
    PROVE  /\ CurrentGray \in Grays
           /\ GrayRead = CurrentGray
           /\ GotGray \in Images
           /\ GotGray.gray \in {None, CurrentGray}
           /\ \A f \in {"raw", "side", "channels", "grid", "gridValid"} : GotGray[f] = image[f]
<1>1. image \in Images /\ image.raw \in Raws /\ weights \in Weights
  BY DEF TypeOK, Images
<1>2. CurrentGray \in Grays
  BY <1>1 DEF CurrentGray, Grays
<1>3. GotGray \in Images /\ GotGray.gray \in {None, CurrentGray}
  BY <1>1, <1>2 DEF GotGray, Images, CachesAreCurrent
<1>4. \A f \in {"raw", "side", "channels", "grid", "gridValid"} : GotGray[f] = image[f]
  BY <1>1 DEF GotGray, Images
<1>5. GrayRead = CurrentGray
  <2>1. CASE image.channels = 1
    BY <2>1 DEF GrayRead, CachesGray, CurrentGray
  <2>2. CASE image.channels # 1 /\ image.gray = None
    BY <1>1, <2>2 DEF GrayRead, CachesGray, GotGray, Images
  <2>3. CASE image.channels # 1 /\ image.gray # None
    BY <2>3 DEF GrayRead, CachesGray, GotGray, CachesAreCurrent
  <2> QED
    BY <2>1, <2>2, <2>3
<1> QED
  BY <1>2, <1>3, <1>4, <1>5

\* The initial states satisfy the invariant.
LEMMA InitInvariant == Init => IInv
<1> SUFFICES ASSUME Init PROVE IInv
  OBVIOUS
<1> USE ContextAssumption DEF Init
<1>1. Empty \in Images
  BY DEF Empty, Images
<1>2. TypeOK
  BY <1>1 DEF TypeOK, Images
<1>3. CachesAreCurrent /\ ComputationsReadCurrent /\ LoadIsAllOrNothing
  BY DEF CachesAreCurrent, ComputationsReadCurrent, LoadIsAllOrNothing, Empty
<1> QED
  BY <1>2, <1>3 DEF IInv

\* Every load and failed load keeps the invariant.
LEMMA LoadsKeep ==
    ASSUME IInv,
           \/ \E explained \in BOOLEAN : LoadFails(explained)
           \/ \E p \in Pictures : LoadEncoded(p) \/ OrientFails(p) \/ LoadFromPixels(p)
           \/ PixelsFail
    PROVE  IInv'
<1> USE ContextAssumption DEF config
<1>1. image \in Images /\ TypeOK
  BY DEF IInv, TypeOK, Images
<1>2. ASSUME NEW explained \in BOOLEAN, LoadFails(explained) PROVE IInv'
  <2>1. image' \in Images /\ image'.gray = None /\ image'.gridValid = FALSE
        /\ image'.raw = None /\ image'.side = 0
    BY <1>1, <1>2, ResetForgets DEF LoadFails
  <2>2. last' \in Outcomes /\ last'.entry = "encoded" /\ last'.status = "FAILED"
    BY <1>1, <1>2 DEF LoadFails, Outcome, Outcomes, TypeOK
  <2>3. TypeOK'
    BY <1>1, <1>2, <2>1, <2>2 DEF LoadFails, TypeOK, Images
  <2>4. CachesAreCurrent' /\ ComputationsReadCurrent'
    BY <1>2, <2>1 DEF LoadFails, CachesAreCurrent, ComputationsReadCurrent
  <2>5. LoadIsAllOrNothing'
    BY <2>1, <2>2 DEF LoadIsAllOrNothing
  <2> QED
    BY <2>3, <2>4, <2>5 DEF IInv
<1>3. ASSUME NEW p \in Pictures, LoadEncoded(p) PROVE IInv'
  <2> DEFINE upright == autoOrient \/ ~p.tagged
  <2>1. upright \in BOOLEAN /\ p.tagged \in BOOLEAN
    BY DEF AllPictures
  <2> HIDE DEF upright
  <2>2. image' \in Images /\ image'.gray = None /\ image'.gridValid = FALSE
        /\ image'.raw = [picture |-> p, upright |-> upright]
    BY <1>1, <1>3, <2>1, DecodedIsFresh DEF LoadEncoded, upright
  <2>3. /\ last' \in Outcomes /\ last'.entry = "encoded" /\ last'.status = "SUCCESS"
        /\ last'.upright = autoOrient
    BY <1>1, <1>3 DEF LoadEncoded, Outcome, Outcomes, TypeOK
  <2>4. TypeOK'
    BY <1>1, <1>3, <2>2, <2>3 DEF LoadEncoded, TypeOK, Images
  <2>5. CachesAreCurrent' /\ ComputationsReadCurrent'
    BY <1>3, <2>2 DEF LoadEncoded, CachesAreCurrent, ComputationsReadCurrent
  <2>6. image'.raw # None
    BY <2>1, <2>2
  <2>7. LoadIsAllOrNothing'
    BY <1>3, <2>1, <2>2, <2>3, <2>6 DEF LoadEncoded, LoadIsAllOrNothing, upright
  <2> QED
    BY <2>4, <2>5, <2>7 DEF IInv
<1>4. ASSUME NEW p \in Pictures, OrientFails(p) PROVE IInv'
  <2>1. Decoded(p, FALSE) \in Images
    BY <1>1, DecodedIsFresh
  <2>2. image' \in Images /\ image'.gray = None /\ image'.gridValid = FALSE
        /\ image'.raw = None /\ image'.side = 0
    BY <1>4, <2>1, ResetForgets DEF OrientFails, OrientFailsLeaving
  <2>3. last' \in Outcomes /\ last'.entry = "encoded" /\ last'.status = "FAILED"
    BY <1>1, <1>4 DEF OrientFails, OrientFailsLeaving, Outcome, Outcomes, TypeOK
  <2>4. TypeOK'
    BY <1>1, <1>4, <2>2, <2>3 DEF OrientFails, OrientFailsLeaving, TypeOK, Images
  <2>5. CachesAreCurrent' /\ ComputationsReadCurrent'
    BY <1>4, <2>2
    DEF OrientFails, OrientFailsLeaving, CachesAreCurrent, ComputationsReadCurrent
  <2>6. LoadIsAllOrNothing'
    BY <2>2, <2>3 DEF LoadIsAllOrNothing
  <2> QED
    BY <2>4, <2>5, <2>6 DEF IInv
<1>5. ASSUME NEW p \in Pictures, LoadFromPixels(p) PROVE IInv'
  <2> DEFINE raw == [picture |-> p, upright |-> TRUE]
             c   == Opaque(p.channels)
  <2>1. raw \in Raws /\ c \in {1, 3}
    BY DEF Raws, Opaque, AllPictures
  <2>2. image' = Install(Drop(image), raw, c)
    BY <1>5 DEF LoadFromPixels, ReplacePixels
  <2> HIDE DEF raw, c
  <2>3. image' \in Images /\ image'.gray = None /\ image'.gridValid = FALSE /\ image'.raw = raw
    <3>1. /\ Drop(image) \in Images
          /\ Drop(image).gray = None /\ Drop(image).gridValid = FALSE
      BY <1>1, DropForgets
    <3>2. /\ Install(Drop(image), raw, c) \in Images
          /\ Install(Drop(image), raw, c).gray = Drop(image).gray
          /\ Install(Drop(image), raw, c).gridValid = Drop(image).gridValid
          /\ Install(Drop(image), raw, c).raw = raw
      BY <2>1, <3>1, InstallReplaces
    <3> QED
      BY <2>2, <3>1, <3>2
  <2>4. last' \in Outcomes /\ last'.entry = "pixels" /\ last'.status = "SUCCESS"
    BY <1>1, <1>5 DEF LoadFromPixels, ReplacePixels, Outcome, Outcomes, TypeOK
  <2>5. TypeOK'
    BY <1>1, <1>5, <2>3, <2>4 DEF LoadFromPixels, ReplacePixels, TypeOK, Images
  <2>6. CachesAreCurrent' /\ ComputationsReadCurrent'
    BY <1>5, <2>3
    DEF LoadFromPixels, ReplacePixels, CachesAreCurrent, ComputationsReadCurrent
  <2>7. image'.raw # None
    BY <2>1, <2>3 DEF Raws
  <2>8. LoadIsAllOrNothing'
    BY <1>5, <2>4, <2>7 DEF LoadFromPixels, ReplacePixels, LoadIsAllOrNothing
  <2> QED
    BY <2>5, <2>6, <2>8 DEF IInv
<1>6. CASE PixelsFail
  <2>1. last' \in Outcomes /\ last'.entry = "pixels" /\ last'.status = "FAILED"
    BY <1>1, <1>6 DEF PixelsFail, Outcome, Outcomes, TypeOK
  <2>2. TypeOK'
    BY <1>1, <1>6, <2>1 DEF PixelsFail, TypeOK
  <2>3. CachesAreCurrent' /\ ComputationsReadCurrent' /\ LoadIsAllOrNothing'
    BY <1>6, <2>1
    DEF PixelsFail, IInv, CachesAreCurrent, CurrentGray, ComputationsReadCurrent, LoadIsAllOrNothing
  <2> QED
    BY <2>2, <2>3 DEF IInv
<1> QED
  BY <1>2, <1>3, <1>4, <1>5, <1>6

\* Every setter keeps the invariant.
LEMMA SettersKeep ==
    ASSUME IInv,
           \/ \E w \in Weights : SetGrayWeights(w)
           \/ \E enable \in BOOLEAN : SetLoadGrayscale(enable) \/ SetAutoOrient(enable)
    PROVE  IInv'
<1>1. ASSUME NEW w \in Weights, SetGrayWeights(w) PROVE IInv'
  <2>1. /\ image' \in Images /\ image'.gray = None /\ image'.gridValid = FALSE
        /\ image'.raw = image.raw /\ image'.side = image.side
    BY <1>1, DropForgets DEF IInv, TypeOK, Images, SetGrayWeights, InstallWeights
  <2>2. TypeOK'
    BY <1>1, <2>1 DEF IInv, TypeOK, Images, SetGrayWeights, InstallWeights
  <2>3. CachesAreCurrent' /\ ComputationsReadCurrent' /\ LoadIsAllOrNothing'
    BY <1>1, <2>1
    DEF IInv, SetGrayWeights, InstallWeights, CachesAreCurrent, ComputationsReadCurrent,
        LoadIsAllOrNothing
  <2> QED
    BY <2>2, <2>3 DEF IInv
<1>2. ASSUME NEW enable \in BOOLEAN, SetLoadGrayscale(enable) \/ SetAutoOrient(enable) PROVE IInv'
  <2>1. TypeOK'
    BY <1>2 DEF IInv, TypeOK, SetLoadGrayscale, SetAutoOrient
  <2>2. CachesAreCurrent' /\ ComputationsReadCurrent' /\ LoadIsAllOrNothing'
    BY <1>2
    DEF IInv, SetLoadGrayscale, SetAutoOrient, CachesAreCurrent, CurrentGray,
        ComputationsReadCurrent, LoadIsAllOrNothing
  <2> QED
    BY <2>1, <2>2 DEF IInv
<1> QED
  BY <1>1, <1>2

\* Every computation keeps the invariant.
LEMMA ComputationsKeep ==
    ASSUME IInv, ComputeOnGray \/ ComputeOnGrid \/ ComputeFails
    PROVE  IInv'
<1>1. image \in Images /\ image.raw # None /\ UNCHANGED <<config, message, last>>
  BY DEF IInv, TypeOK, Images, ComputeOnGray, ComputeOnGrid, ComputeOnGridIf, ComputeFails
<1>2. /\ CurrentGray \in Grays /\ GrayRead = CurrentGray
      /\ GotGray \in Images /\ GotGray.gray \in {None, CurrentGray}
      /\ GotGray.raw = image.raw /\ GotGray.side = image.side
      /\ GotGray.channels = image.channels
      /\ GotGray.grid = image.grid /\ GotGray.gridValid = image.gridValid
  BY <1>1, GrayIsCurrent DEF IInv
\* The image is the same but for what is derived, and that is current.
<1>3. /\ image' \in Images
      /\ image'.raw = image.raw /\ image'.side = image.side /\ image'.channels = image.channels
      /\ image'.gray \in {None, CurrentGray}
      /\ image'.gridValid => image'.grid = CurrentGray
      /\ read' \in {None, CurrentGray}
  <2>1. CASE ComputeOnGray
    BY <1>1, <1>2, <2>1 DEF ComputeOnGray, IInv, CachesAreCurrent
  <2>2. CASE ComputeOnGrid /\ image.gridValid
    BY <1>1, <1>2, <2>2 DEF ComputeOnGrid, ComputeOnGridIf, IInv, CachesAreCurrent
  <2>3. CASE ComputeOnGrid /\ ~image.gridValid
    BY <1>1, <1>2, <2>3 DEF ComputeOnGrid, ComputeOnGridIf, Images
  <2>4. CASE ComputeFails
    BY <1>1, <1>2, <2>4 DEF ComputeFails, IInv, CachesAreCurrent
  <2> QED
    BY <2>1, <2>2, <2>3, <2>4
<1>4. CurrentGray' = CurrentGray
  BY <1>1, <1>3 DEF CurrentGray, config
<1>5. TypeOK'
  BY <1>1, <1>2, <1>3 DEF IInv, TypeOK, Images, config
<1>6. CachesAreCurrent' /\ ComputationsReadCurrent'
  BY <1>1, <1>3, <1>4 DEF CachesAreCurrent, ComputationsReadCurrent
<1>7. LoadIsAllOrNothing'
  BY <1>1, <1>3 DEF IInv, LoadIsAllOrNothing
<1> QED
  BY <1>5, <1>6, <1>7 DEF IInv

\* The inductive invariant holds throughout.
THEOREM InductiveInvariant == Spec => []IInv
<1>1. IInv /\ [Next]_vars => IInv'
  <2> SUFFICES ASSUME IInv, [Next]_vars PROVE IInv'
    OBVIOUS
  <2>1. CASE UNCHANGED vars
    BY <2>1
    DEF vars, config, IInv, TypeOK, CachesAreCurrent, CurrentGray, ComputationsReadCurrent,
        LoadIsAllOrNothing
  <2> QED
    BY <2>1, LoadsKeep, SettersKeep, ComputationsKeep DEF Next
<1> QED
  BY InitInvariant, <1>1, PTL DEF Spec

\* The fields of the context keep their types, however it is used.
THEOREM TypeCorrect == Spec => []TypeOK
<1>1. IInv => TypeOK
  BY DEF IInv
<1> QED
  BY InductiveInvariant, <1>1, PTL

\* No cached gray copy and no valid grid is ever of an earlier picture or by earlier
\* weights, for any order of calls: every path that replaces the raw buffer or the
\* weights drops both.
THEOREM NothingDerivedIsStale == Spec => []CachesAreCurrent
<1>1. IInv => CachesAreCurrent
  BY DEF IInv
<1> QED
  BY InductiveInvariant, <1>1, PTL

\* Every hash is of the loaded picture by the configured weights.
THEOREM HashesAreOfTheLoadedImage == Spec => []ComputationsReadCurrent
<1>1. IInv => ComputationsReadCurrent
  BY DEF IInv
<1> QED
  BY InductiveInvariant, <1>1, PTL

\* A load shows the new image, turned upright if that was asked for, or none.
THEOREM LoadsAreAllOrNothing == Spec => []LoadIsAllOrNothing
<1>1. IInv => LoadIsAllOrNothing
  BY DEF IInv
<1> QED
  BY InductiveInvariant, <1>1, PTL

-----------------------------------------------------------------------------
(***************************************************************************)
(* FileLoad, for any files, any lengths of them, any chunk and any          *)
(* interference of the other process.  Its invariants are not inductive:    *)
(* that a load has one inode and one buffer is kept by what each place of   *)
(* it holds (Held), by what the stages before it established (Established)  *)
(* and by where the pairs a reader saw come from (Provenance).              *)
(***************************************************************************)
Opened == {"stat", "map", "alloc", "read"}
InUse  == {"decode", "scan", "release"}

\* The descriptor is open from open() to the end of the copy, on what was opened; the
\* buffer and the mapping exist from the last of these places to the release.
Held ==
    /\ pc \notin Opened => fd = NoInode
    /\ pc \in Opened => fd = opened /\ opened # NoInode
    /\ pc \notin InUse => mapped = NoInode
    /\ pc \notin InUse \cup {"read"} => heap = 0
    /\ pc = "read" => heap = size
    /\ pc \in InUse => (heap > 0 <=> mapped = NoInode)
    /\ mapped # NoInode => mapped = opened
    /\ heap > 0 => heap = size

\* What fstat() and the reads have established by then.
Established ==
    /\ pc \in (Opened \ {"stat"}) \cup InUse => opened \in Files /\ size > 0
    /\ got <= size
    /\ pc \in {"open", "stat", "map", "alloc"} => got = 0
    /\ (pc \in InUse /\ heap > 0) => got > 0

\* Where the pairs come from, and at which places there are none yet.
Provenance ==
    /\ OneFile
    /\ pc = "open" => opened = NoInode
    /\ pc \in {"open", "stat"} => bytes = {}
    /\ pc \in {"open", "decode"} \cup Opened => decoded = {} /\ scanned = {}
    /\ pc = "scan" => scanned = {}
    /\ (pc = "scan" /\ heap > 0) => decoded = bytes
    /\ (pc = "release" /\ heap > 0 /\ scanned # {}) => scanned = decoded

FileIInv == FileTypeOK /\ Held /\ Established /\ Provenance

\* The initial states satisfy the inductive invariant.
LEMMA FileInitInvariant == FileInit => FileIInv
<1> SUFFICES ASSUME FileInit PROVE FileIInv
  OBVIOUS
<1> USE FileAssumption DEF FileInit
<1>1. FileTypeOK
  BY DEF FileTypeOK, Inodes, Pairs
<1>2. Held /\ Established
  BY DEF Held, Established, Opened, InUse
<1>3. Provenance
  BY DEF Provenance, OneFile, Opened
<1> QED
  BY <1>1, <1>2, <1>3 DEF FileIInv

\* What a reader of the bytes sees comes from the inode the load opened, whether it
\* is the mapping or the copy.
LEMMA VisibleIsOpened ==
    ASSUME FileIInv, pc \in InUse
    PROVE  /\ Visible \in Pairs
           /\ \A p \in Visible : p[1] = opened
           /\ heap > 0 => Visible = bytes
<1> USE DEF FileIInv, FileTypeOK
<1>1. CASE mapped = NoInode
  BY <1>1 DEF Visible, Provenance, OneFile
<1>2. CASE mapped # NoInode
  <2>1. mapped \in Files /\ mapped = opened /\ version[mapped] \in Nat /\ ~(heap > 0)
    BY <1>2 DEF Held
  <2> QED
    BY <1>2, <2>1 DEF Visible, Pairs
<1> QED
  BY <1>1, <1>2

\* Every step keeps the types.
LEMMA FileStepTyping == FileIInv /\ [FileNext]_fileVars => FileTypeOK'
<1> SUFFICES ASSUME FileIInv, [FileNext]_fileVars PROVE FileTypeOK'
  OBVIOUS
<1> USE FileAssumption DEF FileIInv, FileTypeOK, world, memory, seen
<1>1. CASE Begin
  BY <1>1 DEF Begin, Inodes, Pairs
<1>2. CASE Open \/ OpenFails
  BY <1>2 DEF Open, OpenFails
<1>3. CASE Check \/ CheckFails
  BY <1>3 DEF Check, CheckFails, CheckFailsLeaving
<1>4. CASE Map \/ MapFails \/ Alloc
  BY <1>4 DEF Map, MapInode, MapFails, Alloc
<1>5. CASE Read
  <2>1. fd \in Files /\ size - got \in Nat
    BY <1>5 DEF Read, ReadAtMost, Held, Established, Opened
  <2>2. version[fd] \in Nat /\ length[fd] \in Nat
    BY <2>1
  <2>3. bytes' \in Pairs
    BY <1>5, <2>1, <2>2 DEF Read, ReadAtMost, Pairs
  <2>4. got' \in Nat
    BY <1>5, <2>1, <2>2 DEF Read, ReadAtMost, Least
  <2> QED
    BY <1>5, <2>3, <2>4 DEF Read, ReadAtMost
<1>6. CASE ReadInterrupted \/ ReadNothing \/ ReadError \/ ReadEnds
  BY <1>6 DEF ReadInterrupted, ReadNothing, ReadError, ReadStops, ReadEnds, ReadEndsWhen
<1>7. CASE Decode \/ Scan
  <2>1. Visible \in Pairs
    BY <1>7, VisibleIsOpened DEF Decode, Scan, ScanSeeing, InUse
  <2> QED
    BY <1>7, <2>1 DEF Decode, Scan, ScanSeeing
<1>8. CASE Release
  BY <1>8 DEF Release
<1>9. CASE Other
  BY <1>9 DEF Other, Rename, Rewrite, Inodes
<1>10. CASE UNCHANGED fileVars
  BY <1>10 DEF fileVars
<1> QED
  BY <1>1, <1>2, <1>3, <1>4, <1>5, <1>6, <1>7, <1>8, <1>9, <1>10 DEF FileNext, Load

\* Every step keeps what each place holds: the one that leaves a place hands over or
\* releases what it held.
LEMMA FileStepHeld == FileIInv /\ [FileNext]_fileVars => Held'
<1> SUFFICES ASSUME FileIInv, [FileNext]_fileVars PROVE Held'
  OBVIOUS
<1> USE FileAssumption DEF FileIInv, FileTypeOK, Held, Opened, InUse, world, memory, seen
<1>1. CASE Begin
  BY <1>1 DEF Begin
<1>2. CASE Open \/ OpenFails
  BY <1>2 DEF Open, OpenFails
<1>3. CASE Check \/ CheckFails
  BY <1>3 DEF Check, CheckFails, CheckFailsLeaving
<1>4. CASE Map \/ MapFails \/ Alloc
  BY <1>4 DEF Map, MapInode, MapFails, Alloc
<1>5. CASE Read \/ ReadInterrupted
  BY <1>5 DEF Read, ReadAtMost, ReadInterrupted
<1>6. CASE ReadNothing \/ ReadError
  BY <1>6 DEF ReadNothing, ReadError, ReadStops
<1>7. CASE ReadEnds
  BY <1>7 DEF ReadEnds, ReadEndsWhen, Established
<1>8. CASE Decode \/ Scan
  BY <1>8 DEF Decode, Scan, ScanSeeing
<1>9. CASE Release
  BY <1>9 DEF Release
<1>10. CASE Other
  BY <1>10 DEF Other, Rename, Rewrite
<1>11. CASE UNCHANGED fileVars
  BY <1>11 DEF fileVars
<1> QED
  BY <1>1, <1>2, <1>3, <1>4, <1>5, <1>6, <1>7, <1>8, <1>9, <1>10, <1>11 DEF FileNext, Load

\* Every step keeps what was established: no read goes past the size fstat() gave, and
\* the copy is not handed over before its first byte.
LEMMA FileStepEstablished == FileIInv /\ [FileNext]_fileVars => Established'
<1> SUFFICES ASSUME FileIInv, [FileNext]_fileVars PROVE Established'
  OBVIOUS
<1> USE FileAssumption DEF FileIInv, FileTypeOK, Held, Established, Opened, InUse, world, memory, seen
<1>1. CASE Begin
  BY <1>1 DEF Begin
<1>2. CASE Open \/ OpenFails
  BY <1>2 DEF Open, OpenFails
<1>3. CASE Check \/ CheckFails
  <2>1. CASE Check
    <3>1. fd \in Files /\ size' = length[fd] /\ length[fd] \in Nat /\ pc = "stat"
      BY <2>1 DEF Check
    <3>2. got' <= size'
      BY <2>1, <3>1 DEF Check
    <3> QED
      BY <2>1, <3>1, <3>2 DEF Check
  <2>2. CASE CheckFails
    BY <2>2 DEF CheckFails, CheckFailsLeaving
  <2> QED
    BY <1>3, <2>1, <2>2
<1>4. CASE Map \/ MapFails \/ Alloc
  BY <1>4 DEF Map, MapInode, MapFails, Alloc
<1>5. CASE Read
  <2>1. fd \in Files /\ length[fd] \in Nat
    BY <1>5 DEF Read, ReadAtMost
  <2>2. got' <= size
    BY <1>5, <2>1 DEF Read, ReadAtMost, Least
  <2> QED
    BY <1>5, <2>2 DEF Read, ReadAtMost
<1>6. CASE ReadInterrupted \/ ReadNothing \/ ReadError
  BY <1>6 DEF ReadInterrupted, ReadNothing, ReadError, ReadStops
<1>7. CASE ReadEnds
  BY <1>7 DEF ReadEnds, ReadEndsWhen
<1>8. CASE Decode \/ Scan
  BY <1>8 DEF Decode, Scan, ScanSeeing
<1>9. CASE Release
  BY <1>9 DEF Release
<1>10. CASE Other
  BY <1>10 DEF Other, Rename, Rewrite
<1>11. CASE UNCHANGED fileVars
  BY <1>11 DEF fileVars
<1> QED
  BY <1>1, <1>2, <1>3, <1>4, <1>5, <1>6, <1>7, <1>8, <1>9, <1>10, <1>11 DEF FileNext, Load

\* Every step keeps where the pairs come from: a read takes them from the descriptor,
\* and a reader of the bytes from what the load holds.
LEMMA FileStepProvenance == FileIInv /\ [FileNext]_fileVars => Provenance'
<1> SUFFICES ASSUME FileIInv, [FileNext]_fileVars PROVE Provenance'
  OBVIOUS
<1> USE FileAssumption DEF FileIInv, Provenance, Opened, world, memory, seen
<1>1. CASE Begin
  BY <1>1 DEF Begin, OneFile
<1>2. CASE Open \/ OpenFails
  BY <1>2 DEF Open, OpenFails, OneFile
<1>3. CASE Check \/ CheckFails
  BY <1>3 DEF Check, CheckFails, CheckFailsLeaving, OneFile
<1>4. CASE Map \/ MapFails \/ Alloc
  BY <1>4 DEF Map, MapInode, MapFails, Alloc, OneFile
<1>5. CASE Read
  <2>1. fd = opened
    BY <1>5 DEF Read, ReadAtMost, Held
  <2> QED
    BY <1>5, <2>1 DEF Read, ReadAtMost, OneFile
<1>6. CASE ReadInterrupted \/ ReadNothing \/ ReadError \/ ReadEnds
  BY <1>6 DEF ReadInterrupted, ReadNothing, ReadError, ReadStops, ReadEnds, ReadEndsWhen, OneFile
<1>7. CASE Decode
  BY <1>7, VisibleIsOpened DEF Decode, OneFile, InUse
<1>8. CASE Scan
  BY <1>8, VisibleIsOpened DEF Scan, ScanSeeing, OneFile, InUse
<1>9. CASE Release
  BY <1>9 DEF Release, OneFile
<1>10. CASE Other
  BY <1>10 DEF Other, Rename, Rewrite, OneFile
<1>11. CASE UNCHANGED fileVars
  BY <1>11 DEF fileVars, OneFile
<1> QED
  BY <1>1, <1>2, <1>3, <1>4, <1>5, <1>6, <1>7, <1>8, <1>9, <1>10, <1>11 DEF FileNext, Load

\* The inductive invariant holds of every reachable state.
THEOREM FileInvariant == FileSpec => []FileIInv
<1>1. FileIInv /\ [FileNext]_fileVars => FileIInv'
  BY FileStepTyping, FileStepHeld, FileStepEstablished, FileStepProvenance DEF FileIInv
<1> QED
  BY FileInitInvariant, <1>1, PTL DEF FileSpec

\* The variables of a load keep their types, and got, the C code's size_t, is never
\* negative.
THEOREM FileTypeCorrect == FileSpec => []FileTypeOK
BY FileInvariant, PTL DEF FileIInv

\* ph_open_file_bytes() gives back the descriptor, the buffer and the mapping on every
\* path that fails, and ph_release_file_bytes() on the one that does not.
THEOREM NothingIsLeaked == FileSpec => []NothingLeaks
<1>1. FileIInv => NothingLeaks
  BY DEF FileIInv, Held, NothingLeaks, Opened, InUse
<1> QED
  BY <1>1, FileInvariant, PTL

\* ph_read_open_file() stays inside the buffer it allocated from fstat()'s answer,
\* whatever the file's length has become, and hands over at least one byte.
THEOREM BufferIsKept == FileSpec => []BufferHolds
<1>1. FileIInv => BufferHolds
  BY DEF FileIInv, Held, Established, BufferHolds, InUse
<1> QED
  BY <1>1, FileInvariant, PTL

\* A rename over the path never makes a load mix two files, and with the heap copy the
\* decoder and the orientation scan see the same bytes.
THEOREM OneSnapshotOfACopy == FileSpec => []CopyIsOneSnapshot
<1>1. FileIInv => CopyIsOneSnapshot
  BY DEF FileIInv, Provenance, CopyIsOneSnapshot
<1> QED
  BY <1>1, FileInvariant, PTL
=============================================================================
