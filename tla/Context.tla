------------------------------ MODULE Context ------------------------------
(***************************************************************************)
(* A ph_context_t from ph_create() to ph_free(): the loaded image, the gray *)
(* copy and the area grid derived from it on demand, and the diagnostic     *)
(* message (src/core.c, the setters of src/config.c they depend on,         *)
(* ph_get_gray() of src/image/color.c, ph_area_downscale() of               *)
(* src/image/resize.c).                                                     *)
(*                                                                         *)
(* Pixels are abstracted to their origin: a raw buffer is the picture it    *)
(* was decoded from and whether it is upright; a gray copy or a grid is the *)
(* raw buffer and the weights it was computed with.                         *)
(***************************************************************************)
EXTENDS Integers

CONSTANTS
    Pictures,   \* what the caller loads, records of AllPictures
    Weights,    \* the luminance weights the caller installs
    None        \* a NULL buffer, or nothing

AllPictures == [channels : {1, 3, 4}, side : Nat \ {0}, tagged : BOOLEAN]

\* What is remembered of a load.
Outcomes == [entry : {"encoded", "pixels"}, status : {"FAILED", "SUCCESS"}, upright : BOOLEAN]

ASSUME ContextAssumption ==
    /\ Pictures \subseteq AllPictures
    /\ None \notin Weights
    /\ None \notin [picture : Pictures, upright : BOOLEAN]
    /\ None \notin [of : [picture : Pictures, upright : BOOLEAN], by : Weights \cup {None}]
    /\ None \notin Outcomes

VARIABLES
    image,      \* ctx->image: raw, side (width and height), channels,
                \* gray (gray_cache), grid (area_grid) and gridValid
    weights,    \* config.gray_r, gray_g, gray_b
    loadGray,   \* config.load_grayscale
    autoOrient, \* config.auto_orient
    message,    \* last_error is not empty
    last,       \* history: the last load
    read        \* history: what the last call, if a computation, has read

config == <<weights, loadGray, autoOrient>>
vars   == <<image, config, message, last, read>>

Grid == 32     \* PH_AREA_GRID

Raws  == [picture : Pictures, upright : BOOLEAN]
Grays == [of : Raws, by : Weights \cup {None}]

Empty == [raw |-> None, side |-> 0, channels |-> 0,
          gray |-> None, grid |-> None, gridValid |-> FALSE]

\* Fault: the gray copy goes, the grid stays valid.
DropGrayOnly(i) == [i EXCEPT !.gray = None]

\* ph_drop_gray_cache()
Drop(i) == [i EXCEPT !.gray = None, !.gridValid = FALSE]

\* ph_reset_loaded_image()
Reset(i) == [Drop(i) EXCEPT !.raw = None, !.side = 0, !.channels = 0]

Install(i, raw, channels) ==
    [i EXCEPT !.raw = raw, !.side = raw.picture.side, !.channels = channels]

\* ph_resolve_alpha(): an alpha channel is gone once the image is installed.
Opaque(channels) == IF channels = 4 THEN 3 ELSE channels

Outcome(entry, status, upright) == [entry |-> entry, status |-> status, upright |-> upright]

-----------------------------------------------------------------------------
\* ph_load_from_file() and ph_load_from_memory() refuse their arguments, cannot
\* read the file or cannot decode it.  The old image is gone first; only a failure
\* past the argument check has a text.
LoadFails(explained) ==
    /\ image' = Reset(image)
    /\ message' = explained
    /\ last' = Outcome("encoded", "FAILED", autoOrient)
    /\ read' = None
    /\ UNCHANGED config

\* ph_load_encoded_bytes(): decoded (straight to gray if the configuration says
\* so), made opaque, and turned upright if asked to.
Decoded(p, upright) ==
    Install(Reset(image), [picture |-> p, upright |-> upright],
            IF loadGray THEN 1 ELSE Opaque(p.channels))

LoadEncoded(p) ==
    /\ image' = Decoded(p, autoOrient \/ ~p.tagged)
    /\ message' = FALSE
    /\ last' = Outcome("encoded", "SUCCESS", autoOrient)
    /\ read' = None
    /\ UNCHANGED config

\* ph_apply_exif_orientation() could not allocate.  The load fails as a whole:
\* the decoded image goes.  Fault: it stays, in its stored orientation.
OrientFailsLeaving(p, left) ==
    /\ autoOrient
    /\ p.tagged
    /\ image' = left
    /\ message' = TRUE
    /\ last' = Outcome("encoded", "FAILED", autoOrient)
    /\ read' = None
    /\ UNCHANGED config

OrientFailsKeeping(p) == OrientFailsLeaving(p, Decoded(p, FALSE))
OrientFails(p)        == OrientFailsLeaving(p, Reset(Decoded(p, FALSE)))

\* ph_load_from_pixels() fails: the message is cleared, the image is kept with
\* everything derived from it.
PixelsFail ==
    /\ message' = FALSE
    /\ last' = Outcome("pixels", "FAILED", autoOrient)
    /\ read' = None
    /\ UNCHANGED <<image, config>>

\* ph_load_from_pixels(): the new buffer is complete before the old image goes.
\* Fault: what was derived from the old image stays.
ReplacePixels(p, i) ==
    /\ image' = Install(i, [picture |-> p, upright |-> TRUE], Opaque(p.channels))
    /\ message' = FALSE
    /\ last' = Outcome("pixels", "SUCCESS", autoOrient)
    /\ read' = None
    /\ UNCHANGED config

ReplacePixelsOnly(p) == ReplacePixels(p, image)
LoadFromPixels(p)    == ReplacePixels(p, Drop(image))

-----------------------------------------------------------------------------
\* ph_context_set_gray_weights() with valid weights.  Fault: what was computed
\* with the old ones stays.
InstallWeights(w, i) ==
    /\ weights' = w
    /\ image' = i
    /\ read' = None
    /\ UNCHANGED <<loadGray, autoOrient, message, last>>

SetWeightsOnly(w) == InstallWeights(w, image)
SetGrayWeights(w) == InstallWeights(w, Drop(image))

SetLoadGrayscale(enable) ==
    /\ loadGray' = enable
    /\ read' = None
    /\ UNCHANGED <<image, weights, autoOrient, message, last>>

SetAutoOrient(enable) ==
    /\ autoOrient' = enable
    /\ read' = None
    /\ UNCHANGED <<image, weights, loadGray, message, last>>

-----------------------------------------------------------------------------
\* What the gray image must be: of the loaded pixels, by the configured weights.
CurrentGray == [of |-> image.raw, by |-> IF image.channels = 1 THEN None ELSE weights]

\* ph_get_gray(): the pixels themselves, the cached copy, or a new copy.
CachesGray == image.channels # 1
GotGray    == IF CachesGray /\ image.gray = None
              THEN [image EXCEPT !.gray = CurrentGray]
              ELSE image
GrayRead   == IF CachesGray THEN GotGray.gray ELSE [of |-> image.raw, by |-> None]

\* A computation on the gray image; also ph_area_downscale() when the shared grid
\* does not serve the image or the target size.
ComputeOnGray ==
    /\ image.raw # None
    /\ image' = GotGray
    /\ read' = GrayRead
    /\ UNCHANGED <<config, message, last>>

\* ph_area_downscale() through the shared grid, built on its first use.  Fault: a
\* grid that was built once is taken for valid.
ComputeOnGridIf(valid) ==
    /\ image.raw # None
    /\ image.side >= Grid
    /\ image' = IF valid THEN GotGray
                ELSE [GotGray EXCEPT !.grid = GrayRead, !.gridValid = TRUE]
    /\ read' = image'.grid
    /\ UNCHANGED <<config, message, last>>

ComputeOnOldGrid == ComputeOnGridIf(image.grid # None)
ComputeOnGrid    == ComputeOnGridIf(image.gridValid)

\* The gray copy or the sums could not be allocated; a copy made is kept.
ComputeFails ==
    /\ image.raw # None
    /\ \/ CachesGray /\ image.gray = None /\ UNCHANGED image
       \/ image' = GotGray
    /\ read' = None
    /\ UNCHANGED <<config, message, last>>

-----------------------------------------------------------------------------
\* ph_create(); any of the weights may be the defaults.
Init ==
    /\ image = Empty
    /\ weights \in Weights
    /\ loadGray = FALSE
    /\ autoOrient = TRUE
    /\ message = FALSE
    /\ last = None
    /\ read = None

Next ==
    \/ \E explained \in BOOLEAN : LoadFails(explained)
    \/ \E p \in Pictures : LoadEncoded(p) \/ OrientFails(p) \/ LoadFromPixels(p)
    \/ PixelsFail
    \/ \E w \in Weights : SetGrayWeights(w)
    \/ \E enable \in BOOLEAN : SetLoadGrayscale(enable) \/ SetAutoOrient(enable)
    \/ ComputeOnGray
    \/ ComputeOnGrid
    \/ ComputeFails

Spec == Init /\ [][Next]_vars

-----------------------------------------------------------------------------
\* The fields of the context keep their types.
TypeOK ==
    /\ image \in [raw : Raws \cup {None}, side : Nat, channels : {0, 1, 3},
                  gray : Grays \cup {None}, grid : Grays \cup {None}, gridValid : BOOLEAN]
    /\ weights \in Weights
    /\ loadGray \in BOOLEAN /\ autoOrient \in BOOLEAN /\ message \in BOOLEAN
    /\ last \in Outcomes \cup {None}
    /\ read \in Grays \cup {None}

\* Whatever order the caller loads images, fails to load them, changes the weights
\* and computes in: a cached gray copy and a valid grid are those of the image
\* that is loaded, made with the weights that are configured.
CachesAreCurrent ==
    /\ image.gray # None => image.raw # None /\ image.gray = CurrentGray
    /\ image.gridValid => image.raw # None /\ image.grid = CurrentGray

\* Every computation reads the current image: no hash is ever of an earlier
\* picture or by earlier weights.
ComputationsReadCurrent == read # None => read = CurrentGray

\* After a load from a file or a buffer the context shows the new image, upright
\* if that was asked for, or no image at all; the message is of this load and
\* empty when it succeeded (libphash.h, ph_get_last_error_message()).
LoadIsAllOrNothing ==
    /\ (last # None /\ last.status = "SUCCESS") =>
          /\ image.raw # None
          /\ (last.entry = "encoded" /\ last.upright) =>
                 image.raw.upright \/ ~image.raw.picture.tagged
    /\ (last # None /\ last.entry = "encoded" /\ last.status = "FAILED") =>
          image.raw = None /\ image.side = 0 /\ image.gray = None /\ ~image.gridValid
    /\ message => last # None /\ last.status = "FAILED" /\ last.entry = "encoded"
=============================================================================
