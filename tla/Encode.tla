------------------------------- MODULE Encode -------------------------------
(***************************************************************************)
(* How a video is put together on the host at hand: what preflight turns    *)
(* off at startup, the graph Encode builds hours later out of what is left, *)
(* the second try without a caption, and the running time the destination   *)
(* is told.  Between the two the plate preview may still arrive, and may be *)
(* half written when ffmpeg opens it.                                       *)
(*                                                                         *)
(* Text, geometry and codec arguments are left out.  A filter is its name;  *)
(* format, setsar, crop, scale, pad and fps are in every ffmpeg, so a build *)
(* differs in Optional only.  Holds are whole seconds.  An ffmpeg that      *)
(* fails for reasons of its own (a full disk) is FinParkEncode in Capture.  *)
(***************************************************************************)
EXTENDS Integers

Optional == {"drawtext", "sendcmd", "tpad", "concat"}

CONSTANTS
    Builds,         \* the filter sets an ffmpeg of the host may have
    FPS,
    MaxFrames,      \* bound: frames of the recording
    MaxHold         \* bound: seconds an end is held

ASSUME EncodeAssumption ==
    /\ Builds \subseteq SUBSET Optional
    /\ FPS \in Nat \ {0}
    /\ MaxFrames \in Nat /\ MaxHold \in Nat

VARIABLES
    pc,         \* "boot", "record", "encode", "tell" or an outcome
    host,       \* the ffmpeg build, and whether staging is writable
    cfg,        \* Overlay, whether there is a font, Crop, Intro and Tail
    frames,     \* frames of the session, all on disk
    listed,     \* its layer list is complete
    cover,      \* there is a cover image
    preview,    \* "none", "fetching", "torn" or "whole"
    opts,       \* EncodeOptions
    sized,      \* targetSize knew the size of a frame
    length,     \* of the video, in frames; 0 when there is none
    told,       \* the duration sent along with it
    late        \* history: the encode began before the preview was settled

vars == <<pc, host, cfg, frames, listed, cover, preview, opts, sized, length, told, late>>

Holds == 0..MaxHold

Captions == {"none", "title", "counter"}

Outcomes == {"refused", "parked", "told"}

TypeOK ==
    /\ pc \in {"boot", "record", "encode", "tell"} \cup Outcomes
    /\ host \in [ffmpeg : BOOLEAN, writable : BOOLEAN, filters : Builds]
    /\ cfg \in [overlay : BOOLEAN, font : BOOLEAN, crop : BOOLEAN,
                intro : Holds, tail : Holds]
    /\ frames \in 1..MaxFrames
    /\ listed \in BOOLEAN
    /\ cover \in BOOLEAN
    /\ preview \in {"none", "fetching", "torn", "whole"}
    /\ opts \in [crop : BOOLEAN, intro : Holds, outro : Holds, tail : Holds,
                 overlay : Captions]
    /\ sized \in BOOLEAN
    /\ length \in Nat
    /\ late \in BOOLEAN
    /\ told \in 0..(MaxFrames + 2 * MaxHold)

(* No options yet. *)
Unset == [crop |-> FALSE, intro |-> 0, outro |-> 0, tail |-> 0, overlay |-> "none"]

(* New: the font is resolved when captions are on.                          *)
Init ==
    /\ pc = "boot"
    /\ host \in [ffmpeg : BOOLEAN, writable : BOOLEAN, filters : Builds]
    /\ cfg \in [overlay : BOOLEAN, font : BOOLEAN, crop : BOOLEAN,
                intro : Holds, tail : Holds]
    /\ cfg.font => cfg.overlay
    /\ frames \in 1..MaxFrames
    /\ listed \in BOOLEAN
    /\ cover \in BOOLEAN
    /\ preview = "none"
    /\ opts = Unset
    /\ sized = FALSE
    /\ length = 0
    /\ told = 0
    /\ late = FALSE

-----------------------------------------------------------------------------
(* captionChecks: what the build cannot draw is turned off.  The tail asks  *)
(* for tpad only.                                                           *)
CaptionChecks(sup) ==
    [overlay |-> cfg.overlay,
     font    |-> cfg.font /\ {"drawtext", "sendcmd"} \subseteq sup,
     crop    |-> cfg.crop,
     intro   |-> IF "concat" \in sup THEN cfg.intro ELSE 0,
     tail    |-> IF "tpad" \in sup THEN cfg.tail ELSE 0]

(* Detect: the build's filters, or none when listing them failed. *)
Detect == {host.filters, {}}

(* preflight: without ffmpeg or a writable staging tree the service does    *)
(* not start; everything else degrades.  begin starts the preview fetch     *)
(* when an intro is left.                                                   *)
Preflight ==
    /\ pc = "boot"
    /\ IF host.ffmpeg /\ host.writable
       THEN /\ \E sup \in Detect : cfg' = CaptionChecks(sup)
            /\ pc' = "record"
            /\ preview' = IF cfg'.intro > 0 THEN "fetching" ELSE "none"
       ELSE pc' = "refused" /\ UNCHANGED <<cfg, preview>>
    /\ UNCHANGED <<host, frames, listed, cover, opts, sized, length, told, late>>

(* fetchPreview: nothing to be had, or WriteFile, which is not atomic. *)
FetchPreview ==
    /\ pc \notin Outcomes
    /\ \/ preview = "fetching" /\ preview' \in {"none", "torn"}
       \/ preview = "torn" /\ preview' = "whole"
    /\ UNCHANGED <<pc, host, cfg, frames, listed, cover, opts, sized, length, told, late>>

(* PreviewPath: the file is there, whole or not. *)
PreviewPath == preview \in {"torn", "whole"}

(* overlay: off, the title alone when the layer list is short, or both. *)
Overlay ==
    IF ~cfg.overlay \/ ~cfg.font THEN "none"
    ELSE IF listed THEN "counter" ELSE "title"

(* encode: the options, taken once. *)
StartEncode ==
    /\ pc = "record"
    /\ opts' = [crop    |-> cfg.crop,
                intro   |-> IF PreviewPath THEN cfg.intro ELSE 0,
                outro   |-> IF cover THEN cfg.tail ELSE 0,
                tail    |-> cfg.tail,
                overlay |-> Overlay]
    /\ late' = (preview \in {"fetching", "torn"})
    /\ pc' = "encode"
    /\ UNCHANGED <<host, cfg, frames, listed, cover, preview, sized, length, told>>

-----------------------------------------------------------------------------
(* camera.Encode.                                                          *)

(* targetSize: the crop's, or what ffprobe makes of the first frame, if it  *)
(* is there and can. *)
TargetSize == IF opts.crop THEN {TRUE} ELSE BOOLEAN

(* Seconds of stills: none become inputs when the frame cannot be sized. *)
Stills(known) == IF known THEN opts.intro + opts.outro ELSE 0

(* The tail as it would be without the still that replaces it. *)
TailAlways == opts.tail

(* The cloned last frame, when no finished shot ends the video. *)
Tail == IF opts.outro > 0 THEN 0 ELSE opts.tail

OverlayFilters ==
    CASE opts.overlay = "none"    -> {}
      [] opts.overlay = "title"   -> {"drawtext"}
      [] opts.overlay = "counter" -> {"drawtext", "sendcmd"}

(* buildGraph: the optional filters it names. *)
BuildGraph(known) ==
    OverlayFilters
    \cup (IF Tail > 0 THEN {"tpad"} ELSE {})
    \cup (IF Stills(known) > 0 THEN {"concat"} ELSE {})

(* Frames of the video the graph describes. *)
Length(known) == frames + FPS * (Tail + Stills(known))

(* ffmpeg refuses a graph with a filter it lacks.  It may also refuse a     *)
(* caption's text or a preview that is half there. *)
Refuses(known) == ~(BuildGraph(known) \subseteq host.filters)

MayRefuse(known) ==
    \/ opts.overlay # "none"
    \/ known /\ opts.intro > 0 /\ preview = "torn"

EncodeRuns(known) ==
    /\ ~Refuses(known)
    /\ length' = Length(known)
    /\ pc' = "tell"
    /\ UNCHANGED opts

(* Giving up at the first failure. *)
EncodeFailsOnce(known) ==
    /\ Refuses(known) \/ MayRefuse(known)
    /\ pc' = "parked"
    /\ UNCHANGED <<opts, length>>

(* encode: a failure with a caption is followed by a try without one, with  *)
(* the other options as they were; a failure without one parks the job.     *)
EncodeFails(known) ==
    /\ Refuses(known) \/ MayRefuse(known)
    /\ IF opts.overlay # "none"
       THEN opts' = [opts EXCEPT !.overlay = "none"] /\ UNCHANGED pc
       ELSE pc' = "parked" /\ UNCHANGED opts
    /\ UNCHANGED length

Encode ==
    /\ pc = "encode"
    /\ sized' \in TargetSize
    /\ EncodeRuns(sized') \/ EncodeFails(sized')
    /\ UNCHANGED <<host, cfg, frames, listed, cover, preview, told, late>>

AtLeastOne(n) == IF n > 1 THEN n ELSE 1

(* Seconds per frame for frames per second. *)
DurationTimesFPS ==
    AtLeastOne(frames * FPS + cfg.tail + (IF PreviewPath THEN cfg.intro ELSE 0))

(* duration, in whole seconds: the footage and what cfg holds at the ends,  *)
(* the preview looked up again.                                             *)
Duration ==
    AtLeastOne((frames \div FPS) + cfg.tail + (IF PreviewPath THEN cfg.intro ELSE 0))

Tell ==
    /\ pc = "tell"
    /\ told' = Duration
    /\ pc' = "told"
    /\ UNCHANGED <<host, cfg, frames, listed, cover, preview, opts, sized, length, late>>

Rest == pc \in Outcomes /\ UNCHANGED vars

Next == Preflight \/ FetchPreview \/ StartEncode \/ Encode \/ Tell \/ Rest

Spec == Init /\ [][Next]_vars

-----------------------------------------------------------------------------
(* Decoration never costs the footage: once preflight let the service       *)
(* start, no caption, held end or missing filter parks the recording        *)
(* (preflight: "turns off whatever this ffmpeg cannot draw"; encode's       *)
(* second try).  A preview half written when ffmpeg opens it still may.     *)
FootageSurvives == pc = "parked" => late

(* The running time the destination is told is the video's (duration: "so a *)
(* player's scrubber matches the file it is scrubbing"), when the frames    *)
(* could be sized and the preview was settled before the encode.            *)
DurationHonest ==
    pc = "told" /\ sized /\ ~late => told = AtLeastOne(length \div FPS)
=============================================================================
