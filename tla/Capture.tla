------------------------------ MODULE Capture ------------------------------
(***************************************************************************)
(* The frames of one print, from the layer change that asks for a frame to *)
(* the video made of them: handle's layer test, capture's goroutine,       *)
(* camera.Grab, session.Save, and finalize up to the end of the encode,    *)
(* with every restart in between.                                          *)
(*                                                                         *)
(* Three threads share the Session: the MQTT callback (one at a time,      *)
(* SetOrderMatters), at most one capture goroutine (the capturing flag)    *)
(* and the finalizer.  Session is the in-memory copy, saved the last       *)
(* state.json that was written, and files the frame-%05d.jpg on disk.      *)
(***************************************************************************)
EXTENDS Integers, Sequences

CONSTANTS
    MaxLayer,       \* layers of the print
    MaxFrame,       \* bound: frame numbers modelled
    MinFrames,      \* cfg.MinFrames
    MaxRestarts,    \* bound: crashes and shutdowns
    Worlds          \* the surroundings to consider

ASSUME CaptureAssumption ==
    /\ MaxLayer \in Nat /\ MaxFrame \in Nat /\ MinFrames \in Nat
    /\ MaxRestarts \in Nat
    /\ Worlds \subseteq SUBSET {"slow", "full", "legacy", "lag"}

(* What a frame file holds: nothing, a half-written JPEG, or a picture,    *)
(* told by the layer the printer was on when it was taken.  Fresh stands   *)
(* for the final cover grab.                                               *)
NoFile == 0
Torn   == -1
Fresh  == -2

VARIABLES
    world,      \* what may go wrong in this run; never changes
    layer,      \* printer: the layer it is on, 0 before the first
    over,       \* printer: the job has ended
    proc,       \* "up", "stopping" (shutdownCtx done) or "down"
    session,    \* the Session in memory: frames, layers, last
    holder,     \* who has it: "current", "final", or "none"
    grab,       \* the capture goroutine: pc, layer, dest
    fin,        \* the finalizer: pc, skip, room, lines
    files,      \* the frame files in the staging directory
    saved,      \* state.json
    video,      \* the last encode: footage, lines, cover, frames counted
    outcome,    \* "staged", "discarded", "parked" or "delivered"
    restarts

sys == <<layer, over, proc, session, holder, grab, fin, files, saved, video,
         outcome, restarts>>
vars == <<world, sys>>

DrainTimesOut == "slow" \in world   \* a grab may outlast captureDrainLimit
SaveFails     == "full" \in world   \* Save may fail; its error is discarded
Legacy        == "legacy" \in world \* state.json may predate the Layers list
Lags          == "lag" \in world    \* reports may be behind the printer

Frames == 1..MaxFrame

Sessions == [frames : 0..MaxFrame, layers : Seq(1..MaxLayer), last : -1..MaxLayer]

NoGrab == [pc |-> "idle", layer |-> 0, dest |-> 0]

NoFin == [pc |-> "idle", skip |-> FALSE, room |-> 0, lines |-> <<>>, cover |-> NoFile]

NoVideo == [footage |-> <<>>, lines |-> <<>>, cover |-> NoFile, frames |-> 0]

Covers == {NoFile, Torn, Fresh} \cup 1..MaxLayer

TypeOK ==
    /\ world \in Worlds
    /\ layer \in 0..MaxLayer
    /\ over \in BOOLEAN
    /\ proc \in {"up", "stopping", "down"}
    /\ session \in Sessions
    /\ holder \in {"current", "final", "none"}
    /\ grab \in [pc : {"idle", "delay", "grab", "writing", "wrote"},
                 layer : 0..MaxLayer, dest : 0..MaxFrame]
    /\ fin \in [pc : {"idle", "drain", "cover", "judge", "overlay", "fill", "encode",
                      "deliver"},
                skip : BOOLEAN, room : 0..MaxFrame, lines : Seq(1..MaxLayer),
                cover : Covers]
    /\ files \in [Frames -> {NoFile, Torn} \cup 1..MaxLayer]
    /\ saved \in Sessions
    /\ video \in [footage : Seq({Torn} \cup 1..MaxLayer), lines : Seq(1..MaxLayer),
                  cover : Covers, frames : 0..MaxFrame]
    /\ outcome \in {"staged", "discarded", "parked", "delivered"}
    /\ restarts \in 0..MaxRestarts

(* A session just created (Create), or one an older build left with a      *)
(* frame and no layer list, whose job is being resumed.                    *)
Init ==
    /\ world \in Worlds
    /\ over = FALSE
    /\ proc = "up"
    /\ \/ /\ layer = 0
          /\ session = [frames |-> 0, layers |-> <<>>, last |-> -1]
          /\ files = [n \in Frames |-> NoFile]
       \/ /\ Legacy /\ MaxLayer > 0 /\ MaxFrame > 0
          /\ layer = 1
          /\ session = [frames |-> 1, layers |-> <<>>, last |-> 1]
          /\ files = [n \in Frames |-> IF n = 1 THEN 1 ELSE NoFile]
    /\ saved = session
    /\ holder = "current"
    /\ grab = NoGrab
    /\ fin = NoFin
    /\ video = NoVideo
    /\ outcome = "staged"
    /\ restarts = 0

-----------------------------------------------------------------------------
(* The printer.                                                            *)

NextLayer ==
    /\ ~over
    /\ layer < MaxLayer
    /\ layer' = layer + 1
    /\ UNCHANGED <<over, proc, session, holder, grab, fin, files, saved, video,
                   outcome, restarts>>

EndJob ==
    /\ ~over
    /\ over' = TRUE
    /\ UNCHANGED <<layer, proc, session, holder, grab, fin, files, saved, video,
                   outcome, restarts>>

-----------------------------------------------------------------------------
(* Session.Save: atomic by rename, and its error ignored by every caller.  *)
Save(s) == saved' = s \/ (SaveFails /\ saved' = saved)

(* A layer test that also fires before the first layer. *)
ChangedLayerZero(l, last) == l # last

changedLayer(l, last) == l # last /\ l > 0

(* The layer a report names: the printer's, or one it has left by the time  *)
(* the report is handled.  Reports come in order.                           *)
Reported == IF Lags THEN {l \in 0..layer : l >= session.last} ELSE {layer}

(* handle, RUNNING with an open session, on a new layer: LastLayer is saved *)
(* first, then capture starts the goroutine unless one is in flight or the  *)
(* disk is below the free-space floor.                                      *)
HandleLayer ==
    /\ proc # "down"
    /\ holder = "current"
    /\ over => Lags
    /\ \E l \in Reported :
          /\ changedLayer(l, session.last)
          /\ session' = [session EXCEPT !.last = l]
          /\ Save(session')
          /\ \/ UNCHANGED grab
             \/ /\ grab.pc = "idle"
                /\ session.frames < MaxFrame
                /\ grab' = [pc |-> "delay", layer |-> l, dest |-> 0]
    /\ UNCHANGED <<layer, over, proc, holder, fin, files, video, outcome, restarts>>

(* The session leaves current and nobody is told. *)
HandleEndForgets ==
    /\ proc # "down" /\ holder = "current" /\ over
    /\ holder' = "none"
    /\ UNCHANGED <<layer, over, proc, session, grab, fin, files, saved, video, outcome,
                   restarts>>

(* handle on FINISH, FAILED or IDLE, or on another job RUNNING (skip): the  *)
(* session leaves current and a finalizer starts on it.                     *)
HandleEnd ==
    /\ proc # "down"
    /\ holder = "current"
    /\ over
    /\ holder' = "final"
    /\ \E skip \in BOOLEAN : fin' = [NoFin EXCEPT !.pc = "drain", !.skip = skip]
    /\ UNCHANGED <<layer, over, proc, session, grab, files, saved, video, outcome,
                   restarts>>

-----------------------------------------------------------------------------
(* The capture goroutine.                                                  *)

(* Shutdown during CAPTURE_DELAY: the goroutine returns. *)
CaptureAbandon ==
    /\ grab.pc = "delay"
    /\ proc = "stopping"
    /\ grab' = NoGrab
    /\ UNCHANGED <<layer, over, proc, session, holder, fin, files, saved, video,
                   outcome, restarts>>

(* Naming the frame after the layer, which FramePath's comment forbids. *)
FramePathByLayer(s) == IF s.last \in Frames THEN s.last ELSE 1

FramePath(s) == s.frames + 1

CaptureShoot ==
    /\ grab.pc = "delay"
    /\ proc # "down"
    /\ grab' = [grab EXCEPT !.pc = "grab", !.dest = FramePath(session)]
    /\ UNCHANGED <<layer, over, proc, session, holder, fin, files, saved, video,
                   outcome, restarts>>

(* The frame directory is gone once the finalizer discarded or parked it. *)
Staged == outcome = "staged"

(* ffmpeg -y truncates the destination and starts to write. *)
GrabOpens ==
    /\ grab.pc = "grab"
    /\ proc # "down"
    /\ Staged
    /\ files' = [files EXCEPT ![grab.dest] = Torn]
    /\ grab' = [grab EXCEPT !.pc = "writing"]
    /\ UNCHANGED <<layer, over, proc, session, holder, fin, saved, video, outcome,
                   restarts>>

(* The picture shows what is on the bed now: the printer has gone on        *)
(* through CAPTURE_DELAY and for as long as the grab took.                  *)
GrabDone ==
    /\ grab.pc = "writing"
    /\ proc # "down"
    /\ Staged
    /\ files' = [files EXCEPT ![grab.dest] = layer]
    /\ grab' = [grab EXCEPT !.pc = "wrote"]
    /\ UNCHANGED <<layer, over, proc, session, holder, fin, saved, video, outcome,
                   restarts>>

(* Refused, timed out, killed by shutdown, or no directory: Grab removes    *)
(* what it wrote and the goroutine returns.                                 *)
GrabFails ==
    /\ grab.pc \in {"grab", "writing"}
    /\ proc # "down"
    /\ files' = [files EXCEPT ![grab.dest] = NoFile]
    /\ grab' = NoGrab
    /\ UNCHANGED <<layer, over, proc, session, holder, fin, saved, video, outcome,
                   restarts>>

Counted(s, l) ==
    [frames |-> s.frames + 1, layers |-> Append(s.layers, l), last |-> s.last]

(* Noting the layer the printer has reached by now. *)
CaptureCountOnly ==
    /\ grab.pc = "wrote" /\ proc # "down"
    /\ session' = Counted(session, session.last)
    /\ Save(session')
    /\ grab' = NoGrab
    /\ UNCHANGED <<layer, over, proc, holder, fin, files, video, outcome, restarts>>

(* Under the lock: count the frame, note its layer, save. *)
CaptureCount ==
    /\ grab.pc = "wrote"
    /\ proc # "down"
    /\ session' = Counted(session, grab.layer)
    /\ IF Staged THEN Save(session') ELSE UNCHANGED saved
    /\ grab' = NoGrab
    /\ UNCHANGED <<layer, over, proc, holder, fin, files, video, outcome, restarts>>

-----------------------------------------------------------------------------
(* finalize.                                                               *)

FinStep(pc) == fin.pc = pc /\ proc # "down"

(* The drain that does not drain. *)
FinDrainSkipped ==
    /\ FinStep("drain")
    /\ fin' = [fin EXCEPT !.pc = "cover"]
    /\ UNCHANGED <<layer, over, proc, session, holder, grab, files, saved, video,
                   outcome, restarts>>

(* awaitCapture: no grab in flight, or captureDrainLimit has passed. *)
FinDrain ==
    /\ FinStep("drain")
    /\ grab.pc = "idle" \/ DrainTimesOut
    /\ fin' = [fin EXCEPT !.pc = "cover"]
    /\ UNCHANGED <<layer, over, proc, session, holder, grab, files, saved, video,
                   outcome, restarts>>

(* The frame after the last one counted. *)
LastFrameNext == IF session.frames + 1 \in Frames THEN files[session.frames + 1] ELSE NoFile

LastFrame == IF session.frames \in Frames THEN files[session.frames] ELSE NoFile

(* coverFrame: a fresh grab, or the last frame when the bed is no longer    *)
(* this print's or the grab fails.                                          *)
FinCover ==
    /\ FinStep("cover")
    /\ \/ ~fin.skip /\ fin' = [fin EXCEPT !.pc = "judge", !.cover = Fresh]
       \/ fin' = [fin EXCEPT !.pc = "judge", !.cover = LastFrame]
    /\ UNCHANGED <<layer, over, proc, session, holder, grab, files, saved, video,
                   outcome, restarts>>

(* The directory leaves staging, by Discard or by Park. *)
Leave(how) ==
    /\ fin' = NoFin
    /\ holder' = "none"
    /\ outcome' = how
    /\ files' = [n \in Frames |-> NoFile]
    /\ UNCHANGED <<layer, over, proc, session, grab, saved, video, restarts>>

(* Too few frames: the directory is discarded.  Otherwise encode. *)
FinJudge ==
    \/ FinStep("judge") /\ session.frames < MinFrames /\ Leave("discarded")
    \/ /\ FinStep("judge")
       /\ session.frames >= MinFrames
       /\ fin' = [fin EXCEPT !.pc = "overlay"]
       /\ UNCHANGED <<layer, over, proc, session, holder, grab, files, saved, video,
                      outcome, restarts>>

(* overlay without the guard against a short layer list. *)
FinOverlayAlways ==
    /\ FinStep("overlay")
    /\ fin' = [fin EXCEPT !.pc = "fill", !.room = session.frames]
    /\ UNCHANGED <<layer, over, proc, session, holder, grab, files, saved, video,
                   outcome, restarts>>

(* overlay: captions only when every frame has a layer; the lines are sized *)
(* by the frame count ...                                                   *)
FinOverlay ==
    /\ FinStep("overlay")
    /\ fin' = IF Len(session.layers) = session.frames
              THEN [fin EXCEPT !.pc = "fill", !.room = session.frames]
              ELSE [fin EXCEPT !.pc = "encode"]
    /\ UNCHANGED <<layer, over, proc, session, holder, grab, files, saved, video,
                   outcome, restarts>>

(* ... and filled by ranging over the layer list, without the lock.  An     *)
(* index past the end is a panic, which ends the process.                   *)
FinFill ==
    /\ FinStep("fill")
    /\ Len(session.layers) <= fin.room
    /\ fin' = [fin EXCEPT !.pc = "encode", !.lines = session.layers]
    /\ UNCHANGED <<layer, over, proc, session, holder, grab, files, saved, video,
                   outcome, restarts>>

(* image2 reads frame-00001 onwards and stops at the first missing index.   *)
Footage ==
    LET m == CHOOSE n \in 0..MaxFrame :
                /\ \A i \in 1..n : files[i] # NoFile
                /\ n < MaxFrame => files[n + 1] = NoFile
    IN  [i \in 1..m |-> files[i]]

(* The counter on screen over frame n: sendcmd sets the text of each line   *)
(* at its frame and nothing clears it, so the last one stays.               *)
Caption(lines, n) == lines[IF n <= Len(lines) THEN n ELSE Len(lines)]

(* Encode, retried without the caption when it fails with one. *)
FinEncode ==
    /\ FinStep("encode")
    /\ \E lines \in {fin.lines, <<>>} :
          video' = [footage |-> Footage, lines |-> lines, cover |-> fin.cover,
                    frames |-> session.frames]
    /\ fin' = [fin EXCEPT !.pc = "deliver"]
    /\ UNCHANGED <<layer, over, proc, session, holder, grab, files, saved, outcome,
                   restarts>>

(* Both attempts fail: the job is parked. *)
FinParkEncode == FinStep("encode") /\ Leave("parked")

(* Posting, saving or parking the video is Delivery's; what matters here is *)
(* that a process that dies before it leaves the job to be encoded again.   *)
FinDeliver == FinStep("deliver") /\ Leave("delivered")

-----------------------------------------------------------------------------
(* The process.                                                            *)

(* The next process has only what is on disk. *)
ProcessGone ==
    /\ proc' = "down"
    /\ holder' = "none"
    /\ grab' = NoGrab
    /\ fin' = NoFin
    /\ UNCHANGED <<layer, over, session, files, saved, video, outcome>>

Panic ==
    /\ FinStep("fill")
    /\ Len(session.layers) > fin.room
    /\ ProcessGone
    /\ UNCHANGED restarts

Crash ==
    /\ proc # "down"
    /\ restarts < MaxRestarts
    /\ restarts' = restarts + 1
    /\ ProcessGone

Stop ==
    /\ proc = "up"
    /\ restarts < MaxRestarts
    /\ proc' = "stopping"
    /\ restarts' = restarts + 1
    /\ UNCHANGED <<layer, over, session, holder, grab, fin, files, saved, video, outcome>>

(* Run returns after finalizing.Wait: nothing waits for a grab, whose       *)
(* ffmpeg dies with its context and whose goroutine dies with the process.  *)
Exit ==
    /\ proc = "stopping"
    /\ fin.pc = "idle"
    /\ ProcessGone
    /\ UNCHANGED restarts

(* The next process starts the frame count over. *)
BootFresh ==
    /\ proc = "down" /\ outcome = "staged"
    /\ proc' = "up"
    /\ session' = [saved EXCEPT !.frames = 0]
    /\ holder' = "current"
    /\ UNCHANGED <<layer, over, grab, fin, files, saved, video, outcome, restarts>>

(* The last layer is not part of state.json. *)
BootForgetsLayer ==
    /\ proc = "down" /\ outcome = "staged"
    /\ proc' = "up"
    /\ session' = [saved EXCEPT !.last = -1]
    /\ IF over
       THEN holder' = "final" /\ fin' = [NoFin EXCEPT !.pc = "drain", !.skip = TRUE]
       ELSE holder' = "current" /\ UNCHANGED fin
    /\ UNCHANGED <<layer, over, grab, files, saved, video, outcome, restarts>>

(* The next process: reconcile adopts the session while its job prints and  *)
(* finalises it when the job ended meanwhile.                               *)
Boot ==
    /\ proc = "down"
    /\ outcome = "staged"
    /\ proc' = "up"
    /\ session' = saved
    /\ IF over
       THEN holder' = "final" /\ fin' = [NoFin EXCEPT !.pc = "drain", !.skip = TRUE]
       ELSE holder' = "current" /\ UNCHANGED fin
    /\ UNCHANGED <<layer, over, grab, files, saved, video, outcome, restarts>>

Done ==
    /\ outcome # "staged"
    /\ grab.pc = "idle"
    /\ UNCHANGED sys

Service ==
    \/ HandleLayer \/ HandleEnd
    \/ CaptureAbandon \/ CaptureShoot \/ GrabOpens \/ GrabDone \/ GrabFails \/ CaptureCount
    \/ FinDrain \/ FinCover \/ FinJudge \/ FinOverlay \/ FinFill \/ FinEncode
    \/ FinParkEncode \/ FinDeliver
    \/ Exit \/ Boot

Next ==
    /\ UNCHANGED world
    /\ \/ NextLayer \/ EndJob
       \/ Service
       \/ Panic \/ Crash \/ Stop
       \/ Done

Spec == Init /\ [][Next]_vars

(* Every goroutine runs, a grab ends within its timeout, the container's    *)
(* restart policy boots the next process, and a print ends.                 *)
Fairness ==
    /\ WF_sys(EndJob)
    /\ WF_sys(HandleEnd)
    /\ WF_sys(CaptureAbandon \/ CaptureShoot)
    /\ WF_sys(GrabOpens \/ GrabDone \/ GrabFails)
    /\ WF_sys(CaptureCount)
    /\ WF_sys(FinDrain) /\ WF_sys(FinCover) /\ WF_sys(FinJudge)
    /\ WF_sys(FinOverlay) /\ WF_sys(FinFill \/ Panic)
    /\ WF_sys(FinEncode \/ FinParkEncode) /\ WF_sys(FinDeliver)
    /\ WF_sys(Exit) /\ WF_sys(Boot)

FairSpec == Spec /\ Fairness

-----------------------------------------------------------------------------
(* A session's count is backed by footage: every frame it counts is on disk *)
(* and whole, in memory and in state.json alike, through crashes in the     *)
(* middle of a grab and saves that failed (FramePath, Grab, Save).          *)
Whole(s) == \A n \in 1..s.frames : files[n] \in 1..MaxLayer

CountedFramesWhole ==
    outcome = "staged" => Whole(saved) /\ (proc # "down" => Whole(session))

(* Layers[n] brackets what frame n shows: the picture is of that layer or   *)
(* of a later one, for the printer went on while it was delayed and taken,  *)
(* but of none past the layer the next frame was taken for, unless reports  *)
(* lag behind the printer.  So a list with skipped grabs, restarts and      *)
(* grabs that outlived their layer never slips by a frame (capture's        *)
(* append).                                                                 *)
Tells(s) ==
    Len(s.layers) = s.frames =>
        \A n \in 1..s.frames :
            /\ s.layers[n] <= files[n]
            /\ n < s.frames /\ ~Lags => files[n] <= s.layers[n + 1]

LayersTell ==
    outcome = "staged" => Tells(saved) /\ (proc # "down" => Tells(session))

(* The counter burned into the video is either not drawn or never ahead of  *)
(* the picture under it, and until the last caption never as far behind as  *)
(* the next one (overlay, writeCommands).  Frames past the last caption,    *)
(* which a late grab or a process that died left, stand under it: theirs is *)
(* not ahead either while state.json can be written.                        *)
CaptionHonest ==
    LET lines == video.lines
        shown == video.footage
    IN  lines # <<>> =>
            \A n \in DOMAIN shown :
                /\ n <= Len(lines) \/ (~SaveFails /\ shown[n] # Torn)
                      => Caption(lines, n) <= shown[n]
                /\ n < Len(lines) /\ ~Lags => shown[n] <= lines[n + 1]

(* The video is made of whole pictures.  The cover is never a half-written  *)
(* frame (coverFrame's fallback).  The encoder reads exactly the frames the *)
(* session counted, none half written (finalize: "drain first"), in the     *)
(* process that filmed the whole print and drained its grabs; a process     *)
(* that ends in the middle of a grab leaves a frame nobody counted, which a *)
(* later encode reads.                                                      *)
VideoMatches ==
    /\ video.cover # Torn
    /\ restarts = 0 /\ ~DrainTimesOut =>
          /\ Len(video.footage) = video.frames
          /\ \A n \in DOMAIN video.footage : video.footage[n] # Torn

(* Filling the caption lines never runs past their end (overlay).           *)
OverlayFits == fin.pc = "fill" => Len(session.layers) <= fin.room

(* OverlayFits, for grabs that end within captureDrainLimit.                *)
DrainedOverlayFits == ~DrainTimesOut => OverlayFits

(* A frame state.json counts is never written again while it is staged.     *)
KeepsFootage ==
    [][ outcome' = "staged" =>
          \A n \in 1..saved.frames : n \in Frames => files'[n] = files[n] ]_vars

(* No layer is in the video twice, restarts included: a process that        *)
(* resumes a session knows from state.json which layer it filmed last       *)
(* (handle, reconcile), if it could be written.                             *)
OnePerLayer ==
    ~SaveFails =>
        \A m, n \in DOMAIN session.layers :
            m < n => session.layers[m] < session.layers[n]

(* A print that ended is settled: discarded, parked or delivered, whatever  *)
(* was in flight when it ended (finalize, awaitCapture).                    *)
Settles == over ~> outcome # "staged"
=============================================================================
