--------------------------- MODULE CaptureProofs ---------------------------
(***************************************************************************)
(* The footage theorems, for any number of layers, frames and restarts,     *)
(* with saves that fail and drains that time out.                           *)
(*                                                                         *)
(* Neither CountedFramesWhole nor LayersTell is inductive.  What carries    *)
(* them is where the grab writes: always the frame after the last one the   *)
(* session counts (GrabAhead), and the session in memory never counts less  *)
(* than state.json (SavedBehind), so no counted file is ever touched.  What *)
(* a picture shows lies between two layers: the one that asked for it       *)
(* (GrabWrote) and the one that asks for the next (GrabAfter), because no   *)
(* picture is of a layer the printer has yet to reach (PicturesSoFar).      *)
(***************************************************************************)
EXTENDS Capture, WellFoundedInduction, TLAPS

Types ==
    /\ layer \in 0..MaxLayer
    /\ proc \in {"up", "stopping", "down"}
    /\ session \in Sessions
    /\ saved \in Sessions
    /\ grab \in [pc : {"idle", "delay", "grab", "writing", "wrote"},
                 layer : 0..MaxLayer, dest : 0..MaxFrame]
    /\ files \in [Frames -> {NoFile, Torn} \cup 1..MaxLayer]

LiveGrab ==
    grab.pc # "idle" =>
        proc # "down" /\ grab.layer \in 1..layer /\ session.frames < MaxFrame

GrabAhead ==
    grab.pc \in {"grab", "writing", "wrote"} => grab.dest = session.frames + 1

GrabWrote ==
    outcome = "staged" /\ grab.pc = "wrote" =>
        files[grab.dest] \in 1..MaxLayer /\ grab.layer <= files[grab.dest]

GrabAfter ==
    ~Lags /\ outcome = "staged" /\ grab.pc # "idle" =>
        \A n \in 1..session.frames : files[n] <= grab.layer

PicturesSoFar == \A n \in Frames : files[n] <= layer

SavedBehind == proc # "down" => saved.frames <= session.frames

Listed == Len(session.layers) <= session.frames /\ Len(saved.layers) <= saved.frames

IInv ==
    /\ Types
    /\ LiveGrab
    /\ GrabAhead
    /\ GrabWrote
    /\ GrabAfter
    /\ PicturesSoFar
    /\ SavedBehind
    /\ Listed
    /\ CountedFramesWhole
    /\ LayersTell

USE CaptureAssumption

(* What the fields of a Session are after handle notes a layer, and after   *)
(* capture counts a frame.                                                  *)
LEMMA NoteLast ==
    ASSUME NEW A, NEW B, NEW C, NEW s \in [frames : A, layers : B, last : C], NEW l \in C
    PROVE  LET r == [s EXCEPT !.last = l]
           IN  /\ r \in [frames : A, layers : B, last : C]
               /\ r.frames = s.frames
               /\ r.layers = s.layers
OBVIOUS

(* Counting a frame lengthens the count and the layer list by one.          *)
LEMMA SessionCounts ==
    ASSUME NEW s \in Sessions, NEW l \in 1..MaxLayer, s.frames < MaxFrame
    PROVE  /\ Counted(s, l) \in Sessions
           /\ Counted(s, l).frames = s.frames + 1
           /\ Counted(s, l).layers = Append(s.layers, l)
<1>1. /\ s.frames \in 0..MaxFrame /\ s.layers \in Seq(1..MaxLayer)
      /\ s.last \in -1..MaxLayer
  BY DEF Sessions
<1>2. s.frames + 1 \in 0..MaxFrame
  BY <1>1
<1>3. Append(s.layers, l) \in Seq(1..MaxLayer)
  BY <1>1
<1> QED
  BY <1>1, <1>2, <1>3 DEF Sessions, Counted

(* A step that leaves the session, its file, the grab and the disk alone.   *)
LEMMA QuietStep ==
    ASSUME IInv, UNCHANGED layer, proc' \in {"up", "stopping"}, proc # "down",
           outcome' = "staged" => outcome = "staged",
           UNCHANGED <<world, session, saved, grab, files>>
    PROVE  IInv'
BY DEF IInv, Types, LiveGrab, GrabAhead, GrabWrote, GrabAfter, PicturesSoFar, Lags,
   SavedBehind, Listed, CountedFramesWhole, LayersTell, Whole, Tells, Frames

(* A process that dies leaves a consistent state.json.                      *)
LEMMA GoneStep ==
    ASSUME IInv, ProcessGone, UNCHANGED world
    PROVE  IInv'
BY DEF IInv, ProcessGone, NoGrab, Types, LiveGrab, GrabAhead, GrabWrote, GrabAfter,
   PicturesSoFar, Lags, SavedBehind, Listed, CountedFramesWhole, LayersTell, Whole,
   Tells, Frames

(* A directory that leaves staging has no frames left to account for.       *)
LEMMA LeaveStep ==
    ASSUME IInv, NEW how \in {"discarded", "parked", "delivered"}, proc # "down", Leave(how),
           UNCHANGED world
    PROVE  IInv'
BY DEF IInv, Leave, Types, LiveGrab, GrabAhead, GrabWrote, GrabAfter, PicturesSoFar,
   Lags, SavedBehind, Listed, CountedFramesWhole, LayersTell, Whole, Tells, Frames,
   NoFile

(* A report names a layer between the last one noted and the printer's.     *)
LEMMA ReportedRange ==
    ASSUME layer \in 0..MaxLayer, session \in Sessions, NEW l \in Reported
    PROVE  l \in 0..layer /\ l \in 0..MaxLayer /\ (~Lags => l = layer)
BY DEF Reported

(* A layer change keeps the invariant.                                      *)
LEMMA HandleLayerStep == ASSUME IInv, HandleLayer, UNCHANGED world PROVE IInv'
<1>0. PICK l \in Reported :
        /\ changedLayer(l, session.last)
        /\ session' = [session EXCEPT !.last = l]
        /\ Save(session')
        /\ \/ UNCHANGED grab
           \/ /\ grab.pc = "idle" /\ session.frames < MaxFrame
              /\ grab' = [pc |-> "delay", layer |-> l, dest |-> 0]
  BY DEF HandleLayer
<1>1. /\ saved' = session' \/ saved' = saved
      /\ UNCHANGED <<layer, proc, files, outcome>>
      /\ proc # "down" /\ l >= 1
      /\ l \in 0..layer /\ l \in 0..MaxLayer /\ (~Lags => l = layer)
  <2>1. l \in 0..layer /\ l \in 0..MaxLayer /\ (~Lags => l = layer)
    BY ReportedRange DEF IInv, Types
  <2> QED
    BY <1>0, <2>1 DEF HandleLayer, Save, changedLayer
<1>2. /\ session'.frames = session.frames /\ session'.layers = session.layers
      /\ session' \in Sessions /\ saved' \in Sessions
  <2>1. l \in -1..MaxLayer
    BY <1>1
  <2>2. session \in [frames : 0..MaxFrame, layers : Seq(1..MaxLayer), last : -1..MaxLayer]
    BY DEF IInv, Types, Sessions
  <2>3. /\ session' \in [frames : 0..MaxFrame, layers : Seq(1..MaxLayer), last : -1..MaxLayer]
        /\ session'.frames = session.frames /\ session'.layers = session.layers
    BY <1>0, <2>1, <2>2, NoteLast
  <2> QED
    BY <1>1, <2>3 DEF IInv, Types, Sessions
<1>3. Types' /\ LiveGrab' /\ GrabAhead' /\ GrabWrote'
  <2>1. CASE UNCHANGED grab
    BY <1>1, <1>2, <2>1 DEF IInv, Types, LiveGrab, GrabAhead, GrabWrote
  <2>2. CASE /\ session.frames < MaxFrame
             /\ grab' = [pc |-> "delay", layer |-> l, dest |-> 0]
    <3>1. l \in 1..layer /\ l \in 0..MaxLayer /\ 0 \in 0..MaxFrame
      BY <1>1 DEF IInv, Types
    <3> QED
      BY <1>1, <1>2, <2>2, <3>1 DEF IInv, Types, LiveGrab, GrabAhead, GrabWrote
  <2> QED
    BY <1>0, <2>1, <2>2
<1>4. SavedBehind' /\ Listed'
  <2>1. session.frames \in Nat /\ saved.frames \in Nat
    BY DEF IInv, Types, Sessions
  <2>2. CASE saved' = session'
    BY <1>1, <1>2, <2>1, <2>2 DEF IInv, SavedBehind, Listed
  <2>3. CASE saved' = saved
    BY <1>1, <1>2, <2>1, <2>3 DEF IInv, SavedBehind, Listed
  <2> QED
    BY <1>1, <2>2, <2>3
<1>5. CountedFramesWhole' /\ LayersTell' /\ PicturesSoFar'
  BY <1>1, <1>2 DEF IInv, CountedFramesWhole, LayersTell, PicturesSoFar, Whole, Tells, Lags
<1>6. GrabAfter'
  <2>1. CASE UNCHANGED grab
    BY <1>1, <1>2, <2>1 DEF IInv, GrabAfter, Lags
  <2>2. CASE grab' = [pc |-> "delay", layer |-> l, dest |-> 0]
    <3>1. \A n \in 1..session.frames : n \in Frames
      BY DEF IInv, Types, Sessions, Frames
    <3>2. ~Lags => \A n \in 1..session.frames : files[n] <= grab'.layer
      BY <1>1, <2>2, <3>1 DEF IInv, PicturesSoFar
    <3> QED
      BY <1>1, <1>2, <3>2 DEF GrabAfter, Lags
  <2> QED
    BY <1>0, <2>1, <2>2
<1> QED
  BY <1>3, <1>4, <1>5, <1>6 DEF IInv

(* So does a capture that begins its grab,                                  *)
LEMMA ShootStep == ASSUME IInv, CaptureShoot, UNCHANGED world PROVE IInv'
<1>1. /\ grab' = [grab EXCEPT !.pc = "grab", !.dest = session.frames + 1]
      /\ grab.pc = "delay" /\ proc # "down"
      /\ UNCHANGED <<layer, proc, session, saved, files, outcome>>
  BY DEF CaptureShoot, FramePath
<1>2. grab' \in [pc : {"idle", "delay", "grab", "writing", "wrote"},
                 layer : 0..MaxLayer, dest : 0..MaxFrame]
  <2>1. session.frames + 1 \in 0..MaxFrame
    <3>1. session.frames \in 0..MaxFrame /\ session.frames < MaxFrame
      BY <1>1 DEF IInv, Types, LiveGrab, Sessions
    <3> QED
      BY <3>1
  <2>2. grab' = [pc |-> "grab", layer |-> grab.layer, dest |-> session.frames + 1]
    BY <1>1 DEF IInv, Types
  <2> QED
    BY <2>1, <2>2 DEF IInv, Types
<1> QED
  BY <1>1, <1>2 DEF IInv, Types, LiveGrab, GrabAhead, GrabWrote, GrabAfter,
     PicturesSoFar, Lags, SavedBehind, Listed, CountedFramesWhole, LayersTell, Whole,
     Tells

(* one that is abandoned at its deadline,                                   *)
LEMMA AbandonStep == ASSUME IInv, CaptureAbandon, UNCHANGED world PROVE IInv'
BY DEF CaptureAbandon, NoGrab, IInv, Types, LiveGrab, GrabAhead, GrabWrote, GrabAfter,
   PicturesSoFar, Lags, SavedBehind, Listed, CountedFramesWhole, LayersTell, Whole,
   Tells

(* Writing the file after the last counted one disturbs no counted frame.   *)
LEMMA WriteAhead ==
    ASSUME IInv, grab.pc \in {"grab", "writing"},
           NEW v \in {NoFile, Torn} \cup 1..MaxLayer, v <= layer,
           files' = [files EXCEPT ![grab.dest] = v],
           UNCHANGED <<world, layer, session, saved, proc, outcome>>
    PROVE  /\ files' \in [Frames -> {NoFile, Torn} \cup 1..MaxLayer]
           /\ files'[grab.dest] = v
           /\ \A n \in 1..session.frames : files'[n] = files[n]
           /\ \A n \in 1..saved.frames : files'[n] = files[n]
           /\ CountedFramesWhole'
           /\ LayersTell'
           /\ PicturesSoFar'
<1>1. /\ grab.dest = session.frames + 1 /\ grab.dest \in Frames
      /\ session.frames \in 0..MaxFrame /\ saved.frames \in 0..MaxFrame
      /\ saved.frames <= session.frames
      /\ proc # "down"
  BY DEF IInv, Types, Sessions, LiveGrab, GrabAhead, SavedBehind, Frames
<1>2. /\ files' \in [Frames -> {NoFile, Torn} \cup 1..MaxLayer]
      /\ files'[grab.dest] = v
      /\ \A n \in 1..session.frames : files'[n] = files[n]
      /\ \A n \in 1..saved.frames : files'[n] = files[n]
  BY <1>1 DEF IInv, Types, Frames
<1>3. CountedFramesWhole'
  BY <1>1, <1>2 DEF IInv, CountedFramesWhole, Whole
<1>4. LayersTell'
  <2>1. ASSUME NEW s \in Sessions, Tells(s), \A n \in 1..s.frames : files'[n] = files[n]
        PROVE  Len(s.layers) = s.frames =>
                 \A n \in 1..s.frames :
                     /\ s.layers[n] <= files'[n]
                     /\ n < s.frames /\ ~Lags => files'[n] <= s.layers[n + 1]
    BY <2>1 DEF Tells
  <2>2. session \in Sessions /\ saved \in Sessions
    BY DEF IInv, Types
  <2> QED
    BY <1>1, <1>2, <2>1, <2>2 DEF IInv, LayersTell, Tells, Lags
<1>5. PicturesSoFar'
  BY <1>1, <1>2 DEF IInv, Types, PicturesSoFar
<1> QED
  BY <1>2, <1>3, <1>4, <1>5

(* A grab that goes on or gives up, once its file is written.               *)
LEMMA GrabGoesOn ==
    ASSUME IInv, grab.pc \in {"grab", "writing"},
           grab' = NoGrab \/ \E pc \in {"writing", "wrote"} : grab' = [grab EXCEPT !.pc = pc],
           grab'.pc = "wrote" =>
              files'[grab.dest] \in 1..MaxLayer /\ grab.layer <= files'[grab.dest],
           files' \in [Frames -> {NoFile, Torn} \cup 1..MaxLayer],
           \A n \in 1..session.frames : files'[n] = files[n],
           CountedFramesWhole', LayersTell', PicturesSoFar',
           UNCHANGED <<world, layer, session, saved, proc, outcome>>
    PROVE  IInv'
<1>1. Types' /\ LiveGrab' /\ GrabAhead' /\ GrabWrote'
  BY DEF IInv, Types, LiveGrab, GrabAhead, GrabWrote, NoGrab
<1>2. GrabAfter'
  <2>1. grab'.pc # "idle" => grab'.layer = grab.layer /\ grab.pc # "idle"
    BY DEF IInv, Types, NoGrab
  <2> QED
    BY <2>1 DEF IInv, GrabAfter, Lags
<1>3. SavedBehind' /\ Listed'
  BY DEF IInv, SavedBehind, Listed
<1> QED
  BY <1>1, <1>2, <1>3 DEF IInv

(* a grab that opens the file,                                              *)
LEMMA OpensStep == ASSUME IInv, GrabOpens, UNCHANGED world PROVE IInv'
<1>1. Torn <= layer
  BY DEF IInv, Types, Torn
<1>2. grab' = [grab EXCEPT !.pc = "writing"] /\ grab'.pc # "wrote"
  BY DEF GrabOpens, IInv, Types
<1> QED
  BY <1>1, <1>2, WriteAhead, GrabGoesOn DEF GrabOpens

(* a grab that ends,                                                        *)
LEMMA DoneStep == ASSUME IInv, GrabDone, UNCHANGED world PROVE IInv'
<1>1. layer \in 1..MaxLayer /\ grab.layer <= layer /\ layer <= layer
  BY DEF GrabDone, IInv, Types, LiveGrab
<1>2. grab' = [grab EXCEPT !.pc = "wrote"]
  BY DEF GrabDone
<1> QED
  BY <1>1, <1>2, WriteAhead, GrabGoesOn DEF GrabDone

(* a grab that fails,                                                       *)
LEMMA FailsStep == ASSUME IInv, GrabFails, UNCHANGED world PROVE IInv'
<1>1. NoFile <= layer /\ NoGrab.pc # "wrote"
  BY DEF IInv, Types, NoFile, NoGrab
<1> QED
  BY <1>1, WriteAhead, GrabGoesOn DEF GrabFails

(* a frame that is counted and saved,                                       *)
LEMMA CountStep == ASSUME IInv, CaptureCount, UNCHANGED world PROVE IInv'
<1> DEFINE S == session'
<1>1. /\ grab.pc = "wrote" /\ proc # "down"
      /\ S = Counted(session, grab.layer)
      /\ saved' = S \/ saved' = saved
      /\ grab' = NoGrab
      /\ UNCHANGED <<layer, proc, files, outcome>>
  BY DEF CaptureCount, Save
<1>2. /\ session \in Sessions /\ saved \in Sessions
      /\ grab.layer \in 1..MaxLayer
      /\ grab.dest = session.frames + 1 /\ session.frames < MaxFrame
      /\ session.frames \in 0..MaxFrame
      /\ session.layers \in Seq(1..MaxLayer)
      /\ Len(session.layers) <= session.frames
  BY <1>1 DEF IInv, Types, LiveGrab, GrabAhead, Listed, Sessions
<1>3. /\ S.frames = session.frames + 1
      /\ S.layers = Append(session.layers, grab.layer)
      /\ S.layers \in Seq(1..MaxLayer)
      /\ Len(S.layers) = Len(session.layers) + 1
      /\ S \in Sessions
  <2>1. /\ S \in Sessions /\ S.frames = session.frames + 1
        /\ S.layers = Append(session.layers, grab.layer)
    BY <1>1, <1>2, SessionCounts
  <2> QED
    BY <1>2, <2>1
<1>4. /\ \A n \in 1..Len(session.layers) : S.layers[n] = session.layers[n]
      /\ S.layers[Len(session.layers) + 1] = grab.layer
  BY <1>2, <1>3
<1>5. Types' /\ LiveGrab' /\ GrabAhead' /\ GrabWrote' /\ GrabAfter' /\ PicturesSoFar'
  <2>1. grab'.pc = "idle"
    BY <1>1 DEF NoGrab
  <2>2. NoGrab \in [pc : {"idle", "delay", "grab", "writing", "wrote"},
                   layer : 0..MaxLayer, dest : 0..MaxFrame]
    BY DEF NoGrab
  <2>3. Types'
    BY <1>1, <1>2, <1>3, <2>2 DEF IInv, Types
  <2> QED
    BY <1>1, <2>1, <2>3 DEF LiveGrab, GrabAhead, GrabWrote, GrabAfter, IInv, PicturesSoFar
<1>6. SavedBehind' /\ Listed'
  <2>1. /\ saved.frames \in Nat /\ Len(saved.layers) <= saved.frames
        /\ saved.frames <= session.frames
    BY <1>1, <1>2 DEF IInv, SavedBehind, Listed, Sessions
  <2>2. Len(session.layers) \in Nat
    BY <1>2
  <2>3. Len(S.layers) <= S.frames /\ session.frames <= S.frames
    BY <1>2, <1>3, <2>2
  <2>4. saved'.frames <= S.frames /\ Len(saved'.layers) <= saved'.frames
    BY <1>1, <1>2, <1>3, <2>1, <2>3
  <2> QED
    BY <2>3, <2>4 DEF SavedBehind, Listed
<1>7. outcome = "staged" =>
        /\ files[session.frames + 1] \in 1..MaxLayer
        /\ grab.layer <= files[session.frames + 1]
  BY <1>1, <1>2 DEF IInv, GrabWrote
<1>8. ASSUME outcome = "staged" PROVE \A n \in 1..S.frames : files[n] \in 1..MaxLayer
  <2>1. \A n \in 1..session.frames : files[n] \in 1..MaxLayer
    BY <1>1, <1>8 DEF IInv, CountedFramesWhole, Whole
  <2> QED
    BY <1>2, <1>3, <1>7, <1>8, <2>1
<1>9. ASSUME outcome = "staged", Len(S.layers) = S.frames
      PROVE  \A n \in 1..S.frames :
                 /\ S.layers[n] <= files[n]
                 /\ n < S.frames /\ ~Lags => files[n] <= S.layers[n + 1]
  <2>1. Len(session.layers) = session.frames
    BY <1>2, <1>3, <1>9
  <2>2. \A n \in 1..session.frames :
            /\ session.layers[n] <= files[n]
            /\ n < session.frames /\ ~Lags => files[n] <= session.layers[n + 1]
    BY <1>1, <1>9, <2>1 DEF IInv, LayersTell, Tells
  <2>3. ~Lags => \A n \in 1..session.frames : files[n] <= grab.layer
    BY <1>1, <1>9 DEF IInv, GrabAfter
  <2>4. \A n \in 1..session.frames :
            /\ S.layers[n] = session.layers[n]
            /\ n < session.frames => S.layers[n + 1] = session.layers[n + 1]
    BY <1>2, <1>4, <2>1
  <2>5. S.layers[session.frames + 1] = grab.layer
    BY <1>4, <2>1
  <2> HIDE DEF S
  <2> TAKE n \in 1..S.frames
  <2>6. CASE n = session.frames + 1
    BY <1>2, <1>3, <1>7, <1>9, <2>5, <2>6
  <2>7. CASE n \in 1..session.frames /\ n < session.frames
    BY <2>2, <2>4, <2>7
  <2>8. CASE n \in 1..session.frames /\ n = session.frames
    BY <2>2, <2>3, <2>4, <2>5, <2>8
  <2>9. n = session.frames + 1 \/ n \in 1..session.frames
    BY <1>2, <1>3
  <2>10. n \in 1..session.frames => n < session.frames \/ n = session.frames
    BY <1>2
  <2> QED
    BY <2>6, <2>7, <2>8, <2>9, <2>10
<1>10. CountedFramesWhole'
  BY <1>1, <1>8 DEF IInv, CountedFramesWhole, Whole
<1>11. LayersTell'
  BY <1>1, <1>9 DEF IInv, LayersTell, Tells, Lags
<1> QED
  BY <1>5, <1>6, <1>10, <1>11 DEF IInv

(* and a start, which takes up what state.json says.                        *)
LEMMA BootStep == ASSUME IInv, Boot, UNCHANGED world PROVE IInv'
BY DEF Boot, IInv, Types, LiveGrab, GrabAhead, GrabWrote, GrabAfter, PicturesSoFar,
   Lags, SavedBehind, Listed, Sessions, CountedFramesWhole, LayersTell, Whole, Tells

(* The initial session, fresh or left by an older build, is consistent.     *)
LEMMA InitStep == Init => IInv
<1> SUFFICES ASSUME Init PROVE IInv
  OBVIOUS
<1>1. /\ proc = "up" /\ grab = NoGrab /\ saved = session /\ layer \in 0..MaxLayer
      /\ session \in Sessions
      /\ files \in [Frames -> {NoFile, Torn} \cup 1..MaxLayer]
      /\ session.layers = <<>>
      /\ \A n \in 1..session.frames : files[n] \in 1..MaxLayer
      /\ session.frames \in Nat
      /\ \A n \in Frames : files[n] <= layer
  <2>1. CASE /\ layer = 0
             /\ session = [frames |-> 0, layers |-> <<>>, last |-> -1]
             /\ files = [n \in Frames |-> NoFile]
    BY <2>1 DEF Init, Sessions, Frames, NoFile
  <2>2. CASE /\ Legacy /\ MaxLayer > 0 /\ MaxFrame > 0
             /\ layer = 1
             /\ session = [frames |-> 1, layers |-> <<>>, last |-> 1]
             /\ files = [n \in Frames |-> IF n = 1 THEN 1 ELSE NoFile]
    BY <2>2 DEF Init, Sessions, Frames, NoFile
  <2> QED
    BY <2>1, <2>2 DEF Init
<1>2. Types /\ LiveGrab /\ GrabAhead /\ GrabWrote /\ GrabAfter /\ PicturesSoFar
  BY <1>1 DEF Types, LiveGrab, GrabAhead, GrabWrote, GrabAfter, PicturesSoFar, NoGrab
<1>3. SavedBehind /\ Listed
  BY <1>1 DEF SavedBehind, Listed
<1>4. CountedFramesWhole
  BY <1>1 DEF CountedFramesWhole, Whole
<1>5. LayersTell
  BY <1>1 DEF LayersTell, Tells
<1> QED
  BY <1>2, <1>3, <1>4, <1>5 DEF IInv

(* One step per action.                                                     *)
LEMMA NextStep == IInv /\ [Next]_vars => IInv'
<1> SUFFICES ASSUME IInv, [Next]_vars PROVE IInv'
  OBVIOUS
<1>0. world' = world
  BY DEF Next, vars
<1>1. CASE NextLayer
  <2>1. layer' \in 0..MaxLayer /\ \A l \in Int : l <= layer => l <= layer'
    BY <1>1 DEF NextLayer, IInv, Types
  <2>2. UNCHANGED <<world, proc, session, grab, files, saved, outcome>>
    BY <1>0, <1>1 DEF NextLayer
  <2>3. Types' /\ LiveGrab'
    BY <2>1, <2>2 DEF IInv, Types, LiveGrab
  <2>4. PicturesSoFar'
    <3>1. \A n \in Frames : files[n] \in Int
      BY DEF IInv, Types, NoFile, Torn
    <3> QED
      BY <2>1, <2>2, <3>1 DEF IInv, PicturesSoFar
  <2>5. GrabAhead' /\ GrabWrote' /\ GrabAfter' /\ SavedBehind' /\ Listed'
    BY <2>2 DEF IInv, GrabAhead, GrabWrote, GrabAfter, Lags, SavedBehind, Listed
  <2>6. CountedFramesWhole' /\ LayersTell'
    BY <2>2 DEF IInv, CountedFramesWhole, LayersTell, Whole, Tells, Lags
  <2> QED
    BY <2>3, <2>4, <2>5, <2>6 DEF IInv
<1>2. CASE EndJob
  BY <1>0, <1>2 DEF EndJob, IInv, Types, LiveGrab, GrabAhead, GrabWrote, GrabAfter,
     PicturesSoFar, Lags, SavedBehind, Listed, CountedFramesWhole, LayersTell, Whole,
     Tells
<1>3. CASE HandleLayer
  BY <1>0, <1>3, HandleLayerStep
<1>4. CASE HandleEnd
  BY <1>0, <1>4, QuietStep DEF HandleEnd, IInv, Types
<1>5. CASE CaptureAbandon
  BY <1>0, <1>5, AbandonStep
<1>6. CASE CaptureShoot
  BY <1>0, <1>6, ShootStep
<1>7. CASE GrabOpens
  BY <1>0, <1>7, OpensStep
<1>8. CASE GrabDone
  BY <1>0, <1>8, DoneStep
<1>9. CASE GrabFails
  BY <1>0, <1>9, FailsStep
<1>10. CASE CaptureCount
  BY <1>0, <1>10, CountStep
<1>11. CASE FinDrain \/ FinCover \/ FinOverlay \/ FinFill \/ FinEncode
  BY <1>0, <1>11, QuietStep DEF FinDrain, FinCover, FinOverlay, FinFill, FinEncode, FinStep,
     IInv, Types
<1>12. CASE FinJudge
  <2>1. CASE FinStep("judge") /\ session.frames < MinFrames /\ Leave("discarded")
    BY <1>0, <2>1, LeaveStep DEF FinStep
  <2>2. CASE /\ FinStep("judge")
             /\ UNCHANGED <<layer, over, proc, session, holder, grab, files, saved, video,
                            outcome, restarts>>
    BY <1>0, <2>2, QuietStep DEF FinStep, IInv, Types
  <2> QED
    BY <1>0, <1>12, <2>1, <2>2 DEF FinJudge
<1>13. CASE FinParkEncode \/ FinDeliver
  BY <1>0, <1>13, LeaveStep DEF FinParkEncode, FinDeliver, FinStep
<1>14. CASE Panic \/ Crash \/ Exit
  BY <1>0, <1>14, GoneStep DEF Panic, Crash, Exit
<1>15. CASE Boot
  BY <1>0, <1>15, BootStep
<1>16. CASE Stop
  BY <1>0, <1>16, QuietStep DEF Stop, IInv, Types
<1>17. CASE Done \/ UNCHANGED vars
  <2>1. UNCHANGED <<world, layer, proc, session, grab, files, saved, outcome>>
    BY <1>0, <1>17 DEF Done, vars, sys
  <2> QED
    BY <2>1 DEF IInv, Types, LiveGrab, GrabAhead, GrabWrote, GrabAfter, PicturesSoFar, Lags,
       SavedBehind, Listed, CountedFramesWhole, LayersTell, Whole, Tells
<1> QED
  BY <1>1, <1>2, <1>3, <1>4, <1>5, <1>6, <1>7, <1>8, <1>9, <1>10, <1>11, <1>12, <1>13,
     <1>14, <1>15, <1>16, <1>17 DEF Next, Service

(* Every reachable state has the frames it counts.                          *)
LEMMA Inductive == Spec => []IInv
BY InitStep, NextStep, PTL DEF Spec

(* Every frame a session counts is on disk and whole, for any print and any *)
(* number of crashes, failed saves and timed-out drains.                    *)
THEOREM FramesWhole == Spec => []CountedFramesWhole
<1>1. IInv => CountedFramesWhole
  BY DEF IInv
<1> QED
  BY <1>1, Inductive, PTL

(* A complete layer list brackets what every frame shows, between the layer *)
(* that asked for it and the one that asked for the next.                   *)
THEOREM LayersHonest == Spec => []LayersTell
<1>1. IInv => LayersTell
  BY DEF IInv
<1> QED
  BY <1>1, Inductive, PTL

(* No step rewrites a frame state.json counts while the job is staged.      *)
THEOREM FootageKept == Spec => KeepsFootage
<1> DEFINE Kept == outcome' = "staged" =>
                     \A n \in 1..saved.frames : n \in Frames => files'[n] = files[n]
<1>1. IInv /\ [Next]_vars => [Kept]_vars
  <2> SUFFICES ASSUME IInv, Next PROVE Kept
    OBVIOUS
  <2>0. world' = world /\ NoFile <= layer /\ Torn <= layer /\ layer <= layer
    BY DEF Next, IInv, Types, NoFile, Torn
  <2>1. CASE GrabOpens
    BY <2>0, <2>1, WriteAhead DEF GrabOpens
  <2>2. CASE GrabDone
    <3>1. layer \in 1..MaxLayer
      BY <2>2 DEF GrabDone, IInv, Types, LiveGrab
    <3> QED
      BY <2>0, <2>2, <3>1, WriteAhead DEF GrabDone
  <2>3. CASE GrabFails
    BY <2>0, <2>3, WriteAhead DEF GrabFails
  <2>4. CASE UNCHANGED files
    BY <2>4
  <2>5. CASE outcome' # "staged"
    BY <2>5
  <2>6. \/ GrabOpens \/ GrabDone \/ GrabFails
        \/ UNCHANGED files \/ outcome' # "staged"
    BY DEF Next, Service, NextLayer, EndJob, HandleLayer, HandleEnd, CaptureAbandon,
       CaptureShoot, CaptureCount, FinDrain, FinCover, FinJudge, FinOverlay, FinFill,
       FinEncode, FinParkEncode, FinDeliver, Leave, Panic, Crash, Stop, Exit, Boot,
       ProcessGone, Done, vars, sys
  <2> QED
    BY <2>1, <2>2, <2>3, <2>4, <2>5, <2>6
<1> QED
  BY <1>1, Inductive, PTL DEF Spec, KeepsFootage

-----------------------------------------------------------------------------
(* The drain.  When it does not time out, no grab is in flight from its end *)
(* on: only the current session starts one, and a session being finalised   *)
(* is not current.                                                          *)
Drained ==
    /\ {"pc", "room"} \subseteq DOMAIN fin
    /\ proc = "down" => fin.pc = "idle"
    /\ fin.pc # "idle" => holder = "final"
    /\ fin.pc \notin {"idle", "drain"} => grab.pc = "idle"
    /\ OverlayFits

(* Within the drain limit no grab outlives its session.                     *)
LEMMA DrainHolds == Spec => [](DrainTimesOut \/ Drained)
<1>1. Init => DrainTimesOut \/ Drained
  BY DEF Init, Drained, OverlayFits, NoFin
<1>2. IInv /\ (DrainTimesOut \/ Drained) /\ [Next]_vars => (DrainTimesOut \/ Drained)'
  <2>0. [Next]_vars => (DrainTimesOut' <=> DrainTimesOut)
    BY DEF Next, vars, DrainTimesOut
  <2> SUFFICES ASSUME IInv, Drained, ~DrainTimesOut, [Next]_vars PROVE Drained'
    BY <2>0
  <2> USE DEF Drained, OverlayFits
  <2>1. CASE NextLayer \/ EndJob \/ Stop \/ Done \/ UNCHANGED vars
    BY <2>1 DEF NextLayer, EndJob, Stop, Done, vars, sys
  <2>2. CASE HandleLayer
    <3>1. fin.pc = "idle" /\ UNCHANGED <<fin, holder, proc>>
      BY <2>2 DEF HandleLayer
    <3> QED
      BY <3>1
  <2>3. CASE HandleEnd
    BY <2>3 DEF HandleEnd, NoFin
  <2>4. CASE CaptureAbandon \/ CaptureShoot \/ GrabOpens \/ GrabDone \/ GrabFails
             \/ CaptureCount
    <3>1. fin.pc \in {"idle", "drain"} /\ UNCHANGED <<fin, holder, proc>>
      BY <2>4 DEF CaptureAbandon, CaptureShoot, GrabOpens, GrabDone, GrabFails, CaptureCount
    <3> QED
      BY <3>1
  <2>5. CASE FinDrain \/ FinCover \/ FinFill \/ FinEncode
    <3>1. /\ fin.pc # "idle" /\ holder' = holder /\ grab' = grab /\ grab.pc = "idle"
          /\ proc # "down" /\ proc' = proc
          /\ fin'.pc # "fill" /\ DOMAIN fin' = DOMAIN fin
      BY <2>5 DEF FinDrain, FinCover, FinFill, FinEncode, FinStep
    <3> QED
      BY <3>1
  <2>6. CASE FinJudge \/ FinParkEncode \/ FinDeliver
    BY <2>6 DEF FinJudge, FinParkEncode, FinDeliver, Leave, FinStep, NoFin
  <2>7. CASE FinOverlay
    <3>1. Len(session.layers) \in Nat /\ session.frames \in Nat
      BY DEF IInv, Types, Sessions
    <3>2. fin.pc = "overlay" /\ UNCHANGED <<proc, holder, grab, session>>
      BY <2>7 DEF FinOverlay, FinStep
    <3>3. CASE /\ Len(session.layers) = session.frames
               /\ fin' = [fin EXCEPT !.pc = "fill", !.room = session.frames]
      <4>1. fin'.room = session.frames /\ DOMAIN fin' = DOMAIN fin
        BY <3>3
      <4> QED
        BY <3>1, <3>2, <3>3, <4>1
    <3>4. CASE fin' = [fin EXCEPT !.pc = "encode"]
      <4>1. fin'.pc = "encode" /\ DOMAIN fin' = DOMAIN fin
        BY <3>4
      <4> QED
        BY <3>2, <4>1
    <3> QED
      BY <2>7, <3>3, <3>4 DEF FinOverlay
  <2>8. CASE Panic \/ Crash \/ Exit
    BY <2>8 DEF Panic, Crash, Exit, ProcessGone, NoFin
  <2>9. CASE Boot
    <3>1. grab.pc = "idle" /\ grab' = grab
      BY <2>9 DEF Boot, IInv, LiveGrab, NoGrab
    <3>2. fin' = fin \/ fin' = [NoFin EXCEPT !.pc = "drain", !.skip = TRUE]
      BY <2>9 DEF Boot
    <3> QED
      BY <2>9, <3>1, <3>2 DEF Boot, NoFin
  <2> QED
    BY <2>1, <2>2, <2>3, <2>4, <2>5, <2>6, <2>7, <2>8, <2>9 DEF Next, Service
<1> QED
  BY <1>1, <1>2, Inductive, PTL DEF Spec

(* Without a timed-out drain, building the caption never runs past the end  *)
(* of the lines: the finalizer cannot panic.                                *)
THEOREM OverlayNeverPanics == Spec => []DrainedOverlayFits
<1>1. DrainTimesOut \/ Drained => DrainedOverlayFits
  BY DEF Drained, DrainedOverlayFits
<1> QED
  BY <1>1, DrainHolds, PTL

-----------------------------------------------------------------------------
(* A set of natural numbers has a least element.                            *)
LEMMA LeastNatural ==
    ASSUME NEW S \in SUBSET Nat, S # {}
    PROVE  \E n \in S : \A m \in S : n <= m
<1> DEFINE R == OpToRel(<, Nat)
<1>1. IsWellFoundedOn(R, Nat)
  BY NatLessThanWellFounded, Zenon
<1>2. R = {ss \in Nat \X Nat : ss[1] < ss[2]}
  BY Zenon DEF OpToRel
<1> HIDE DEF R
<1>3. \E x \in S : \A y \in S : ~ (<<y, x>> \in R)
  BY <1>1, WFMin, Zenon
<1>4. \A x, y \in Nat : y < x => <<y, x>> \in R
  BY <1>2
<1>5. PICK x \in S : \A y \in S : ~ (<<y, x>> \in R)
  BY <1>3
<1>6. \A y \in S : ~(y < x)
  BY <1>4, <1>5
<1> QED
  BY <1>6

(* What image2 reads of the directory ends at the first missing index.      *)
EndsAt(n) ==
    /\ \A i \in 1..n : files[i] # NoFile
    /\ n < MaxFrame => files[n + 1] = NoFile

(* The directory has a first missing index, if only past its last file.     *)
LEMMA FirstGap == \E n \in 0..MaxFrame : EndsAt(n)
<1> DEFINE S == {n \in 0..MaxFrame : n < MaxFrame => files[n + 1] = NoFile}
<1>1. S \in SUBSET Nat /\ MaxFrame \in S
  OBVIOUS
<1>2. PICK m \in S : \A n \in S : m <= n
  <2> HIDE DEF S
  <2> QED
    BY <1>1, LeastNatural
<1>3. ASSUME NEW i \in 1..m PROVE files[i] # NoFile
  <2>1. i - 1 \in 0..MaxFrame /\ i - 1 < m /\ i - 1 < MaxFrame /\ (i - 1) + 1 = i
    OBVIOUS
  <2>2. i - 1 \notin S
    <3> HIDE DEF S
    <3>1. m \in Nat
      BY <1>1
    <3> QED
      BY <1>2, <2>1, <3>1
  <2> QED
    BY <2>1, <2>2
<1> QED
  BY <1>3 DEF EndsAt

(* Footage is the files up to that index, none of them missing.             *)
LEMMA FootageIs ==
    \E m \in 0..MaxFrame : EndsAt(m) /\ Footage = [i \in 1..m |-> files[i]]
<1> DEFINE m == CHOOSE n \in 0..MaxFrame : EndsAt(n)
<1>1. m \in 0..MaxFrame /\ EndsAt(m)
  BY FirstGap, Zenon
<1>2. Footage = [i \in 1..m |-> files[i]]
  BY Zenon DEF Footage, EndsAt
<1> QED
  BY <1>1, <1>2

(* A directory whose files are exactly those counted is read whole.         *)
LEMMA FootageExact ==
    ASSUME NEW k \in 0..MaxFrame, \A i \in 1..k : files[i] \in 1..MaxLayer,
           \A n \in Frames : n > k => files[n] = NoFile
    PROVE  Len(Footage) = k /\ \A n \in DOMAIN Footage : Footage[n] # Torn
<1>1. PICK m \in 0..MaxFrame : EndsAt(m) /\ Footage = [i \in 1..m |-> files[i]]
  BY FootageIs
<1>2. ~(m < k)
  <2> SUFFICES ASSUME m < k PROVE FALSE
    OBVIOUS
  <2>1. m + 1 \in 1..k
    OBVIOUS
  <2> QED
    BY <1>1, <2>1 DEF EndsAt, NoFile
<1>3. ~(m > k)
  <2> SUFFICES ASSUME m > k PROVE FALSE
    OBVIOUS
  <2>1. k + 1 \in 1..m /\ k + 1 \in Frames /\ k + 1 > k
    BY DEF Frames
  <2> QED
    BY <1>1, <2>1 DEF EndsAt
<1>4. m = k
  BY <1>2, <1>3
<1>5. Footage = [i \in 1..k |-> files[i]]
  BY <1>1, <1>4
<1>6. Len(Footage) = k
  BY <1>5
<1> QED
  BY <1>5, <1>6 DEF Torn

-----------------------------------------------------------------------------
Fins ==
    [pc : {"idle", "drain", "cover", "judge", "overlay", "fill", "encode", "deliver"},
     skip : BOOLEAN, room : 0..MaxFrame, lines : Seq(1..MaxLayer), cover : Covers]

(* The rest of TypeOK.                                                      *)
MoreTypes ==
    /\ world \in Worlds
    /\ over \in BOOLEAN
    /\ holder \in {"current", "final", "none"}
    /\ fin \in Fins
    /\ video \in [footage : Seq({Torn} \cup 1..MaxLayer), lines : Seq(1..MaxLayer),
                  cover : Covers, frames : 0..MaxFrame]
    /\ outcome \in {"staged", "discarded", "parked", "delivered"}
    /\ restarts \in 0..MaxRestarts

(* No finalizer: the empty state is one of its states.                      *)
LEMMA NoFinType ==
    /\ NoFin \in Fins
    /\ \A skip \in BOOLEAN : [NoFin EXCEPT !.pc = "drain", !.skip = skip] \in Fins
<1>1. <<>> \in Seq(1..MaxLayer) /\ 0 \in 0..MaxFrame /\ NoFile \in Covers
  BY DEF Covers
<1>2. NoFin \in Fins
  BY <1>1 DEF NoFin, Fins
<1> HIDE DEF NoFin
<1> QED
  BY <1>2 DEF Fins

(* The finalizer's steps keep its state well formed.                        *)
LEMMA FinSteps ==
    ASSUME IInv, MoreTypes,
           FinDrain \/ FinCover \/ FinOverlay \/ FinFill \/ FinEncode
           \/ FinJudge \/ FinParkEncode \/ FinDeliver,
           UNCHANGED world
    PROVE  MoreTypes'
<1>1. NoFin \in Fins
  BY NoFinType
<1>2. fin \in Fins
  BY DEF MoreTypes
<1>3. \A pc \in {"cover", "overlay", "deliver"} : [fin EXCEPT !.pc = pc] \in Fins
  BY <1>2 DEF Fins
<1>4. CASE FinDrain
  <2>1. fin' \in Fins
    BY <1>3, <1>4 DEF FinDrain
  <2> QED
    BY <1>4, <2>1 DEF FinDrain, MoreTypes
<1>5. CASE FinCover
  <2>1. LastFrame \in Covers /\ Fresh \in Covers
    <3>1. \A n \in Frames : files[n] \in {NoFile, Torn} \cup 1..MaxLayer
      BY DEF IInv, Types
    <3> QED
      BY <3>1 DEF LastFrame, Covers
  <2>2. \A c \in Covers : [fin EXCEPT !.pc = "judge", !.cover = c] \in Fins
    BY <1>2 DEF Fins
  <2>3. fin' \in Fins
    BY <1>5, <2>1, <2>2 DEF FinCover
  <2> QED
    BY <1>5, <2>3 DEF FinCover, MoreTypes
<1>6. CASE FinOverlay
  <2>1. session.frames \in 0..MaxFrame
    BY DEF IInv, Types, Sessions
  <2>2. fin' \in Fins
    BY <1>2, <1>6, <2>1 DEF FinOverlay, Fins
  <2> QED
    BY <1>6, <2>2 DEF FinOverlay, MoreTypes
<1>7. CASE FinFill
  <2>1. session.layers \in Seq(1..MaxLayer)
    BY DEF IInv, Types, Sessions
  <2>2. fin' \in Fins
    BY <1>2, <1>7, <2>1 DEF FinFill, Fins
  <2> QED
    BY <1>7, <2>2 DEF FinFill, MoreTypes
<1>8. CASE FinEncode
  <2>1. fin' \in Fins
    BY <1>3, <1>8 DEF FinEncode
  <2>2. Footage \in Seq({Torn} \cup 1..MaxLayer)
    <3>1. PICK m \in 0..MaxFrame : EndsAt(m) /\ Footage = [i \in 1..m |-> files[i]]
      BY FootageIs
    <3>2. \A i \in 1..m : files[i] \in {Torn} \cup 1..MaxLayer
      BY <3>1 DEF EndsAt, IInv, Types, Frames
    <3> QED
      BY <3>1, <3>2
  <2>3. session.frames \in 0..MaxFrame /\ fin.cover \in Covers
        /\ fin.lines \in Seq(1..MaxLayer) /\ <<>> \in Seq(1..MaxLayer)
    BY <1>2 DEF IInv, Types, Sessions, Fins
  <2>4. video' \in [footage : Seq({Torn} \cup 1..MaxLayer), lines : Seq(1..MaxLayer),
                    cover : Covers, frames : 0..MaxFrame]
    <3>1. PICK lines \in {fin.lines, <<>>} :
             video' = [footage |-> Footage, lines |-> lines, cover |-> fin.cover,
                       frames |-> session.frames]
      BY <1>8 DEF FinEncode
    <3> QED
      BY <2>2, <2>3, <3>1
  <2> QED
    BY <1>8, <2>1, <2>4 DEF FinEncode, MoreTypes
<1>9. CASE FinJudge \/ FinParkEncode \/ FinDeliver
  <2>1. fin' \in Fins
    BY <1>1, <1>3, <1>9 DEF FinJudge, FinParkEncode, FinDeliver, Leave
  <2> QED
    BY <1>9, <2>1 DEF FinJudge, FinParkEncode, FinDeliver, Leave, MoreTypes
<1> QED
  BY <1>4, <1>5, <1>6, <1>7, <1>8, <1>9

(* Every variable keeps its type, the footage of the encoded video included *)
(* (Footage, image2's reading of the directory, is always defined).         *)
THEOREM TypeCorrect == Spec => []TypeOK
<1>1. Init => MoreTypes
  <2> SUFFICES ASSUME Init PROVE MoreTypes
    OBVIOUS
  <2>1. NoFin \in Fins
    BY NoFinType
  <2>2. /\ <<>> \in Seq({Torn} \cup 1..MaxLayer) /\ <<>> \in Seq(1..MaxLayer)
        /\ NoFile \in Covers /\ 0 \in 0..MaxFrame /\ 0 \in 0..MaxRestarts
    BY DEF Covers
  <2> QED
    BY <2>1, <2>2 DEF Init, MoreTypes, NoVideo
<1>2. IInv /\ MoreTypes /\ [Next]_vars => MoreTypes'
  <2> SUFFICES ASSUME IInv, MoreTypes, [Next]_vars PROVE MoreTypes'
    OBVIOUS
  <2>0. world' = world
    BY DEF Next, vars
  <2>1. CASE UNCHANGED <<holder, fin, video, outcome>>
             /\ over' \in BOOLEAN /\ restarts' \in 0..MaxRestarts
    BY <2>0, <2>1 DEF MoreTypes
  <2>2. CASE \/ NextLayer \/ EndJob \/ HandleLayer \/ CaptureAbandon \/ CaptureShoot
             \/ GrabOpens \/ GrabDone \/ GrabFails \/ CaptureCount \/ Done \/ UNCHANGED vars
    BY <2>1, <2>2 DEF MoreTypes, NextLayer, EndJob, HandleLayer, CaptureAbandon,
       CaptureShoot, GrabOpens, GrabDone, GrabFails, CaptureCount, Done, vars, sys
  <2>3. CASE Stop
    BY <2>1, <2>3 DEF Stop, MoreTypes
  <2>4. CASE HandleEnd
    <3>1. PICK skip \in BOOLEAN : fin' = [NoFin EXCEPT !.pc = "drain", !.skip = skip]
      BY <2>4 DEF HandleEnd
    <3> QED
      BY <2>0, <2>4, <3>1, NoFinType DEF HandleEnd, MoreTypes
  <2>5. CASE \/ FinDrain \/ FinCover \/ FinOverlay \/ FinFill \/ FinEncode
             \/ FinJudge \/ FinParkEncode \/ FinDeliver
    BY <2>0, <2>5, FinSteps
  <2>6. CASE Panic \/ Crash \/ Exit
    <3>1. NoFin \in Fins
      BY NoFinType
    <3>2. restarts' \in 0..MaxRestarts
      BY <2>6 DEF Panic, Crash, Exit, MoreTypes
    <3>3. /\ fin' = NoFin /\ holder' = "none" /\ UNCHANGED <<over, video, outcome>>
      BY <2>6 DEF Panic, Crash, Exit, ProcessGone
    <3> QED
      BY <2>0, <3>1, <3>2, <3>3 DEF MoreTypes
  <2>7. CASE Boot
    BY <2>0, <2>7, NoFinType DEF Boot, MoreTypes
  <2> QED
    BY <2>2, <2>3, <2>4, <2>5, <2>6, <2>7 DEF Next, Service
<1>3. IInv /\ MoreTypes => TypeOK
  BY DEF IInv, Types, MoreTypes, Fins, TypeOK
<1> QED
  BY <1>1, <1>2, <1>3, Inductive, PTL DEF Spec

-----------------------------------------------------------------------------
(* What state.json and the goroutine know of the layers already filmed.     *)
Filmed ==
    ~SaveFails =>
        /\ outcome = "staged" => saved = session
        /\ session.last <= layer
        /\ \A n \in DOMAIN session.layers : session.layers[n] <= session.last
        /\ grab.pc # "idle" =>
              /\ grab.layer <= session.last
              /\ \A n \in DOMAIN session.layers : session.layers[n] < grab.layer

FilmedInv == Filmed /\ OnePerLayer

(* handle notes a layer above every one filmed, and starts a grab for it or *)
(* leaves the one in flight with its own.                                   *)
LEMMA LayerFilmed ==
    ASSUME TypeOK, FilmedInv, ~SaveFails, HandleLayer
    PROVE  /\ saved' = session' /\ session'.last <= layer'
           /\ \A n \in DOMAIN session'.layers : session'.layers[n] <= session'.last
           /\ grab'.pc # "idle" =>
                 /\ grab'.layer <= session'.last
                 /\ \A n \in DOMAIN session'.layers : session'.layers[n] < grab'.layer
           /\ session'.layers = session.layers
<1>1. /\ session.last \in -1..MaxLayer /\ layer \in 0..MaxLayer
      /\ grab.layer \in 0..MaxLayer
      /\ session \in Sessions /\ session.layers \in Seq(1..MaxLayer)
      /\ session.last <= layer
  BY DEF TypeOK, Sessions, FilmedInv, Filmed
<1>2. \A n \in DOMAIN session.layers : session.layers[n] \in Int
  BY <1>1
<1>3. PICK l \in Reported :
        /\ changedLayer(l, session.last)
        /\ session' = [session EXCEPT !.last = l]
        /\ Save(session')
        /\ grab' = grab \/ (grab'.pc = "delay" /\ grab'.layer = l)
  BY DEF HandleLayer
<1>4. l \in 0..layer /\ l > session.last
  <2>1. l \in 0..layer /\ l >= session.last
    BY <1>1 DEF Reported
  <2> QED
    BY <1>1, <1>3, <2>1 DEF changedLayer
<1>5. /\ session'.layers = session.layers /\ session'.last = l
      /\ layer' = layer /\ saved' = session'
  BY <1>1, <1>3 DEF HandleLayer, Save, Sessions
<1>6. \A n \in DOMAIN session.layers : session.layers[n] < l
  BY <1>1, <1>2, <1>4 DEF FilmedInv, Filmed
<1>7. grab.pc # "idle" =>
        /\ grab.layer <= l
        /\ \A n \in DOMAIN session.layers : session.layers[n] < grab.layer
  BY <1>1, <1>4 DEF FilmedInv, Filmed
<1> QED
  BY <1>1, <1>2, <1>3, <1>4, <1>5, <1>6, <1>7

(* Counting a frame appends a layer above every one in the list.            *)
LEMMA CountFilmed ==
    ASSUME IInv, TypeOK, FilmedInv, ~SaveFails, CaptureCount
    PROVE  /\ outcome = "staged" => saved' = session'
           /\ session'.last = session.last
           /\ \A n \in DOMAIN session'.layers : session'.layers[n] <= session'.last
           /\ \A m, n \in DOMAIN session'.layers :
                 m < n => session'.layers[m] < session'.layers[n]
<1>1. /\ grab.pc = "wrote"
      /\ session \in Sessions /\ grab.layer \in 1..MaxLayer /\ session.frames < MaxFrame
      /\ session' = Counted(session, grab.layer)
  BY DEF CaptureCount, IInv, Types, LiveGrab
<1>2. /\ session'.last = session.last
      /\ outcome = "staged" => saved' = session'
  BY <1>1 DEF CaptureCount, Counted, Save, Staged
<1> DEFINE L == session.layers
           k == Len(L)
<1>3. L \in Seq(1..MaxLayer) /\ k \in Nat /\ DOMAIN L = 1..k
  BY <1>1 DEF Sessions
<1>4. session'.layers = Append(L, grab.layer)
  BY <1>1, SessionCounts
<1> HIDE DEF L
<1>5. /\ DOMAIN session'.layers = 1..(k + 1)
      /\ \A n \in 1..k : session'.layers[n] = L[n]
      /\ session'.layers[k + 1] = grab.layer
  BY <1>1, <1>3, <1>4
<1>6. /\ grab.layer <= session.last
      /\ \A n \in 1..k : L[n] < grab.layer /\ L[n] <= session.last
      /\ \A m, n \in 1..k : m < n => L[m] < L[n]
  BY <1>1, <1>3 DEF FilmedInv, Filmed, OnePerLayer, L
<1>7. \A n \in 1..(k + 1) : n = k + 1 \/ n \in 1..k
  BY <1>3
<1>8. \A n \in 1..(k + 1) : session'.layers[n] <= session.last
  BY <1>5, <1>6, <1>7
<1>9. ASSUME NEW m \in 1..(k + 1), NEW n \in 1..(k + 1), m < n
      PROVE  session'.layers[m] < session'.layers[n]
  <2>1. m \in 1..k
    BY <1>3, <1>9
  <2> QED
    BY <1>5, <1>6, <1>7, <1>9, <2>1
<1> QED
  BY <1>2, <1>5, <1>8, <1>9

(* Every step keeps what is known of the layers filmed.                     *)
LEMMA FilmedHolds == Spec => []FilmedInv
<1>1. Init => FilmedInv
  BY DEF Init, FilmedInv, Filmed, OnePerLayer, NoGrab
<1>2. IInv /\ TypeOK /\ FilmedInv /\ [Next]_vars => FilmedInv'
  <2>0. [Next]_vars => (SaveFails' <=> SaveFails)
    BY DEF Next, vars, SaveFails
  <2> SUFFICES ASSUME IInv, TypeOK, FilmedInv, ~SaveFails, [Next]_vars PROVE FilmedInv'
    BY <2>0 DEF FilmedInv, Filmed, OnePerLayer
  <2>1. CASE HandleLayer
    <3>1. outcome' = outcome
      BY <2>1 DEF HandleLayer
    <3> QED
      BY <2>1, <3>1, LayerFilmed DEF FilmedInv, Filmed, OnePerLayer
  <2>2. CASE CaptureCount
    <3>1. /\ outcome' = outcome /\ layer' = layer /\ grab'.pc = "idle"
      BY <2>2 DEF CaptureCount, NoGrab
    <3> QED
      BY <2>2, <3>1, CountFilmed DEF FilmedInv, Filmed, OnePerLayer
  <2>3. CASE Boot
    <3>1. session' = session
      BY <2>3 DEF Boot, FilmedInv, Filmed
    <3> QED
      BY <2>3, <3>1 DEF Boot, FilmedInv, Filmed, OnePerLayer
  <2>4. CASE NextLayer
    <3>1. session.last \in Int /\ layer \in Int /\ layer' = layer + 1
      BY <2>4 DEF NextLayer, TypeOK, Sessions
    <3>2. session.last <= layer'
      BY <3>1 DEF FilmedInv, Filmed
    <3> QED
      BY <2>4, <3>2 DEF NextLayer, FilmedInv, Filmed, OnePerLayer
  <2>5. CASE /\ UNCHANGED <<session, saved, layer>>
             /\ outcome' = "staged" => outcome = "staged"
             /\ grab'.pc # "idle" => grab.pc # "idle" /\ grab'.layer = grab.layer
    BY <2>5 DEF FilmedInv, Filmed, OnePerLayer
  <2>6. CASE CaptureShoot \/ GrabOpens \/ GrabDone
    <3>1. grab.pc # "idle" /\ grab'.layer = grab.layer
      BY <2>6 DEF CaptureShoot, GrabOpens, GrabDone, TypeOK
    <3>2. UNCHANGED <<session, saved, layer, outcome>>
      BY <2>6 DEF CaptureShoot, GrabOpens, GrabDone
    <3> QED
      BY <2>5, <3>1, <3>2
  <2>7. CASE \/ EndJob \/ HandleEnd \/ CaptureAbandon \/ GrabFails \/ FinDrain \/ FinCover
             \/ FinOverlay \/ FinFill \/ FinEncode \/ FinJudge \/ FinParkEncode
             \/ FinDeliver \/ Panic \/ Crash \/ Exit \/ Stop \/ Done \/ UNCHANGED vars
    <3>1. UNCHANGED <<session, saved, layer>> /\ (grab' = grab \/ grab' = NoGrab)
      BY <2>7
      DEF EndJob, HandleEnd, CaptureAbandon, GrabFails, FinDrain, FinCover, FinOverlay,
          FinFill, FinEncode, FinJudge, FinParkEncode, FinDeliver, Leave, Panic, Crash, Exit,
          ProcessGone, Stop, Done, vars, sys
    <3>2. outcome' = "staged" => outcome = "staged"
      BY <2>7
      DEF EndJob, HandleEnd, CaptureAbandon, GrabFails, FinDrain, FinCover, FinOverlay,
          FinFill, FinEncode, FinJudge, FinParkEncode, FinDeliver, Leave, Panic, Crash, Exit,
          ProcessGone, Stop, Done, vars, sys
    <3>3. grab'.pc # "idle" => grab.pc # "idle" /\ grab'.layer = grab.layer
      BY <3>1 DEF NoGrab
    <3> QED
      BY <2>5, <3>1, <3>2, <3>3
  <2> QED
    BY <2>1, <2>2, <2>3, <2>4, <2>6, <2>7 DEF Next, Service
<1> QED
  BY <1>1, <1>2, Inductive, TypeCorrect, PTL DEF Spec

(* No layer is filmed twice, over any number of restarts, as long as        *)
(* state.json can be written.                                               *)
THEOREM OneFramePerLayer == Spec => []OnePerLayer
<1>1. FilmedInv => OnePerLayer
  BY DEF FilmedInv
<1> QED
  BY <1>1, FilmedHolds, PTL

-----------------------------------------------------------------------------
(* While state.json can be written, the only file the session does not      *)
(* count is the one after its last, and a picture there is of a layer no    *)
(* frame before it was asked for.                                           *)
Strays ==
    ~SaveFails /\ outcome = "staged" =>
        /\ \A n \in Frames : n > session.frames + 1 => files[n] = NoFile
        /\ \A n \in Frames :
              n = session.frames + 1 /\ files[n] \in 1..MaxLayer =>
                  \A m \in DOMAIN session.layers : session.layers[m] <= files[n]

(* Only a grab writes there, a picture it takes is of the layer the printer *)
(* is on, and counting it leaves nothing after it.                          *)
LEMMA StraysHold == Spec => []Strays
<1>1. Init => Strays
  <2> SUFFICES ASSUME Init PROVE Strays
    OBVIOUS
  <2>1. DOMAIN session.layers = {}
    BY DEF Init
  <2> QED
    BY <2>1 DEF Init, Strays, Frames
<1>2. IInv /\ TypeOK /\ FilmedInv /\ Strays /\ [Next]_vars => Strays'
  <2> SUFFICES ASSUME IInv, TypeOK, FilmedInv, Strays, [Next]_vars,
                      ~SaveFails, outcome' = "staged"
               PROVE  /\ \A n \in Frames : n > session'.frames + 1 => files'[n] = NoFile
                      /\ \A n \in Frames :
                            n = session'.frames + 1 /\ files'[n] \in 1..MaxLayer =>
                                \A m \in DOMAIN session'.layers :
                                    session'.layers[m] <= files'[n]
    BY DEF Strays, SaveFails, Next, vars
  <2>0. outcome = "staged"
    BY DEF Next, Service, NextLayer, EndJob, HandleLayer, HandleEnd, CaptureAbandon,
       CaptureShoot, GrabOpens, GrabDone, GrabFails, CaptureCount, FinDrain, FinCover,
       FinOverlay, FinFill, FinEncode, FinJudge, FinParkEncode, FinDeliver, Leave, Panic,
       Crash, Exit, ProcessGone, Stop, Boot, Done, vars, sys
  <2>1. /\ \A n \in Frames : n > session.frames + 1 => files[n] = NoFile
        /\ \A n \in Frames :
              n = session.frames + 1 /\ files[n] \in 1..MaxLayer =>
                  \A m \in DOMAIN session.layers : session.layers[m] <= files[n]
        /\ \A m \in DOMAIN session.layers : session.layers[m] <= layer
    <3>0. /\ session.last \in -1..MaxLayer /\ layer \in 0..MaxLayer
          /\ session.layers \in Seq(1..MaxLayer)
      BY DEF IInv, Types, Sessions
    <3>1. session.last \in Int /\ layer \in Int
          /\ \A m \in DOMAIN session.layers : session.layers[m] \in Int
      BY <3>0
    <3>2. \A m \in DOMAIN session.layers : session.layers[m] <= layer
      BY <3>1 DEF FilmedInv, Filmed
    <3> QED
      BY <2>0, <3>2 DEF Strays
  <2>2. /\ files \in [Frames -> {NoFile, Torn} \cup 1..MaxLayer]
        /\ session.frames \in Nat /\ \A n \in Frames : n \in Nat
    BY DEF TypeOK, Sessions, Frames
  <2>3. CASE GrabOpens \/ GrabDone \/ GrabFails
    <3>1. /\ session' = session /\ grab.dest = session.frames + 1
          /\ \E v \in {NoFile, Torn, layer} : files' = [files EXCEPT ![grab.dest] = v]
      BY <2>3 DEF GrabOpens, GrabDone, GrabFails, IInv, GrabAhead
    <3>2. PICK v \in {NoFile, Torn, layer} : files' = [files EXCEPT ![grab.dest] = v]
      BY <3>1
    <3>3. \A n \in Frames : n > session.frames + 1 => files'[n] = NoFile
      BY <2>1, <2>2, <3>1, <3>2
    <3>4. ASSUME NEW n \in Frames, n = session.frames + 1, files'[n] \in 1..MaxLayer
          PROVE  \A m \in DOMAIN session.layers : session.layers[m] <= files'[n]
      <4>1. files'[n] = v
        BY <2>2, <3>1, <3>2, <3>4
      <4>2. v = layer
        BY <3>4, <4>1 DEF NoFile, Torn
      <4> QED
        BY <2>1, <4>1, <4>2
    <3> QED
      BY <3>1, <3>3, <3>4
  <2>4. CASE CaptureCount
    <3>1. files' = files /\ session'.frames = session.frames + 1
      BY <2>4 DEF CaptureCount, Counted
    <3> QED
      BY <2>1, <2>2, <3>1 DEF NoFile
  <2>5. CASE files' = files /\ session'.frames = session.frames
             /\ session'.layers = session.layers
    BY <2>1, <2>5
  <2>6. CASE HandleLayer
    <3>1. /\ files' = files /\ session'.frames = session.frames
          /\ session'.layers = session.layers
      BY <2>6 DEF HandleLayer, TypeOK, Sessions
    <3> QED
      BY <2>5, <3>1
  <2>7. CASE Boot
    <3>1. session' = session /\ files' = files
      BY <2>0, <2>7 DEF Boot, FilmedInv, Filmed
    <3> QED
      BY <2>5, <3>1
  <2>8. CASE files' = files /\ session' = session
    BY <2>5, <2>8
  <2> QED
    BY <2>3, <2>4, <2>6, <2>7, <2>8
    DEF Next, Service, NextLayer, EndJob, HandleEnd, CaptureAbandon, CaptureShoot, FinDrain,
        FinCover, FinOverlay, FinFill, FinEncode, FinJudge, FinParkEncode, FinDeliver, Leave,
        Panic, Crash, Exit, ProcessGone, Stop, Done, vars, sys
<1> QED
  BY <1>1, <1>2, Inductive, TypeCorrect, FilmedHolds, PTL DEF Spec

-----------------------------------------------------------------------------
(* Who is finalised: a session that is still staged, in a process that is   *)
(* up; and a session that somebody holds is staged.                         *)
FinHolds ==
    /\ fin.pc # "idle" => proc # "down" /\ holder = "final"
    /\ holder # "none" => outcome = "staged"

(* The captions the finalizer carries are the first layers of the session,  *)
(* which has one for each frame, whatever a grab it did not wait for does   *)
(* meanwhile.                                                               *)
Prefix(lines) ==
    /\ Len(session.layers) = session.frames
    /\ Len(lines) <= session.frames
    /\ \A n \in 1..Len(lines) : lines[n] = session.layers[n]

LinesTell ==
    /\ fin.pc = "fill" => Len(session.layers) = session.frames
    /\ fin.pc # "idle" /\ fin.lines # <<>> => Prefix(fin.lines)

CaptionInv == FinHolds /\ LinesTell /\ CaptionHonest

(* Neither a grab's file nor a layer noted changes what is carried.         *)
LEMMA LinesStay ==
    ASSUME CaptionInv, UNCHANGED <<world, fin, holder, outcome, video>>,
           proc # "down" => proc' # "down",
           session'.frames = session.frames, session'.layers = session.layers
    PROVE  CaptionInv'
BY DEF CaptionInv, FinHolds, LinesTell, Prefix, CaptionHonest, Caption, SaveFails, Lags

(* Counting a frame appends to the layer list and to the count alike.       *)
LEMMA CountTells ==
    ASSUME IInv, TypeOK, CaptionInv, CaptureCount, UNCHANGED world
    PROVE  CaptionInv'
<1>1. /\ session \in Sessions /\ grab.layer \in 1..MaxLayer /\ session.frames < MaxFrame
      /\ session.frames \in Nat /\ session.layers \in Seq(1..MaxLayer)
      /\ fin.lines \in Seq(1..MaxLayer)
  BY DEF CaptureCount, IInv, Types, LiveGrab, Sessions, TypeOK
<1>2. /\ session' = Counted(session, grab.layer)
      /\ UNCHANGED <<fin, holder, proc, outcome, files, video>>
  BY DEF CaptureCount
<1>3. /\ session'.frames = session.frames + 1
      /\ session'.layers = Append(session.layers, grab.layer)
  BY <1>1, <1>2, SessionCounts
<1>4. Len(session'.layers) = Len(session.layers) + 1
  BY <1>1, <1>3
<1>5. ASSUME Prefix(fin.lines) PROVE Prefix(fin.lines)'
  <2>1. /\ Len(session.layers) = session.frames /\ Len(fin.lines) <= session.frames
        /\ \A n \in 1..Len(fin.lines) : fin.lines[n] = session.layers[n]
    BY <1>5 DEF Prefix
  <2>2. \A n \in 1..Len(fin.lines) : session'.layers[n] = session.layers[n]
    BY <1>1, <1>3, <2>1
  <2>3. Len(fin.lines) \in Nat
    BY <1>1
  <2> QED
    BY <1>1, <1>2, <1>3, <1>4, <2>1, <2>2, <2>3 DEF Prefix
<1>6. LinesTell'
  BY <1>2, <1>3, <1>4, <1>5 DEF CaptionInv, LinesTell
<1> QED
  BY <1>2, <1>6 DEF CaptionInv, FinHolds, CaptionHonest, Caption, SaveFails, Lags

(* What the encoder draws over each picture it reads.                       *)
LEMMA EncodeTells ==
    ASSUME IInv, TypeOK, CaptionInv, FilmedInv, Strays, FinEncode, UNCHANGED world
    PROVE  CaptionHonest'
<1> DEFINE L == fin.lines
           K == session.layers
           k == Len(L)
           f == session.frames
<1>0. /\ L \in Seq(1..MaxLayer) /\ K \in Seq(1..MaxLayer) /\ f \in 0..MaxFrame
      /\ k \in Nat
      /\ files \in [Frames -> {NoFile, Torn} \cup 1..MaxLayer]
  BY DEF TypeOK, Sessions
<1>1. /\ fin.pc = "encode" /\ video'.lines \in {L, <<>>} /\ video'.footage = Footage
  BY DEF FinEncode, FinStep
<1>2. PICK m \in 0..MaxFrame : EndsAt(m) /\ Footage = [i \in 1..m |-> files[i]]
  BY FootageIs
<1>3. (SaveFails' <=> SaveFails) /\ (Lags' <=> Lags)
  BY DEF SaveFails, Lags
<1> SUFFICES ASSUME video'.lines # <<>>, NEW n \in 1..m
             PROVE  /\ n <= Len(video'.lines) \/ (~SaveFails /\ files[n] # Torn)
                          => Caption(video'.lines, n) <= files[n]
                    /\ n < Len(video'.lines) /\ ~Lags => files[n] <= video'.lines[n + 1]
  BY <1>1, <1>2, <1>3 DEF CaptionHonest
<1>4. video'.lines = L /\ L # <<>> /\ k >= 1
  BY <1>0, <1>1
<1>5. /\ Len(K) = f /\ k <= f /\ \A i \in 1..k : L[i] = K[i]
      /\ outcome = "staged" /\ proc # "down"
  <2>1. proc # "down" /\ outcome = "staged"
    BY <1>1 DEF CaptionInv, FinHolds
  <2>2. Prefix(fin.lines)
    BY <1>1, <1>4 DEF CaptionInv, LinesTell
  <2> QED
    BY <2>1, <2>2 DEF Prefix
<1>6. \A i \in 1..f : K[i] <= files[i] /\ (i < f /\ ~Lags => files[i] <= K[i + 1])
  BY <1>5 DEF IInv, LayersTell, Tells
<1>7. /\ n \in Frames /\ files[n] # NoFile /\ DOMAIN K = 1..f
      /\ \A i \in 1..f : K[i] \in 1..MaxLayer
  <2>1. n \in Frames /\ files[n] # NoFile
    BY <1>2 DEF Frames, EndsAt
  <2>2. DOMAIN K = 1..f
    <3> HIDE DEF K, f
    <3> QED
      BY <1>0, <1>5
  <2>3. \A i \in 1..f : K[i] \in 1..MaxLayer
    <3> HIDE DEF K, f
    <3> QED
      BY <1>0, <2>2
  <2> QED
    BY <2>1, <2>2, <2>3
<1> HIDE DEF L, K, k, f
<1>8. CASE n <= k
  <2>1. Caption(L, n) = L[n]
    BY <1>8 DEF Caption, k
  <2>2. n \in 1..k /\ n \in 1..f
    BY <1>0, <1>5, <1>8
  <2>3. Caption(L, n) <= files[n]
    BY <1>5, <1>6, <2>1, <2>2
  <2>4. ASSUME n < k, ~Lags PROVE files[n] <= L[n + 1]
    <3>1. n + 1 \in 1..k /\ n < f
      BY <1>0, <1>5, <2>2, <2>4
    <3> QED
      BY <1>5, <1>6, <2>2, <2>4, <3>1
  <2> QED
    BY <1>4, <2>3, <2>4 DEF k
<1>9. CASE n > k
  <2>1. Caption(L, n) = L[k]
    BY <1>0, <1>9 DEF Caption, k
  <2>2. k \in 1..f /\ L[k] = K[k] /\ K[k] \in 1..MaxLayer
    BY <1>0, <1>4, <1>5, <1>7
  <2>3. ASSUME ~SaveFails, files[n] # Torn PROVE K[k] <= files[n]
    <3>1. files[n] \in 1..MaxLayer
      BY <1>0, <1>7, <2>3
    <3>2. CASE n \in 1..f
      <4>1. K[k] < K[n]
        BY <1>7, <1>9, <2>2, <2>3, <3>2 DEF FilmedInv, OnePerLayer, K
      <4> QED
        BY <1>6, <1>7, <2>2, <3>1, <3>2, <4>1
    <3>3. CASE n = f + 1
      BY <1>5, <1>7, <2>2, <2>3, <3>1, <3>3 DEF Strays, K, f
    <3>4. CASE n > f + 1
      BY <1>5, <1>7, <2>3, <3>4 DEF Strays, f
    <3> QED
      BY <1>0, <3>2, <3>3, <3>4
  <2> QED
    BY <1>0, <1>4, <1>9, <2>1, <2>2, <2>3 DEF k
<1> QED
  BY <1>0, <1>8, <1>9

(* The finalizer's own steps: the lines are the session's layers, once each *)
(* frame has one.                                                           *)
LEMMA FinTells ==
    ASSUME IInv, TypeOK, CaptionInv, FilmedInv, Strays, UNCHANGED world,
           FinDrain \/ FinCover \/ FinOverlay \/ FinFill \/ FinEncode
           \/ FinJudge \/ FinParkEncode \/ FinDeliver
    PROVE  CaptionInv'
<1>0. /\ fin \in Fins /\ session \in Sessions /\ fin.lines \in Seq(1..MaxLayer)
      /\ session.layers \in Seq(1..MaxLayer) /\ session.frames \in Nat
  BY DEF TypeOK, Fins, Sessions
<1>1. CASE FinEncode
  <2>1. /\ fin.pc = "encode" /\ fin'.pc = "deliver" /\ fin'.lines = fin.lines
        /\ UNCHANGED <<proc, holder, outcome, session, files>>
    BY <1>0, <1>1 DEF FinEncode, FinStep, Fins
  <2> QED
    BY <1>1, <2>1, EncodeTells DEF CaptionInv, FinHolds, LinesTell, Prefix
<1>2. video' = video => CaptionHonest'
  BY DEF CaptionInv, CaptionHonest, Caption, SaveFails, Lags
<1>3. CASE FinJudge \/ FinParkEncode \/ FinDeliver
  <2>1. CASE \E how \in {"discarded", "parked", "delivered"} : Leave(how)
    BY <1>2, <2>1 DEF Leave, NoFin, CaptionInv, FinHolds, LinesTell
  <2>2. CASE /\ fin' = [fin EXCEPT !.pc = "overlay"] /\ FinStep("judge")
             /\ UNCHANGED <<proc, holder, outcome, session, files, video>>
    <3>1. fin'.pc = "overlay" /\ fin'.lines = fin.lines /\ fin.pc = "judge"
      BY <1>0, <2>2 DEF Fins, FinStep
    <3> QED
      BY <1>2, <2>2, <3>1 DEF CaptionInv, FinHolds, LinesTell, Prefix
  <2> QED
    BY <1>3, <2>1, <2>2 DEF FinJudge, FinParkEncode, FinDeliver
<1>4. CASE FinDrain \/ FinCover
  <2>1. /\ fin.pc # "idle" /\ fin'.pc \in {"cover", "judge"} /\ fin'.lines = fin.lines
        /\ UNCHANGED <<proc, holder, outcome, session, files, video>>
    BY <1>0, <1>4 DEF FinDrain, FinCover, FinStep, Fins
  <2> QED
    BY <1>2, <2>1 DEF CaptionInv, FinHolds, LinesTell, Prefix
<1>5. CASE FinOverlay
  <2>1. /\ fin.pc # "idle" /\ fin'.pc \in {"fill", "encode"} /\ fin'.lines = fin.lines
        /\ fin'.pc = "fill" => Len(session.layers) = session.frames
        /\ UNCHANGED <<proc, holder, outcome, session, files, video>>
    BY <1>0, <1>5 DEF FinOverlay, FinStep, Fins
  <2> QED
    BY <1>2, <2>1 DEF CaptionInv, FinHolds, LinesTell, Prefix
<1>6. CASE FinFill
  <2>1. /\ fin.pc = "fill" /\ fin'.pc = "encode" /\ fin'.lines = session.layers
        /\ UNCHANGED <<proc, holder, outcome, session, files, video>>
    BY <1>0, <1>6 DEF FinFill, FinStep, Fins
  <2>2. Len(session.layers) = session.frames
    BY <2>1 DEF CaptionInv, LinesTell
  <2> QED
    BY <1>0, <1>2, <2>1, <2>2 DEF CaptionInv, FinHolds, LinesTell, Prefix
<1> QED
  BY <1>1, <1>3, <1>4, <1>5, <1>6

(* The caption's lines stay those of the session's frames.                  *)
LEMMA CaptionHolds == Spec => []CaptionInv
<1>1. Init => CaptionInv
  BY DEF Init, NoFin, NoVideo, CaptionInv, FinHolds, LinesTell, CaptionHonest
<1>2. /\ IInv /\ TypeOK /\ FilmedInv /\ Strays /\ CaptionInv /\ [Next]_vars
      => CaptionInv'
  <2> SUFFICES ASSUME IInv, TypeOK, FilmedInv, Strays, CaptionInv, [Next]_vars
               PROVE  CaptionInv'
    OBVIOUS
  <2>0. world' = world
    BY DEF Next, vars
  <2>1. CASE GrabOpens \/ GrabDone \/ GrabFails
    <3>1. UNCHANGED <<fin, holder, proc, outcome, session, video>>
      BY <2>1 DEF GrabOpens, GrabDone, GrabFails
    <3> QED
      BY <2>0, <3>1, LinesStay
  <2>2. CASE CaptureCount
    BY <2>0, <2>2, CountTells
  <2>3. CASE \/ FinDrain \/ FinCover \/ FinOverlay \/ FinFill \/ FinEncode
             \/ FinJudge \/ FinParkEncode \/ FinDeliver
    BY <2>0, <2>3, FinTells
  <2>4. CASE HandleLayer
    <3>1. session'.frames = session.frames /\ session'.layers = session.layers
      BY <2>4 DEF HandleLayer, TypeOK, Sessions
    <3>2. UNCHANGED <<fin, holder, proc, outcome, video>>
      BY <2>4 DEF HandleLayer
    <3> QED
      BY <2>0, <3>1, <3>2, LinesStay
  <2>5. video' = video => CaptionHonest'
    BY <2>0 DEF CaptionInv, CaptionHonest, Caption, SaveFails, Lags
  <2>6. CASE HandleEnd
    <3>1. fin'.lines = <<>> /\ fin'.pc = "drain"
      BY <2>6 DEF HandleEnd, NoFin
    <3> QED
      BY <2>5, <2>6, <3>1 DEF HandleEnd, CaptionInv, FinHolds, LinesTell
  <2>7. CASE Panic \/ Crash \/ Exit
    BY <2>5, <2>7 DEF Panic, Crash, Exit, ProcessGone, NoFin, CaptionInv, FinHolds, LinesTell
  <2>8. CASE Boot
    <3>1. fin.pc = "idle"
      BY <2>8 DEF Boot, CaptionInv, FinHolds
    <3>2. \/ fin' = fin
          \/ fin'.lines = <<>> /\ fin'.pc = "drain" /\ holder' = "final"
      BY <2>8 DEF Boot, NoFin
    <3> QED
      BY <2>5, <2>8, <3>1, <3>2 DEF Boot, CaptionInv, FinHolds, LinesTell
  <2>9. CASE UNCHANGED <<fin, holder, outcome, session, video>>
             /\ (proc # "down" => proc' # "down")
    BY <2>0, <2>9, LinesStay
  <2> QED
    BY <2>1, <2>2, <2>3, <2>4, <2>6, <2>7, <2>8, <2>9
    DEF Next, Service, NextLayer, EndJob, CaptureAbandon, CaptureShoot, Stop, Done, vars, sys
<1> QED
  BY <1>1, <1>2, Inductive, TypeCorrect, FilmedHolds, StraysHold, PTL DEF Spec

(* The layer counter in the video is not drawn or is never ahead of the     *)
(* picture under it, nor as far behind as the next caption: for every print *)
(* and any restarts, also for the frames past the last caption that a grab  *)
(* nobody waited for or a process that died left, as long as state.json     *)
(* can be written.                                                          *)
THEOREM CaptionsAreHonest == Spec => []CaptionHonest
<1>1. CaptionInv => CaptionHonest
  BY DEF CaptionInv
<1> QED
  BY <1>1, CaptionHolds, PTL

-----------------------------------------------------------------------------
(* In the process that films the whole print, only the grab in flight has a *)
(* file the session does not count.                                         *)
Undisturbed == restarts = 0 /\ ~DrainTimesOut

NoStray ==
    Undisturbed =>
        /\ proc = "up"
        /\ \A n \in Frames : n > session.frames + 1 => files[n] = NoFile
        /\ \A n \in Frames :
              n > session.frames /\ grab.pc \notin {"writing", "wrote"} => files[n] = NoFile

VideoInv == fin.cover # Torn /\ NoStray /\ VideoMatches

(* A video that is not encoded again keeps what it had.                     *)
LEMMA VideoStays ==
    ASSUME VideoMatches, restarts \in Nat, restarts' \in {restarts, restarts + 1},
           UNCHANGED <<video, world>>
    PROVE  VideoMatches'
<1>1. restarts' = 0 => restarts = 0
  OBVIOUS
<1> QED
  BY <1>1 DEF VideoMatches, DrainTimesOut

(* The first process neither dies nor stops.                                *)
LEMMA StaysUp ==
    ASSUME IInv, TypeOK, VideoInv, DrainTimesOut \/ Drained, Undisturbed', UNCHANGED world
    PROVE  /\ ~CaptureAbandon /\ ~Panic /\ ~Crash /\ ~Stop /\ ~Exit /\ ~Boot
           /\ restarts' = restarts => Undisturbed /\ proc = "up"
<1>0. restarts \in Nat /\ ~DrainTimesOut /\ restarts' = 0
  BY DEF TypeOK, Undisturbed, DrainTimesOut
<1>1. restarts' = restarts => Undisturbed /\ proc = "up"
  BY <1>0 DEF Undisturbed, VideoInv, NoStray
<1>2. ~Crash /\ ~Stop
  BY <1>0 DEF Crash, Stop
<1>3. ~CaptureAbandon /\ ~Exit /\ ~Boot
  BY <1>1 DEF CaptureAbandon, Exit, Boot
<1>4. ~Panic
  <2> SUFFICES ASSUME Panic PROVE FALSE
    OBVIOUS
  <2>1. fin.pc = "fill" /\ Len(session.layers) > fin.room
    BY DEF Panic, FinStep
  <2>2. Len(session.layers) <= fin.room
    BY <1>0, <2>1 DEF Drained, OverlayFits
  <2>3. Len(session.layers) \in Nat /\ fin.room \in Nat
    BY DEF TypeOK, Sessions
  <2> QED
    BY <2>1, <2>2, <2>3
<1> QED
  BY <1>1, <1>2, <1>3, <1>4

(* The grab's file is the one after the last counted; a failed grab removes *)
(* it and a successful one counts it.                                       *)
LEMMA NoStrayStep ==
    ASSUME IInv, TypeOK, VideoInv, DrainTimesOut \/ Drained, [Next]_vars
    PROVE  NoStray'
<1> SUFFICES ASSUME Undisturbed'
             PROVE  /\ proc' = "up"
                    /\ \A n \in Frames : n > session'.frames + 1 => files'[n] = NoFile
                    /\ \A n \in Frames :
                          /\ n > session'.frames
                          /\ grab'.pc \notin {"writing", "wrote"}
                          => files'[n] = NoFile
  BY DEF NoStray
<1>0. world' = world
  BY DEF Next, vars
<1>1. /\ ~CaptureAbandon /\ ~Panic /\ ~Crash /\ ~Stop /\ ~Exit /\ ~Boot
  BY <1>0, StaysUp
<1>2. restarts' = restarts
  BY <1>1 DEF Next, Service, NextLayer, EndJob, HandleLayer, HandleEnd, CaptureShoot,
     GrabOpens, GrabDone, GrabFails, CaptureCount, FinDrain, FinCover, FinOverlay, FinFill,
     FinEncode, FinJudge, FinParkEncode, FinDeliver, Leave, Done, vars, sys
<1>3. /\ proc = "up"
      /\ \A n \in Frames : n > session.frames + 1 => files[n] = NoFile
      /\ \A n \in Frames :
            n > session.frames /\ grab.pc \notin {"writing", "wrote"} => files[n] = NoFile
  BY <1>0, <1>2, StaysUp DEF VideoInv, NoStray
<1>4. /\ files \in [Frames -> {NoFile, Torn} \cup 1..MaxLayer]
      /\ session.frames \in Nat
      /\ \A n \in Frames : n \in Nat
  BY DEF TypeOK, Sessions, Frames
<1>5. CASE GrabOpens \/ GrabDone \/ GrabFails
  <2>1. /\ proc' = proc /\ session' = session
        /\ grab.dest = session.frames + 1
        /\ \E v : files' = [files EXCEPT ![grab.dest] = v]
    BY <1>5 DEF GrabOpens, GrabDone, GrabFails, IInv, GrabAhead
  <2>2. \A n \in Frames : n > session.frames + 1 => files'[n] = NoFile
    BY <1>3, <1>4, <2>1
  <2>3. \/ grab'.pc \in {"writing", "wrote"}
        \/ files' = [files EXCEPT ![grab.dest] = NoFile]
    BY <1>5 DEF GrabOpens, GrabDone, GrabFails, IInv, Types
  <2>4. ASSUME NEW n \in Frames, n > session.frames,
               grab'.pc \notin {"writing", "wrote"}
        PROVE  files'[n] = NoFile
    <3>1. CASE n = grab.dest
      BY <1>4, <2>3, <2>4, <3>1
    <3>2. CASE n # grab.dest
      BY <1>4, <2>1, <2>2, <2>4, <3>2
    <3> QED
      BY <3>1, <3>2
  <2> QED
    BY <1>3, <2>1, <2>2, <2>4
<1>6. CASE CaptureCount
  <2>1. /\ proc' = proc /\ files' = files /\ session'.frames = session.frames + 1
    BY <1>6 DEF CaptureCount, Counted
  <2> QED
    BY <1>3, <1>4, <2>1
<1>7. CASE HandleLayer
  <2>1. /\ proc' = proc /\ files' = files /\ session'.frames = session.frames
        /\ grab'.pc \notin {"writing", "wrote"} => grab.pc \notin {"writing", "wrote"}
    BY <1>7 DEF HandleLayer, TypeOK, Sessions
  <2> QED
    BY <1>3, <2>1
<1>8. CASE CaptureShoot
  <2>1. /\ grab.pc = "delay" /\ UNCHANGED <<proc, files, session>>
    BY <1>8 DEF CaptureShoot
  <2> QED
    BY <1>3, <2>1
<1>9. CASE \E how \in {"discarded", "parked", "delivered"} : Leave(how)
  BY <1>3, <1>9 DEF Leave
<1>10. CASE UNCHANGED <<proc, files, session, grab>>
  BY <1>3, <1>10
<1> QED
  BY <1>1, <1>5, <1>6, <1>7, <1>8, <1>9, <1>10
  DEF Next, Service, NextLayer, EndJob, HandleEnd, FinDrain, FinCover, FinOverlay, FinFill,
      FinEncode, FinJudge, FinParkEncode, FinDeliver, Done, vars, sys

(* What the encoder reads in the first process is what was counted.         *)
LEMMA EncodeMatches ==
    ASSUME IInv, TypeOK, CaptionInv, VideoInv, DrainTimesOut \/ Drained, FinEncode,
           UNCHANGED world
    PROVE  VideoMatches'
<1>1. /\ video'.cover = fin.cover /\ video'.footage = Footage
      /\ video'.frames = session.frames
      /\ fin.pc = "encode" /\ restarts' = restarts
  BY DEF FinEncode, FinStep
<1>2. ASSUME restarts = 0, ~DrainTimesOut
      PROVE  /\ Len(Footage) = session.frames
             /\ \A n \in DOMAIN Footage : Footage[n] # Torn
  <2>1. grab.pc = "idle"
    BY <1>1, <1>2 DEF Drained
  <2>2. \A n \in Frames : n > session.frames => files[n] = NoFile
    BY <1>2, <2>1 DEF VideoInv, NoStray, Undisturbed
  <2>3. \A n \in 1..session.frames : files[n] \in 1..MaxLayer
    BY <1>1 DEF CaptionInv, FinHolds, IInv, CountedFramesWhole, Whole
  <2>4. session.frames \in 0..MaxFrame
    BY DEF TypeOK, Sessions
  <2> QED
    BY <2>2, <2>3, <2>4, FootageExact
<1>3. fin.cover # Torn
  BY DEF VideoInv
<1> QED
  BY <1>1, <1>2, <1>3 DEF VideoMatches, DrainTimesOut

(* The cover is no half-written frame: the fallback is the last frame that  *)
(* was counted.                                                             *)
LEMMA CoverStep ==
    ASSUME IInv, TypeOK, CaptionInv, fin.cover # Torn, [Next]_vars
    PROVE  fin'.cover # Torn
<1>0. fin \in Fins
  BY DEF TypeOK, Fins
<1>1. CASE FinCover
  <2>1. fin'.cover \in {Fresh, LastFrame}
    BY <1>0, <1>1 DEF FinCover, Fins
  <2>2. \A n \in 1..session.frames : files[n] \in 1..MaxLayer
    BY <1>1 DEF FinCover, FinStep, CaptionInv, FinHolds, IInv, CountedFramesWhole, Whole
  <2>3. session.frames \in 0..MaxFrame
    BY DEF TypeOK, Sessions
  <2>4. session.frames \in Frames => session.frames \in 1..session.frames
    BY <2>3 DEF Frames
  <2>5. LastFrame # Torn
    BY <2>2, <2>4 DEF LastFrame, Torn, NoFile
  <2> QED
    BY <2>1, <2>5 DEF Fresh, Torn
<1>2. CASE \/ fin' = NoFin
           \/ \E skip \in BOOLEAN : fin' = [NoFin EXCEPT !.pc = "drain", !.skip = skip]
  <2>1. NoFin.cover = NoFile
    BY DEF NoFin
  <2>2. \A skip \in BOOLEAN : [NoFin EXCEPT !.pc = "drain", !.skip = skip].cover = NoFile
    BY DEF NoFin
  <2>3. fin'.cover = NoFile
    BY <1>2, <2>1, <2>2
  <2> QED
    BY <2>3 DEF Torn, NoFile
<1>3. CASE fin'.cover = fin.cover
  BY <1>3
<1>4. CASE FinDrain \/ FinOverlay \/ FinFill \/ FinEncode \/ FinJudge
  <2>1. fin' = NoFin \/ fin'.cover = fin.cover
    BY <1>0, <1>4 DEF FinDrain, FinOverlay, FinFill, FinEncode, FinJudge, Leave, Fins
  <2> QED
    BY <1>2, <1>3, <2>1
<1>5. CASE Boot
  <2>1. fin' = fin \/ fin' = [NoFin EXCEPT !.pc = "drain", !.skip = TRUE]
    BY <1>5 DEF Boot
  <2> QED
    BY <1>2, <1>3, <2>1
<1> QED
  BY <1>1, <1>2, <1>3, <1>4, <1>5
  DEF Next, Service, NextLayer, EndJob, HandleLayer, HandleEnd, CaptureAbandon,
     CaptureShoot, GrabOpens, GrabDone, GrabFails, CaptureCount, FinParkEncode,
     FinDeliver, Leave, Panic, Crash, Exit, ProcessGone, Stop, Done, vars, sys

(* The cover is never torn, for any print and any restarts; and the process *)
(* that films the whole print encodes exactly the frames it counted.        *)
THEOREM VideoIsWhatWasCounted == Spec => []VideoMatches
<1>1. Init => VideoInv
  <2> SUFFICES ASSUME Init PROVE VideoInv
    OBVIOUS
  <2>1. fin.cover # Torn /\ VideoMatches
    BY DEF Init, NoFin, NoVideo, NoFile, Torn, VideoMatches
  <2>2. NoStray
    BY DEF Init, NoStray, Frames
  <2> QED
    BY <2>1, <2>2 DEF VideoInv
<1>2. /\ IInv /\ TypeOK /\ CaptionInv /\ (DrainTimesOut \/ Drained) /\ VideoInv
      /\ [Next]_vars
      => VideoInv'
  <2> SUFFICES ASSUME IInv, TypeOK, CaptionInv, DrainTimesOut \/ Drained, VideoInv,
                      [Next]_vars
               PROVE  VideoInv'
    OBVIOUS
  <2>1. fin'.cover # Torn
    BY CoverStep DEF VideoInv
  <2>2. NoStray'
    BY NoStrayStep
  <2>3. VideoMatches'
    <3>0. world' = world /\ restarts \in Nat
      BY DEF Next, vars, TypeOK
    <3>1. CASE FinEncode
      BY <3>0, <3>1, EncodeMatches
    <3>2. CASE video' = video /\ restarts' \in {restarts, restarts + 1}
      BY <3>0, <3>2, VideoStays DEF VideoInv
    <3> QED
      BY <3>1, <3>2
      DEF Next, Service, NextLayer, EndJob, HandleLayer, HandleEnd, CaptureAbandon,
          CaptureShoot, GrabOpens, GrabDone, GrabFails, CaptureCount, FinDrain, FinCover,
          FinOverlay, FinFill, FinJudge, FinParkEncode, FinDeliver, Leave, Panic, Crash,
          Exit, ProcessGone, Stop, Boot, Done, vars, sys
  <2> QED
    BY <2>1, <2>2, <2>3 DEF VideoInv
<1>3. VideoInv => VideoMatches
  BY DEF VideoInv
<1> QED
  BY <1>1, <1>2, <1>3, Inductive, TypeCorrect, CaptionHolds, DrainHolds, PTL DEF Spec

=============================================================================
