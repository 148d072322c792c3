---------------------------- MODULE EncodeProofs ----------------------------
(***************************************************************************)
(* The encode theorems, for any frame rate, any holds, any length and any   *)
(* set of ffmpeg builds.                                                    *)
(*                                                                         *)
(* FootageSurvives says where pc is; to be inductive it must know that what *)
(* preflight left on is what the build can do (Degraded), that the options  *)
(* ask for no more, and that no preview is half written (Arrived) unless    *)
(* the encode was early.                                                    *)
(***************************************************************************)
EXTENDS Encode, TLAPS

USE EncodeAssumption

Shape ==
    /\ host \in [ffmpeg : BOOLEAN, writable : BOOLEAN, filters : Builds]
    /\ cfg \in [overlay : BOOLEAN, font : BOOLEAN, crop : BOOLEAN,
                intro : Nat, tail : Nat]
    /\ frames \in Nat
    /\ opts \in [crop : BOOLEAN, intro : Nat, outro : Nat, tail : Nat,
                 overlay : Captions]
    /\ preview \in {"none", "fetching", "torn", "whole"}
    /\ sized \in BOOLEAN
    /\ late \in BOOLEAN

Degraded == pc \notin {"boot", "refused"} /\ cfg.tail > 0 => "tpad" \in host.filters

Arrived == pc \in {"encode", "tell", "told"} /\ ~late => preview \in {"none", "whole"}

Survives ==
    /\ Shape
    /\ Degraded
    /\ Arrived
    /\ pc = "encode" => opts.tail <= cfg.tail
    /\ FootageSurvives

(* DurationHonest needs what the options have to do with the configuration, *)
(* and what the video made from them runs for.                              *)
Drawn ==
    pc = "encode" =>
        /\ opts.tail = cfg.tail
        /\ opts.outro \in {0, cfg.tail}
        /\ ~late => opts.intro = IF PreviewPath THEN cfg.intro ELSE 0

Timed ==
    /\ pc = "tell" /\ sized /\ ~late =>
         length = frames + FPS * (cfg.tail + (IF PreviewPath THEN cfg.intro ELSE 0))
    /\ DurationHonest

Honest == Shape /\ Arrived /\ Drawn /\ Timed

Concat == \A b \in Builds : "concat" \in b

(* The shape of the state: at the start.                                    *)
LEMMA ShapeInit == Init => Shape
<1> SUFFICES ASSUME Init PROVE Shape
  OBVIOUS
<1>1. sized \in BOOLEAN /\ late \in BOOLEAN
  BY Zenon DEF Init
<1> QED
  BY <1>1 DEF Init, Shape, Unset, Holds, Captions

(* The shape of the state: one step.                                        *)
LEMMA ShapeStep == Shape /\ [Next]_vars => Shape'
<1> SUFFICES ASSUME Shape, [Next]_vars PROVE Shape'
  OBVIOUS
<1> USE DEF Shape, Captions
<1>1. CASE Preflight
  <2>1. CASE UNCHANGED <<cfg, preview>>
    BY <1>1, <2>1 DEF Preflight
  <2>2. ASSUME NEW sup, cfg' = CaptionChecks(sup) PROVE Shape'
    <3>1. (cfg.font /\ {"drawtext", "sendcmd"} \subseteq sup) \in BOOLEAN
      OBVIOUS
    <3>2. cfg' \in [overlay : BOOLEAN, font : BOOLEAN, crop : BOOLEAN,
                    intro : Nat, tail : Nat]
      BY <2>2, <3>1 DEF CaptionChecks
    <3>3. preview' \in {"none", "fetching", "torn", "whole"}
      BY <1>1 DEF Preflight
    <3> QED
      BY <1>1, <3>2, <3>3 DEF Preflight
  <2> QED
    BY <1>1, <2>1, <2>2 DEF Preflight
<1>2. CASE FetchPreview
  BY <1>2 DEF FetchPreview
<1>3. CASE StartEncode
  <2>1. Overlay \in Captions
    BY DEF Overlay
  <2>2. late' \in BOOLEAN
    <3>1. late' = (preview \in {"fetching", "torn"})
      BY <1>3 DEF StartEncode
    <3>2. (preview \in {"fetching", "torn"}) \in BOOLEAN
      OBVIOUS
    <3> QED
      BY <3>1, <3>2, Zenon
  <2> QED
    BY <1>3, <2>1, <2>2 DEF StartEncode
<1>4. CASE Encode
  <2>1. sized' \in BOOLEAN
    BY <1>4 DEF Encode, TargetSize
  <2> QED
    BY <1>4, <2>1 DEF Encode, EncodeRuns, EncodeFails
<1>5. CASE Tell
  BY <1>5 DEF Tell
<1>6. CASE Rest \/ UNCHANGED vars
  BY <1>6 DEF Rest, vars
<1> QED
  BY <1>1, <1>2, <1>3, <1>4, <1>5, <1>6 DEF Next

(* A build with concat: one step.                                           *)
LEMMA SurvivesStep == Concat /\ Survives /\ [Next]_vars => Survives'
<1> SUFFICES ASSUME Concat, Survives, [Next]_vars PROVE Survives'
  OBVIOUS
<1>0. Shape'
  BY ShapeStep DEF Survives
<1> USE DEF Survives, Shape, Degraded, Arrived, FootageSurvives
<1>1. CASE Preflight
  BY <1>0, <1>1 DEF Preflight, CaptionChecks, Detect
<1>2. CASE FetchPreview
  BY <1>0, <1>2 DEF FetchPreview, Outcomes
<1>3. CASE StartEncode
  <2>1. ~late' => preview' \in {"none", "whole"}
    BY <1>3 DEF StartEncode
  <2> QED
    BY <1>0, <1>3, <2>1 DEF StartEncode
<1>4. CASE Encode
  <2>0. sized' \in TargetSize /\ (EncodeRuns(sized') \/ EncodeFails(sized'))
    BY <1>4 DEF Encode
  <2>1. pc = "encode" /\ UNCHANGED <<host, cfg, preview, late>>
    BY <1>4 DEF Encode
  <2>2. CASE EncodeRuns(sized')
    BY <1>0, <2>1, <2>2 DEF EncodeRuns
  <2>3. CASE EncodeFails(sized') /\ opts.overlay # "none"
    BY <1>0, <2>1, <2>3 DEF EncodeFails
  <2>4. CASE EncodeFails(sized') /\ opts.overlay = "none"
    <3>1. "concat" \in host.filters
      BY DEF Concat
    <3>2. Tail > 0 => "tpad" \in host.filters
      BY <2>1 DEF Tail
    <3>3. ~Refuses(sized')
      BY <2>4, <3>1, <3>2 DEF Refuses, BuildGraph, OverlayFilters
    <3>4. late \/ ~MayRefuse(sized')
      BY <2>1, <2>4 DEF MayRefuse
    <3> QED
      BY <1>0, <2>1, <2>4, <3>3, <3>4 DEF EncodeFails
  <2> QED
    BY <2>0, <2>2, <2>3, <2>4
<1>5. CASE Tell
  BY <1>0, <1>5 DEF Tell
<1>6. CASE Rest \/ UNCHANGED vars
  BY <1>0, <1>6 DEF Rest, vars, Outcomes
<1> QED
  BY <1>1, <1>2, <1>3, <1>4, <1>5, <1>6 DEF Next

(* Whatever else an ffmpeg build lacks, if it has concat and the preview    *)
(* was settled when the encode began, no caption and no held end costs the  *)
(* recording (captionChecks, encode, buildGraph).                           *)
THEOREM DecorationIsFree == Concat /\ Spec => []FootageSurvives
<1>1. Init => Survives
  BY ShapeInit DEF Init, Survives, Degraded, Arrived, FootageSurvives
<1>2. Survives => FootageSurvives
  BY DEF Survives
<1>3. CASE ~Concat
  BY <1>3
<1>4. CASE Concat
  <2>1. Survives /\ [Next]_vars => Survives'
    BY <1>4, SurvivesStep
  <2> QED
    BY <1>1, <1>2, <2>1, PTL DEF Spec
<1> QED
  BY <1>3, <1>4

-----------------------------------------------------------------------------
(* Whole seconds held at an end do not disturb the division of the rest.    *)
LEMMA HeldSeconds ==
  ASSUME NEW n \in Nat, NEW k \in Nat PROVE (n + FPS * k) \div FPS = (n \div FPS) + k
<1> DEFINE q == n \div FPS  r == n % FPS
<1>1. q \in Nat /\ r \in 0..(FPS - 1) /\ n = FPS * q + r
  OBVIOUS
<1>2. n + FPS * k = FPS * (q + k) + r
  BY <1>1
<1> QED
  BY <1>1, <1>2

(* What the video runs for and what is told of it: one step.                *)
LEMMA HonestStep == Honest /\ [Next]_vars => Honest'
<1> SUFFICES ASSUME Honest, [Next]_vars PROVE Honest'
  OBVIOUS
<1>0. Shape'
  BY ShapeStep DEF Honest
<1> USE DEF Honest, Shape, Arrived, Drawn, Timed, DurationHonest, PreviewPath
<1>1. CASE Preflight
  BY <1>0, <1>1 DEF Preflight
<1>2. CASE FetchPreview
  BY <1>0, <1>2 DEF FetchPreview, Outcomes
<1>3. CASE StartEncode
  <2>1. ~late' => preview' \in {"none", "whole"}
    BY <1>3 DEF StartEncode
  <2> QED
    BY <1>0, <1>3, <2>1 DEF StartEncode
<1>4. CASE Encode
  <2>0. sized' \in TargetSize /\ (EncodeRuns(sized') \/ EncodeFails(sized'))
    BY <1>4 DEF Encode
  <2>1. pc = "encode" /\ UNCHANGED <<cfg, frames, preview, late>>
    BY <1>4 DEF Encode
  <2>2. CASE EncodeFails(sized')
    BY <1>0, <2>1, <2>2 DEF EncodeFails
  <2>3. CASE EncodeRuns(sized')
    <3>1. SUFFICES ASSUME sized', ~late
                   PROVE  length' = frames + FPS * (cfg.tail +
                                        (IF PreviewPath THEN cfg.intro ELSE 0))
      BY <1>0, <2>1, <2>3 DEF EncodeRuns
    <3>2. Tail + Stills(sized') = cfg.tail + (IF PreviewPath THEN cfg.intro ELSE 0)
      BY <2>1, <3>1 DEF Tail, Stills
    <3> QED
      BY <2>3, <3>2 DEF EncodeRuns, Length
  <2> QED
    BY <2>0, <2>2, <2>3
<1>5. CASE Tell
  <2>1. SUFFICES ASSUME sized, ~late PROVE told' = AtLeastOne(length \div FPS)
    BY <1>0, <1>5 DEF Tell
  <2> DEFINE held == cfg.tail + (IF PreviewPath THEN cfg.intro ELSE 0)
  <2>2. held \in Nat /\ length = frames + FPS * held
    BY <1>5, <2>1 DEF Tell
  <2>3. length \div FPS = (frames \div FPS) + held
    BY <2>2, HeldSeconds
  <2>4. frames \div FPS \in Nat
    OBVIOUS
  <2>5. (frames \div FPS) + cfg.tail + (IF PreviewPath THEN cfg.intro ELSE 0)
          = (frames \div FPS) + held
    BY <2>4
  <2> QED
    BY <1>5, <2>3, <2>5 DEF Tell, Duration
<1>6. CASE Rest \/ UNCHANGED vars
  BY <1>0, <1>6 DEF Rest, vars, Outcomes
<1> QED
  BY <1>1, <1>2, <1>3, <1>4, <1>5, <1>6 DEF Next

(* When ffprobe could size a frame and the preview was settled before the   *)
(* encode, the duration posted is the video's, at any frame rate and        *)
(* whichever end is held by a still or by a cloned frame (duration, Encode). *)
THEOREM ToldTheTruth == Spec => []DurationHonest
<1>1. Init => Honest
  BY ShapeInit DEF Init, Honest, Arrived, Drawn, Timed, DurationHonest
<1>2. Honest => DurationHonest
  BY DEF Honest, Timed
<1>3. Honest /\ [Next]_vars => Honest'
  BY HonestStep
<1> QED
  BY <1>1, <1>2, <1>3, PTL DEF Spec

-----------------------------------------------------------------------------
(* Types: the duration told has the bound its parts give it.                *)
LEMMA TypeStep == TypeOK /\ [Next]_vars => TypeOK'
<1> SUFFICES ASSUME TypeOK, [Next]_vars PROVE TypeOK'
  OBVIOUS
<1>0. Shape
  BY DEF TypeOK, Shape, Holds
<1>1. Shape'
  BY <1>0, ShapeStep
<1>2. CASE Preflight
  <2>1. cfg' \in [overlay : BOOLEAN, font : BOOLEAN, crop : BOOLEAN,
                  intro : Holds, tail : Holds]
    <3>1. CASE UNCHANGED cfg
      BY <3>1 DEF TypeOK
    <3>2. ASSUME NEW sup, cfg' = CaptionChecks(sup)
          PROVE  cfg' \in [overlay : BOOLEAN, font : BOOLEAN, crop : BOOLEAN,
                           intro : Holds, tail : Holds]
      <4>1. (cfg.font /\ {"drawtext", "sendcmd"} \subseteq sup) \in BOOLEAN
        OBVIOUS
      <4> QED
        BY <3>2, <4>1 DEF CaptionChecks, TypeOK, Holds
    <3> QED
      BY <1>2, <3>1, <3>2 DEF Preflight
  <2>2. pc' \in {"record", "refused"}
    BY <1>2 DEF Preflight
  <2>3. UNCHANGED <<host, frames, listed, cover, opts, sized, length, told, late>>
    BY <1>2 DEF Preflight
  <2> QED
    BY <1>1, <2>1, <2>2, <2>3 DEF TypeOK, Shape, Outcomes
<1>3. CASE FetchPreview
  BY <1>3 DEF FetchPreview, TypeOK
<1>4. CASE StartEncode
  <2>1. opts' \in [crop : BOOLEAN, intro : Holds, outro : Holds, tail : Holds,
                   overlay : Captions]
    <3>1. Overlay \in Captions
      BY DEF Overlay, Captions
    <3> QED
      BY <1>4, <3>1 DEF StartEncode, TypeOK, Holds
  <2> QED
    BY <1>1, <1>4, <2>1 DEF StartEncode, TypeOK, Shape
<1>5. CASE Encode
  <2>1. opts' \in [crop : BOOLEAN, intro : Holds, outro : Holds, tail : Holds,
                   overlay : Captions]
    BY <1>5 DEF Encode, EncodeRuns, EncodeFails, TypeOK, Captions
  <2>2. Length(sized') \in Nat
    <3>1. Tail + Stills(sized') \in Nat
      BY <1>0 DEF Tail, Stills, Shape
    <3> HIDE DEF Tail, Stills
    <3>2. FPS * (Tail + Stills(sized')) \in Nat
      BY <3>1
    <3> QED
      BY <1>0, <3>2 DEF Length, Shape
  <2>3. length' \in Nat
    BY <1>5, <2>2 DEF Encode, EncodeRuns, EncodeFails, TypeOK
  <2>4. pc' \in {"encode", "tell", "parked"}
    BY <1>5 DEF Encode, EncodeRuns, EncodeFails
  <2>5. UNCHANGED <<host, cfg, frames, listed, cover, preview, told, late>>
    BY <1>5 DEF Encode
  <2> QED
    BY <1>1, <2>1, <2>3, <2>4, <2>5 DEF TypeOK, Shape, Outcomes
<1>6. CASE Tell
  <2>1. frames \in 1..MaxFrames /\ cfg.tail \in 0..MaxHold /\ cfg.intro \in 0..MaxHold
    BY DEF TypeOK, Holds
  <2>2. frames \div FPS \in 0..MaxFrames
    <3> DEFINE q == frames \div FPS
               r == frames % FPS
    <3>1. q \in Nat /\ r \in 0..(FPS - 1) /\ frames = FPS * q + r
      BY <2>1
    <3> HIDE DEF q, r
    <3>2. FPS * q >= q
      <4>1. \A m \in Nat : m * q \in Nat /\ (m + 1) * q = m * q + q
        BY <3>1
      <4>2. FPS - 1 \in Nat /\ FPS = (FPS - 1) + 1
        OBVIOUS
      <4>3. (FPS - 1) * q \in Nat /\ FPS * q = (FPS - 1) * q + q
        BY <4>1, <4>2
      <4> QED
        BY <3>1, <4>3
    <3> QED
      BY <2>1, <3>1, <3>2 DEF q
  <2>3. Duration \in 0..(MaxFrames + 2 * MaxHold)
    BY <2>1, <2>2 DEF Duration, AtLeastOne
  <2> QED
    BY <1>6, <2>3 DEF Tell, TypeOK, Outcomes
<1>7. CASE Rest \/ UNCHANGED vars
  BY <1>7 DEF Rest, vars, TypeOK
<1> QED
  BY <1>2, <1>3, <1>4, <1>5, <1>6, <1>7 DEF Next

(* Every variable keeps its type; the duration sent along is never more     *)
(* than the footage and two held ends (duration).                           *)
THEOREM TypeCorrect == Spec => []TypeOK
<1>1. Init => TypeOK
  <2> SUFFICES ASSUME Init PROVE TypeOK
    OBVIOUS
  <2>1. sized \in BOOLEAN /\ late \in BOOLEAN /\ listed \in BOOLEAN /\ cover \in BOOLEAN
    BY Zenon DEF Init
  <2> QED
    BY <2>1 DEF Init, TypeOK, Unset, Holds, Captions
<1>2. TypeOK /\ [Next]_vars => TypeOK'
  BY TypeStep
<1> QED
  BY <1>1, <1>2, PTL DEF Spec
=============================================================================
