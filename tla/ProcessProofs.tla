--------------------------- MODULE ProcessProofs ----------------------------
(***************************************************************************)
(* What the process leaves behind when it exits, for any number of lost     *)
(* connections, frames and finalizers, and the types of its variables.      *)
(*                                                                         *)
(* NoneAbandoned is not inductive.  It holds because a finalizer is only    *)
(* started while the client is connected, that is while main is in Run, and *)
(* Run leaves through Drain (RunInv); and because the directory of a timed  *)
(* capture is staged exactly while its loop runs (TimedInv).  That the      *)
(* counters of handlers stay within their bounds needs the number of        *)
(* connections there have been (ConnInv).                                   *)
(***************************************************************************)
EXTENDS Process, TLAPS

(* Every connection but the first one follows a lost one.                   *)
ConnInv ==
    /\ link = "none" => due.connect = 0 /\ drops = 0
    /\ link = "trying" => due.connect <= drops
    /\ due.connect <= drops + 1
    /\ due.lost <= drops

(* Where main is while the client is connecting or connected, and while a   *)
(* finalizer is at work.                                                    *)
RunInv ==
    /\ pc \in {"start", "preflight"} => link = "none"
    /\ link \in {"trying", "up"} => pc \in {"connect", "watch"}
    /\ finalizing => pc \in {"connect", "watch", "drain"}

TimedInv ==
    /\ pc \in {"tick", "shoot", "finalize"} <=> shelf = "staged"
    /\ shelf = "none" => frames = 0
    /\ shelf = "discarded" => frames < MinFrames

DebugInv ==
    /\ pc \in {"start", "dial"} => seen = 0
    /\ pc = "snapshot" => seen < messagesToSee

IInv == TypeOK /\ ConnInv /\ RunInv /\ TimedInv /\ DebugInv

USE ConnectionAssumption, ProcessAssumption

-----------------------------------------------------------------------------
(* The connection's steps, with main's goroutine where it is.               *)
LEMMA ConnSteps ==
    ASSUME IInv, ConnNext
    PROVE  /\ ConnTypeOK' /\ ConnInv'
           /\ link' = link \/ (link \in {"trying", "up"} /\ link' \in {"trying", "up"})
<1>0. /\ ConnTypeOK
      /\ due \in [connect : 0..MaxDrops + 1, lost : 0..MaxDrops] /\ drops \in 0..MaxDrops
      /\ due.connect \in Nat /\ due.lost \in Nat /\ drops \in Nat
      /\ due = [connect |-> due.connect, lost |-> due.lost]
  BY DEF IInv, TypeOK, ConnTypeOK
<1>1. CASE SwitchOn
  BY <1>0, <1>1 DEF SwitchOn, handlers, IInv, ConnTypeOK, ConnInv
<1>2. CASE Connects
  <2>1. due.connect <= drops /\ link = "trying" /\ link' = "up"
    BY <1>2 DEF Connects, IInv, ConnInv
  <2>2. due' = [connect |-> due.connect + 1, lost |-> due.lost]
    BY <1>0, <1>2 DEF Connects
  <2>3. due.connect + 1 \in 0..MaxDrops + 1 /\ due.connect + 1 <= drops + 1
    BY <1>0, <2>1
  <2>4. due' \in [connect : 0..MaxDrops + 1, lost : 0..MaxDrops]
    BY <1>0, <2>2, <2>3
  <2>5. ConnTypeOK'
    BY <1>0, <1>2, <2>1, <2>4 DEF Connects, ConnTypeOK
  <2>6. due'.connect <= drops' + 1 /\ due'.lost <= drops'
    BY <1>0, <1>2, <2>2, <2>3 DEF Connects, IInv, ConnInv
  <2> QED
    BY <2>1, <2>5, <2>6 DEF ConnInv
<1>3. CASE Drops
  <2>1. /\ drops' = drops + 1 /\ drops < MaxDrops /\ link = "up" /\ link' = "trying"
        /\ due.connect <= drops + 1 /\ due.lost <= drops
    BY <1>3 DEF Drops, IInv, ConnInv
  <2>2. due' = [connect |-> due.connect, lost |-> due.lost + 1]
    BY <1>0, <1>3 DEF Drops
  <2>3. due.lost + 1 \in 0..MaxDrops /\ drops + 1 \in 0..MaxDrops
    BY <1>0, <2>1
  <2>4. due' \in [connect : 0..MaxDrops + 1, lost : 0..MaxDrops]
    BY <1>0, <2>2, <2>3
  <2>5. ConnTypeOK'
    BY <1>0, <1>3, <2>1, <2>3, <2>4 DEF Drops, ConnTypeOK
  <2>6. due'.connect <= drops' /\ due'.connect <= drops' + 1 /\ due'.lost <= drops'
    BY <1>0, <2>1, <2>2
  <2> QED
    BY <2>1, <2>5, <2>6 DEF ConnInv
<1>4. CASE OnConnect
  <2>1. due' = [connect |-> due.connect - 1, lost |-> due.lost]
    BY <1>0, <1>4 DEF OnConnect
  <2>2. due.connect > 0 /\ link' = link /\ drops' = drops
    BY <1>4 DEF OnConnect
  <2>3. due' \in [connect : 0..MaxDrops + 1, lost : 0..MaxDrops]
    BY <1>0, <2>1, <2>2
  <2>4. ConnTypeOK'
    BY <1>0, <1>4, <2>3 DEF OnConnect, ConnTypeOK
  <2>5. ConnInv'
    BY <1>0, <2>1, <2>2 DEF IInv, ConnInv
  <2> QED
    BY <2>2, <2>4, <2>5
<1>5. CASE ConnectionLost
  <2>1. due' = [connect |-> due.connect, lost |-> due.lost - 1]
    BY <1>0, <1>5 DEF ConnectionLost
  <2>2. due.lost > 0 /\ link' = link /\ drops' = drops
    BY <1>5 DEF ConnectionLost
  <2>3. due' \in [connect : 0..MaxDrops + 1, lost : 0..MaxDrops]
    BY <1>0, <2>1, <2>2
  <2>4. overtaken' \in BOOLEAN
    BY <1>5, Zenon DEF ConnectionLost
  <2>5. ConnTypeOK'
    BY <1>0, <1>5, <2>3, <2>4 DEF ConnectionLost, ConnTypeOK
  <2>6. ConnInv'
    BY <1>0, <2>1, <2>2 DEF IInv, ConnInv
  <2> QED
    BY <2>2, <2>5, <2>6
<1>6. CASE Subscribe
  BY <1>0, <1>6 DEF Subscribe, IInv, ConnTypeOK, ConnInv
<1>7. CASE AskSnapshot
  BY <1>0, <1>7 DEF AskSnapshot, IInv, ConnTypeOK, ConnInv
<1>8. CASE OnMessage
  BY <1>0, <1>8 DEF OnMessage, handlers, IInv, ConnTypeOK, ConnInv
<1>9. CASE Tick
  <2>1. age' \in 0..reportStaleAfter
    BY <1>9 DEF Tick
  <2> QED
    BY <1>0, <1>9, <2>1 DEF Tick, handlers, IInv, ConnTypeOK, ConnInv
<1> QED
  BY <1>1, <1>2, <1>3, <1>4, <1>5, <1>6, <1>7, <1>8, <1>9 DEF ConnNext, Client

(* What carries over when the connection does not move.                     *)
LEMMA ConnStays ==
    ASSUME IInv, UNCHANGED connVars
    PROVE  ConnTypeOK' /\ ConnInv'
BY DEF connVars, handlers, IInv, TypeOK, ConnTypeOK, ConnInv

(* Run, from the preflight to the drain, keeps the invariant,               *)
LEMMA RunSteps == ASSUME IInv, UNCHANGED args, Run PROVE IInv'
<1> USE DEF IInv, TypeOK, RunInv, TimedInv, DebugInv, args, timedVars, debugVars
<1>1. CASE Start
  BY <1>1, ConnStays DEF Start, Exit, connVars
<1>2. CASE Preflight
  <2>1. ConnTypeOK' /\ ConnInv'
    BY <1>2 DEF Preflight, handlers, ConnTypeOK, ConnInv
  <2> QED
    BY <1>2, <2>1 DEF Preflight, Exit
<1>3. CASE FirstConnect
  BY <1>3, ConnStays DEF FirstConnect, connVars
<1>4. CASE Disconnect
  <2>1. ConnTypeOK' /\ ConnInv'
    BY <1>4 DEF Disconnect, ConnTypeOK, ConnInv
  <2> QED
    BY <1>4, <2>1 DEF Disconnect
<1>5. CASE Drain
  BY <1>5, ConnStays DEF Drain, Exit, connVars
<1> QED
  BY <1>1, <1>2, <1>3, <1>4, <1>5 DEF Run

(* so does the timed capture,                                               *)
LEMMA TimedSteps == ASSUME IInv, UNCHANGED args, RunTimed PROVE IInv'
<1> USE DEF IInv, TypeOK, RunInv, TimedInv, DebugInv, args, timedVars, debugVars
<1>0. UNCHANGED connVars
  BY DEF RunTimed, Create, TimedWait, TimedShoot, TimedFinalize
<1>1. ConnTypeOK' /\ ConnInv' /\ link' = link
  BY <1>0, ConnStays DEF connVars
<1>2. CASE Create
  BY <1>1, <1>2 DEF Create, Exit
<1>3. CASE TimedWait
  BY <1>1, <1>3 DEF TimedWait
<1>4. CASE TimedShoot
  <2>1. frames' \in 0..MaxFrames
    BY <1>4 DEF TimedShoot
  <2> QED
    BY <1>1, <1>4, <2>1 DEF TimedShoot
<1>5. CASE TimedFinalize
  <2>1. posted' \in BOOLEAN
    BY <1>5, Zenon DEF TimedFinalize
  <2> QED
    BY <1>1, <1>5, <2>1 DEF TimedFinalize, Exit
<1> QED
  BY <1>2, <1>3, <1>4, <1>5 DEF RunTimed

(* and the debug command.                                                   *)
LEMMA DebugSteps == ASSUME IInv, UNCHANGED args, Debug \/ DebugReport PROVE IInv'
<1> USE DEF IInv, TypeOK, RunInv, TimedInv, DebugInv, args, timedVars, debugVars
<1>0. UNCHANGED connVars
  BY DEF Debug, DebugDial, DebugSees, DebugGivesUp, DebugReport
<1>1. ConnTypeOK' /\ ConnInv' /\ link' = link
  BY <1>0, ConnStays DEF connVars
<1>2. CASE DebugDial
  BY <1>1, <1>2 DEF DebugDial, Exit
<1>3. CASE DebugSees
  <2>1. seen' = seen + 1 /\ seen < messagesToSee /\ seen \in Nat
    BY <1>3 DEF DebugSees
  <2>2. seen' \in 0..messagesToSee /\ (seen' >= messagesToSee \/ seen' < messagesToSee)
    BY <2>1
  <2>3. /\ pc = "snapshot" /\ got' = FALSE
        /\ UNCHANGED <<done, listener, finalizing, frames, shelf, posted>>
        /\ \/ pc' = "exited" /\ code' \in {0, 1}
           \/ seen' < messagesToSee /\ UNCHANGED <<pc, code>>
    BY <1>3, <2>2 DEF DebugSees, Summarise, Exit
  <2>4. TypeOK'
    BY <1>1, <2>2, <2>3
  <2>5. RunInv' /\ TimedInv' /\ DebugInv'
    BY <1>1, <2>3
  <2> QED
    BY <1>1, <2>4, <2>5
<1>4. CASE DebugGivesUp
  BY <1>1, <1>4 DEF DebugGivesUp, Summarise, Exit
<1>5. CASE DebugReport
  BY <1>1, <1>5 DEF DebugReport
<1> QED
  BY <1>2, <1>3, <1>4, <1>5 DEF Debug

(* The other goroutines: Serve, the signal handler, the MQTT callback and   *)
(* the finalizers.                                                          *)
LEMMA OtherSteps ==
    ASSUME IInv, UNCHANGED args, Serve \/ Signal \/ ReportEndsPrint \/ FinalizeEnds
    PROVE  IInv'
<1> USE DEF IInv, TypeOK, RunInv, TimedInv, DebugInv, args, timedVars, debugVars
<1>1. CASE Serve
  <2>1. /\ listener' \in {"up", "failed", "closed"} /\ done' \in BOOLEAN
        /\ UNCHANGED <<pc, code, finalizing, frames, shelf, got, seen, posted>>
    BY <1>1 DEF Serve
  <2>2. ConnTypeOK' /\ ConnInv' /\ link' = link
    BY <1>1, ConnStays DEF Serve, connVars
  <2> QED
    BY <2>1, <2>2
<1>2. CASE Signal
  BY <1>2, ConnStays DEF Signal, connVars
<1>3. CASE ReportEndsPrint
  <2>1. ConnTypeOK' /\ ConnInv' /\ link' = link /\ link = "up"
    BY <1>3, ConnSteps DEF ReportEndsPrint, OnMessage, Hearing, ConnNext
  <2> QED
    BY <1>3, <2>1 DEF ReportEndsPrint
<1>4. CASE FinalizeEnds
  <2>1. done' \in BOOLEAN /\ posted' \in BOOLEAN
    BY <1>4, Zenon DEF FinalizeEnds
  <2>2. ConnTypeOK' /\ ConnInv' /\ link' = link
    BY <1>4, ConnStays DEF FinalizeEnds, connVars
  <2>3. finalizing' = FALSE /\ UNCHANGED <<pc, code, listener, frames, shelf, got, seen>>
    BY <1>4 DEF FinalizeEnds
  <2>4. TypeOK'
    <3>1. /\ cmd' \in Commands /\ limit' \in Limits \cup {0} /\ url' \in BOOLEAN
          /\ pc' = pc /\ code' = code /\ listener' = listener /\ frames' = frames
          /\ shelf' = shelf /\ got' = got /\ seen' = seen
      BY <2>3
    <3> QED
      BY <2>1, <2>2, <2>3, <3>1
  <2>5. RunInv' /\ TimedInv' /\ DebugInv'
    BY <2>2, <2>3
  <2> QED
    BY <2>2, <2>4, <2>5
<1> QED
  BY <1>1, <1>2, <1>3, <1>4

(* The inductive invariant.                                                 *)
LEMMA Inductive == Spec => []IInv
<1>1. Init => IInv
  <2> SUFFICES ASSUME Init PROVE IInv
    OBVIOUS
  <2>0. ConnInit
    BY DEF Init
  <2>1. due \in [connect : 0..MaxDrops + 1, lost : 0..MaxDrops] /\ drops \in 0..MaxDrops
        /\ due.connect = 0 /\ due.lost = 0 /\ drops = 0
    BY <2>0 DEF ConnInit
  <2>2. ConnTypeOK
    BY <2>0, <2>1 DEF ConnInit, ConnTypeOK
  <2>3. ConnInv
    BY <2>1 DEF ConnInv
  <2>4. limit \in Limits \cup {0}
    BY DEF Init
  <2>5. seen = 0 /\ frames = 0 /\ seen < messagesToSee /\ frames \in 0..MaxFrames
        /\ seen \in 0..messagesToSee
    BY DEF Init
  <2>6. TypeOK
    BY <2>2, <2>4, <2>5 DEF Init, TypeOK
  <2> QED
    BY <2>0, <2>3, <2>5, <2>6 DEF Init, ConnInit, IInv, RunInv, TimedInv, DebugInv
<1>2. IInv /\ [Next]_vars => IInv'
  <2> SUFFICES ASSUME IInv, [Next]_vars PROVE IInv'
    OBVIOUS
  <2>0. UNCHANGED args
    BY DEF Next, vars
  <2>1. CASE Run
    BY <2>0, <2>1, RunSteps
  <2>2. CASE RunTimed
    BY <2>0, <2>2, TimedSteps
  <2>3. CASE Debug \/ DebugReport
    BY <2>0, <2>3, DebugSteps
  <2>4. CASE Serve \/ Signal \/ ReportEndsPrint \/ FinalizeEnds
    BY <2>0, <2>4, OtherSteps
  <2>5. CASE Alive /\ ConnNext /\ UNCHANGED procVars
    <3>1. /\ ConnTypeOK' /\ ConnInv'
          /\ link' = link \/ (link \in {"trying", "up"} /\ link' \in {"trying", "up"})
      BY <2>5, ConnSteps
    <3> QED
      BY <2>0, <2>5, <3>1 DEF args, procVars, timedVars, debugVars, IInv, TypeOK, RunInv,
         TimedInv, DebugInv
  <2>6. CASE UNCHANGED <<procVars, connVars>>
    <3>1. ConnTypeOK' /\ ConnInv' /\ link' = link
      BY <2>6, ConnStays DEF connVars
    <3> QED
      BY <2>0, <2>6, <3>1 DEF args, procVars, timedVars, debugVars, IInv, TypeOK, RunInv,
         TimedInv, DebugInv
  <2> QED
    BY <2>1, <2>2, <2>3, <2>4, <2>5, <2>6 DEF Next, Rest, vars
<1> QED
  BY <1>1, <1>2, PTL DEF Spec

(* Every variable keeps its type, for any number of lost connections: the   *)
(* handlers still to run never outnumber the connections there have been.   *)
THEOREM TypeCorrect == Spec => []TypeOK
<1>1. IInv => TypeOK
  BY DEF IInv
<1> QED
  BY <1>1, Inductive, PTL

(* The process exits with no finalizer at work, no timed capture in the     *)
(* staging directory, and nothing thrown away but too few frames.           *)
THEOREM ExitAbandonsNothing == Spec => []NoneAbandoned
<1>1. IInv => NoneAbandoned
  <2> SUFFICES ASSUME IInv, ~Alive PROVE NoneAbandoned
    BY DEF NoneAbandoned
  <2>1. ~finalizing /\ shelf # "staged"
    BY DEF IInv, RunInv, TimedInv, Alive
  <2>2. frames >= MinFrames /\ frames > 0 => shelf \in {"parked", "dropped", "delivered"}
    <3>1. frames \in Nat /\ MinFrames \in Nat
          /\ shelf \in {"none", "staged", "discarded", "parked", "dropped", "delivered"}
      BY DEF IInv, TypeOK
    <3>2. (shelf = "none" => frames = 0) /\ (shelf = "discarded" => frames < MinFrames)
      BY DEF IInv, TimedInv
    <3> QED
      BY <2>1, <3>1, <3>2
  <2> QED
    BY <2>1, <2>2 DEF NoneAbandoned
<1> QED
  BY <1>1, Inductive, PTL
=============================================================================
