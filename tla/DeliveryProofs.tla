--------------------------- MODULE DeliveryProofs ---------------------------
(***************************************************************************)
(* The delivery theorems, for any set of jobs, any number of attempts and   *)
(* of restarts.                                                             *)
(*                                                                         *)
(* NoNeedlessCopy is not inductive: it must also say that a job still to be *)
(* posted owes no copy at all (Owed).  NeverLost needs that whoever is      *)
(* about to delete has been told of a copy (Told).  Both need SeparateHands *)
(* and that only a request in flight can have been taken.  RefusedRests is  *)
(* an action property; Resting is what its steps start from.                *)
(***************************************************************************)
EXTENDS Delivery, TLAPS

Queued == \A j \in queue : place[j] = "upload-failed" /\ pc[j] = "idle"

DownIdle == proc = "down" => \A j \in Jobs : pc[j] = "idle"

TakenInFlight == \A j \in taken : InFlight(j)

(* record posts nothing, and the daemon saves nothing. *)
LocalHands ==
    /\ Local => /\ \A j \in Jobs : pc[j] \in {"idle", "save", "copying", "discard",
                                              "parkLocal"}
                /\ queue = {}
    /\ ~Local => \A j \in Jobs : pc[j] \notin {"save", "copying", "parkLocal"}

Settled(j) == j \in taken \/ pc[j] \in {"discard", "remove"} \/ place[j] = "gone"

Owed ==
    \A j \in Jobs :
        IF Local THEN copies[j] <= 1
        ELSE copies[j] <= lost[j] + (IF Settled(j) THEN 1 ELSE 0)

Told ==
    \A j \in Jobs : j \in taken \/ pc[j] \in {"discard", "remove"} => copies[j] > 0

Hands ==
    /\ TypeOK
    /\ SeparateHands
    /\ Queued
    /\ DownIdle
    /\ TakenInFlight
    /\ LocalHands

USE DeliveryAssumption

(* The command line is read once.                                           *)
LEMMA ModeFixed == [Next]_vars => mode' = mode
  BY DEF Next, vars

(* Types: one step.                                                         *)
LEMMA TypeStep == TypeOK /\ [Next]_vars => TypeOK'
<1> SUFFICES ASSUME TypeOK, [Next]_vars, mode' = mode PROVE TypeOK'
  BY ModeFixed
<1> USE DEF TypeOK, Parked
<1>1. ASSUME NEW j \in Jobs, Finalizer(j) PROVE TypeOK'
  <2> USE DEF At, Goto
  <2>1. CASE Encoded(j) \/ Post(j)
    BY <2>1 DEF Encoded, Post, destination, history
  <2>2. CASE EncodeFails(j) \/ ParkUpload(j) \/ ParkLocal(j)
    BY <2>2 DEF EncodeFails, ParkUpload, ParkLocal, MoveTo, Sticks, destination, history
  <2>3. CASE LocalSave(j) \/ LocalCopy(j)
    BY <2>3 DEF LocalSave, LocalCopy, history
  <2>4. CASE ReplyOK(j)
    BY <2>4 DEF ReplyOK, history
  <2>5. CASE ReplyRetryable(j) \/ ReplyTerminal(j)
    BY <2>5 DEF ReplyRetryable, ReplyTerminal, Unanswered
  <2>6. CASE Backoff(j)
    BY <2>6 DEF Backoff, destination, history
  <2>7. CASE Discard(j)
    BY <2>7 DEF Discard, Remove, Sticks, destination, history
  <2> QED
    BY <1>1, <2>1, <2>2, <2>3, <2>4, <2>5, <2>6, <2>7 DEF Finalizer
<1>2. ASSUME NEW j \in Jobs, Retry(j) PROVE TypeOK'
  <2> USE DEF At, Goto
  <2>1. CASE RetryPost(j)
    BY <2>1 DEF RetryPost, destination, history
  <2>2. CASE RetryOK(j)
    BY <2>2 DEF RetryOK, history
  <2>3. CASE RetryFails(j)
    BY <2>3 DEF RetryFails, Unanswered
  <2>4. CASE RetryRemove(j)
    BY <2>4 DEF RetryRemove, Remove, Sticks, destination, history
  <2> QED
    BY <1>2, <2>1, <2>2, <2>3, <2>4 DEF Retry
<1>3. ASSUME NEW j \in Jobs, Take(j) PROVE TypeOK'
  BY <1>3 DEF Take, history
<1>4. ASSUME NEW j \in Jobs, Expire(j) PROVE TypeOK'
  BY <1>4 DEF Expire, destination, history
<1>5. CASE Crash
  BY <1>5 DEF Crash, ProcessGone
<1>6. CASE Exit
  BY <1>6 DEF Exit, ProcessGone
<1>7. CASE Stop
  BY <1>7 DEF Stop, destination, history
<1>8. CASE Boot
  BY <1>8 DEF Boot, destination
<1>9. CASE Rest \/ UNCHANGED vars
  BY <1>9 DEF Rest, vars, sys, destination, history
<1> QED
  BY <1>1, <1>2, <1>3, <1>4, <1>5, <1>6, <1>7, <1>8, <1>9 DEF Next

(* The finalizer and the retry keep to their own directories.               *)
LEMMA HandsStep == Hands /\ [Next]_vars => Hands'
<1> SUFFICES ASSUME Hands, [Next]_vars, mode' = mode PROVE Hands'
  BY ModeFixed
<1>0. TypeOK'
  BY TypeStep DEF Hands
<1> USE DEF Hands, TypeOK, SeparateHands, Queued, DownIdle, TakenInFlight, InFlight,
        LocalHands, Local
<1>1. ASSUME NEW j \in Jobs, Finalizer(j) PROVE Hands'
  <2> USE DEF At, Goto
  <2>1. CASE Encoded(j) \/ Post(j) \/ Backoff(j)
    BY <1>0, <2>1 DEF Encoded, Post, Backoff, destination
  <2>2. CASE EncodeFails(j) \/ ParkUpload(j) \/ ParkLocal(j)
    BY <1>0, <2>2 DEF EncodeFails, ParkUpload, ParkLocal, MoveTo, Sticks, destination
  <2>3. CASE LocalSave(j) \/ LocalCopy(j)
    BY <1>0, <2>3 DEF LocalSave, LocalCopy
  <2>4. CASE ReplyOK(j)
    BY <1>0, <2>4 DEF ReplyOK
  <2>5. CASE ReplyRetryable(j) \/ ReplyTerminal(j)
    BY <1>0, <2>5 DEF ReplyRetryable, ReplyTerminal, Unanswered
  <2>7. CASE Discard(j)
    BY <1>0, <2>7 DEF Discard, Remove, Sticks, destination
  <2> QED
    BY <1>1, <2>1, <2>2, <2>3, <2>4, <2>5, <2>7 DEF Finalizer
<1>2. ASSUME NEW j \in Jobs, Retry(j) PROVE Hands'
  <2> USE DEF At, Goto
  <2>1. CASE RetryPost(j)
    BY <1>0, <2>1 DEF RetryPost, destination
  <2>2. CASE RetryOK(j)
    BY <1>0, <2>2 DEF RetryOK
  <2>3. CASE RetryFails(j)
    BY <1>0, <2>3 DEF RetryFails, Unanswered
  <2>4. CASE RetryRemove(j)
    BY <1>0, <2>4 DEF RetryRemove, Remove, Sticks, destination
  <2> QED
    BY <1>2, <2>1, <2>2, <2>3, <2>4 DEF Retry
<1>3. ASSUME NEW j \in Jobs, Take(j) PROVE Hands'
  BY <1>0, <1>3 DEF Take
<1>4. ASSUME NEW j \in Jobs, Expire(j) PROVE Hands'
  BY <1>0, <1>4 DEF Expire, destination
<1>5. CASE Crash \/ Exit
  BY <1>0, <1>5 DEF Crash, Exit, ProcessGone
<1>7. CASE Stop
  BY <1>0, <1>7 DEF Stop, destination
<1>8. CASE Boot
  BY <1>0, <1>8 DEF Boot, destination, Parked
<1>9. CASE Rest \/ UNCHANGED vars
  BY <1>0, <1>9 DEF Rest, vars, sys, destination
<1> QED
  BY <1>1, <1>2, <1>3, <1>4, <1>5, <1>7, <1>8, <1>9 DEF Next

(* No one is at work at the start.                                          *)
LEMMA HandsInit == Init => Hands
  BY DEF Init, Hands, TypeOK, Parked, SeparateHands, Queued, DownIdle, TakenInFlight,
         LocalHands, Local

(* What the service owes: one step.                                         *)
LEMMA OwedStep == Hands /\ Owed /\ [Next]_vars => Owed'
<1> SUFFICES ASSUME Hands, Owed, [Next]_vars, mode' = mode PROVE Owed'
  BY ModeFixed
<1> USE DEF Hands, TypeOK, SeparateHands, TakenInFlight, InFlight, Owed, Settled, LocalHands,
        Local
<1>1. ASSUME NEW j \in Jobs, Finalizer(j) PROVE Owed'
  <2> USE DEF At, Goto, destination, history
  <2>1. CASE Encoded(j) \/ Post(j) \/ Backoff(j)
    BY <2>1 DEF Encoded, Post, Backoff
  <2>2. CASE EncodeFails(j) \/ ParkUpload(j) \/ ParkLocal(j)
    BY <2>2 DEF EncodeFails, ParkUpload, ParkLocal, MoveTo, Sticks
  <2>3. CASE LocalSave(j) \/ LocalCopy(j)
    BY <2>3 DEF LocalSave, LocalCopy
  <2>4. CASE ReplyOK(j)
    BY <2>4 DEF ReplyOK
  <2>5. CASE ReplyRetryable(j) \/ ReplyTerminal(j)
    BY <2>5 DEF ReplyRetryable, ReplyTerminal, Unanswered
  <2>6. CASE Discard(j)
    BY <2>6 DEF Discard, Remove, Sticks
  <2> QED
    BY <1>1, <2>1, <2>2, <2>3, <2>4, <2>5, <2>6 DEF Finalizer
<1>2. ASSUME NEW j \in Jobs, Retry(j) PROVE Owed'
  <2> USE DEF At, Goto, destination, history
  <2>1. CASE RetryPost(j)
    BY <2>1 DEF RetryPost
  <2>2. CASE RetryOK(j)
    BY <2>2 DEF RetryOK
  <2>3. CASE RetryFails(j)
    BY <2>3 DEF RetryFails, Unanswered
  <2>4. CASE RetryRemove(j)
    BY <2>4 DEF RetryRemove, Remove, Sticks
  <2> QED
    BY <1>2, <2>1, <2>2, <2>3, <2>4 DEF Retry
<1>3. ASSUME NEW j \in Jobs, Take(j) PROVE Owed'
  BY <1>3 DEF Take, history
<1>4. ASSUME NEW j \in Jobs, Expire(j) PROVE Owed'
  BY <1>4 DEF Expire, destination, history
<1>5. CASE Crash \/ Exit
  BY <1>5 DEF Crash, Exit, ProcessGone
<1>6. CASE Stop
  BY <1>6 DEF Stop, destination, history
<1>7. CASE Boot
  BY <1>7 DEF Boot, destination
<1>8. CASE Rest \/ UNCHANGED vars
  BY <1>8 DEF Rest, vars, sys, destination, history
<1> QED
  BY <1>1, <1>2, <1>3, <1>4, <1>5, <1>6, <1>7, <1>8 DEF Next

(* Nothing is deleted on hearsay: one step.                                 *)
LEMMA ToldStep == Hands /\ Told /\ NeverLost /\ [Next]_vars => Told' /\ NeverLost'
<1> SUFFICES ASSUME Hands, Told, NeverLost, [Next]_vars, mode' = mode
             PROVE  Told' /\ NeverLost'
  BY ModeFixed
<1> USE DEF Hands, TypeOK, SeparateHands, TakenInFlight, InFlight, Told, NeverLost
<1>1. ASSUME NEW j \in Jobs, Finalizer(j) PROVE Told' /\ NeverLost'
  <2> USE DEF At, Goto, destination, history
  <2>1. CASE Encoded(j) \/ Post(j) \/ Backoff(j)
    BY <2>1 DEF Encoded, Post, Backoff
  <2>2. CASE EncodeFails(j) \/ ParkUpload(j) \/ ParkLocal(j)
    BY <2>2 DEF EncodeFails, ParkUpload, ParkLocal, MoveTo, Sticks
  <2>3. CASE LocalSave(j) \/ LocalCopy(j)
    BY <2>3 DEF LocalSave, LocalCopy
  <2>4. CASE ReplyOK(j)
    BY <2>4 DEF ReplyOK
  <2>5. CASE ReplyRetryable(j) \/ ReplyTerminal(j)
    BY <2>5 DEF ReplyRetryable, ReplyTerminal, Unanswered
  <2>6. CASE Discard(j)
    BY <2>6 DEF Discard, Remove, Sticks
  <2> QED
    BY <1>1, <2>1, <2>2, <2>3, <2>4, <2>5, <2>6 DEF Finalizer
<1>2. ASSUME NEW j \in Jobs, Retry(j) PROVE Told' /\ NeverLost'
  <2> USE DEF At, Goto, destination, history
  <2>1. CASE RetryPost(j)
    BY <2>1 DEF RetryPost
  <2>2. CASE RetryOK(j)
    BY <2>2 DEF RetryOK
  <2>3. CASE RetryFails(j)
    BY <2>3 DEF RetryFails, Unanswered
  <2>4. CASE RetryRemove(j)
    BY <2>4 DEF RetryRemove, Remove, Sticks
  <2> QED
    BY <1>2, <2>1, <2>2, <2>3, <2>4 DEF Retry
<1>3. ASSUME NEW j \in Jobs, Take(j) PROVE Told' /\ NeverLost'
  BY <1>3 DEF Take, history
<1>4. ASSUME NEW j \in Jobs, Expire(j) PROVE Told' /\ NeverLost'
  BY <1>4 DEF Expire, destination, history
<1>5. CASE Crash \/ Exit
  BY <1>5 DEF Crash, Exit, ProcessGone
<1>6. CASE Stop
  BY <1>6 DEF Stop, destination, history
<1>7. CASE Boot
  BY <1>7 DEF Boot, destination
<1>8. CASE Rest \/ UNCHANGED vars
  BY <1>8 DEF Rest, vars, sys, destination, history
<1> QED
  BY <1>1, <1>2, <1>3, <1>4, <1>5, <1>6, <1>7, <1>8 DEF Next

-----------------------------------------------------------------------------
(* Every reachable state is well formed, and who works on what stays clear. *)
THEOREM HandsInvariant == Spec => []Hands
<1>1. Init => Hands
  BY HandsInit
<1>2. Hands /\ [Next]_vars => Hands'
  BY HandsStep
<1> QED
  BY <1>1, <1>2, PTL DEF Spec

(* The delivery state stays in its type, the upload loop's counter within   *)
(* its attempts included.                                                   *)
THEOREM TypeCorrect == Spec => []TypeOK
<1>1. Hands => TypeOK
  BY DEF Hands
<1> QED
  BY <1>1, HandsInvariant, PTL

(* finalize and retryParked never work on the same directory, however many  *)
(* jobs there are and whenever the process stops or dies.                   *)
THEOREM HandsSeparate == Spec => []SeparateHands
<1>1. Hands => SeparateHands
  BY DEF Hands
<1> QED
  BY <1>1, HandsInvariant, PTL

(* Copies at the destination beyond the first are accounted for by answers  *)
(* the service never acted on, whatever it is that uploadAttempts is.       *)
THEOREM CopiesAccounted == Spec => []NoNeedlessCopy
<1>1. Init => Owed
  BY DEF Init, Owed, Settled, Local
<1>2. Hands /\ Owed /\ [Next]_vars => Owed'
  BY OwedStep
<1>3. Hands /\ Owed => NoNeedlessCopy
  BY DEF Hands, TypeOK, Owed, NoNeedlessCopy
<1> QED
  BY <1>1, <1>2, <1>3, HandsInvariant, PTL DEF Spec

(* A recording is deleted only once the destination holds it, or by         *)
(* SweepFailed when its time is up (a Park whose rename failed aside).      *)
THEOREM NothingLost == Spec => []NeverLost
<1>1. Init => Told /\ NeverLost
  BY DEF Init, Told, NeverLost
<1>2. Hands /\ Told /\ NeverLost /\ [Next]_vars => Told' /\ NeverLost'
  BY ToldStep
<1> QED
  BY <1>1, <1>2, HandsInvariant, PTL DEF Spec

-----------------------------------------------------------------------------
(* A video refused for good is parked or on its way there, and the retry    *)
(* of this process does not know of it.                                     *)
Resting ==
    \A j \in refused :
        /\ pc[j] \in {"idle", "park"} /\ j \notin queue
        /\ pc[j] = "idle" /\ proc # "down" => place[j] # "staging"

(* The refused ones rest, and are not posted: one step.                     *)
LEMMA RestingStep ==
    ASSUME Hands, Resting, [Next]_vars
    PROVE  /\ Resting'
           /\ \A j \in refused : InFlight(j)' => InFlight(j) \/ proc = "down"
<1> DEFINE Goal == /\ Resting'
                   /\ \A j \in refused : InFlight(j)' => InFlight(j) \/ proc = "down"
<1> USE DEF Hands, TypeOK, SeparateHands, Queued, InFlight, Resting
<1>1. ASSUME NEW j \in Jobs, Finalizer(j) PROVE Goal
  <2> USE DEF At, Goto, destination, history
  <2>1. CASE Encoded(j) \/ Post(j) \/ Backoff(j)
    BY <2>1 DEF Encoded, Post, Backoff
  <2>2. CASE EncodeFails(j) \/ ParkUpload(j) \/ ParkLocal(j)
    BY <2>2 DEF EncodeFails, ParkUpload, ParkLocal, MoveTo, Sticks
  <2>3. CASE LocalSave(j) \/ LocalCopy(j)
    BY <2>3 DEF LocalSave, LocalCopy
  <2>4. CASE ReplyOK(j) \/ ReplyRetryable(j)
    BY <2>4 DEF ReplyOK, ReplyRetryable
  <2>5. CASE ReplyTerminal(j)
    BY <2>5 DEF ReplyTerminal
  <2>6. CASE Discard(j)
    BY <2>6 DEF Discard, Remove, Sticks
  <2> QED
    BY <1>1, <2>1, <2>2, <2>3, <2>4, <2>5, <2>6 DEF Finalizer
<1>2. ASSUME NEW j \in Jobs, Retry(j) PROVE Goal
  <2> USE DEF At, Goto, destination, history
  <2>1. CASE RetryPost(j)
    BY <2>1 DEF RetryPost
  <2>2. CASE RetryOK(j) \/ RetryFails(j)
    BY <2>2 DEF RetryOK, RetryFails
  <2>3. CASE RetryRemove(j)
    BY <2>3 DEF RetryRemove, Remove, Sticks
  <2> QED
    BY <1>2, <2>1, <2>2, <2>3 DEF Retry
<1>3. ASSUME NEW j \in Jobs, Take(j) \/ Expire(j) PROVE Goal
  BY <1>3 DEF Take, Expire, history
<1>4. CASE Crash \/ Exit
  BY <1>4 DEF Crash, Exit, ProcessGone
<1>5. CASE Stop
  BY <1>5 DEF Stop, history
<1>6. CASE Boot
  BY <1>6 DEF Boot
<1>7. CASE Rest \/ UNCHANGED vars
  BY <1>7 DEF Rest, vars, sys, history
<1> QED
  BY <1>1, <1>2, <1>3, <1>4, <1>5, <1>6, <1>7 DEF Next

(* A video the destination refused for good is not posted again by this     *)
(* process, neither by the upload loop nor by the retry (the break on       *)
(* !Retryable, retryParked's one listing), whatever the other jobs do.      *)
THEOREM RefusedNotPosted == Spec => RefusedRests
<1>1. Init => Resting
  BY DEF Init, Resting
<1>2. Hands /\ Resting /\ [Next]_vars => Resting'
  BY RestingStep
<1>3. Hands /\ Resting /\ [Next]_vars
        => [\A j \in refused : InFlight(j)' => InFlight(j) \/ proc = "down"]_vars
  BY RestingStep
<1> QED
  BY <1>1, <1>2, <1>3, HandsInvariant, PTL DEF Spec, RefusedRests
=============================================================================
