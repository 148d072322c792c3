----------------------------- MODULE Delivery ------------------------------
(***************************************************************************)
(* What happens to an encoded video: finalize's upload loop, uploader.Post, *)
(* deliverLocally, Discard and Park, and at the next start SweepFailed and  *)
(* retryParked.  A job is one directory.  Its finalizer runs while the      *)
(* directory is in staging, the retry goroutine posts the ones under        *)
(* failed/upload-failed-* one at a time; both can die with the process.     *)
(*                                                                         *)
(* The destination is external: it may take a video and fail to say so.     *)
(***************************************************************************)
EXTENDS Integers, FiniteSets

CONSTANTS
    Jobs,
    uploadAttempts, \* attempts per finalizer
    Modes,          \* how the program may have been started
    MaxRestarts,    \* bound: crashes and shutdowns
    MaxStuck        \* bound: removals that fail

ASSUME DeliveryAssumption ==
    /\ uploadAttempts \in Nat \ {0}
    /\ Modes \subseteq {"post", "local", "once"}
    /\ MaxRestarts \in Nat /\ MaxStuck \in Nat

VARIABLES
    mode,       \* "post", or record's "local" and "once"; never changes
    proc,       \* "up", "stopping" or "down"
    place,      \* where the job's directory is; "left": still in staging,
                \*   though its finalizer is done with it
    pc,         \* of whoever is at work on it
    attempt,    \* the upload loop's counter
    queue,      \* parked jobs retryParked listed and has not come to
    expired,    \* parked past FAILED_TTL_DAYS
    \* the destination
    taken,      \* it holds the video of the request in flight
    copies,     \* copies it holds
    \* history
    lost,       \* copies it took that the service did not act on
    refused,    \* jobs refused for good since the process started
    swept,      \* jobs SweepFailed deleted
    stuck,      \* removals that failed
    restarts

destination == <<taken, copies>>
history     == <<lost, refused, swept, stuck>>
sys  == <<proc, place, pc, attempt, queue, expired, destination, history, restarts>>
vars == <<mode, sys>>

(* cfg.APIURL is empty: save instead of post.                              *)
Local == mode # "post"

(* cfg.Once: end the run after the first recording.                        *)
Once == mode = "once"

Parked == {"upload-failed", "encode-failed", "output-unwritable"}

TypeOK ==
    /\ mode \in Modes
    /\ proc \in {"up", "stopping", "down"}
    /\ place \in [Jobs -> {"staging", "left", "gone", "dropped"} \cup Parked]
    /\ pc \in [Jobs -> {"idle", "post", "sent", "backoff", "park", "save", "copying",
                        "parkLocal", "discard", "retrying", "remove"}]
    /\ attempt \in [Jobs -> 0..uploadAttempts]
    /\ queue \subseteq Jobs
    /\ expired \subseteq Jobs
    /\ taken \subseteq Jobs
    /\ copies \in [Jobs -> Nat]
    /\ lost \in [Jobs -> Nat]
    /\ refused \subseteq Jobs
    /\ swept \subseteq Jobs
    /\ stuck \in 0..MaxStuck
    /\ restarts \in 0..MaxRestarts

Init ==
    /\ mode \in Modes
    /\ proc = "up"
    /\ place = [j \in Jobs |-> "staging"]
    /\ pc = [j \in Jobs |-> "idle"]
    /\ attempt = [j \in Jobs |-> 0]
    /\ queue = {}
    /\ expired = {}
    /\ taken = {}
    /\ copies = [j \in Jobs |-> 0]
    /\ lost = [j \in Jobs |-> 0]
    /\ refused = {}
    /\ swept = {}
    /\ stuck = 0
    /\ restarts = 0

Goto(j, label) == pc' = [pc EXCEPT ![j] = label]

At(j, label) == pc[j] = label /\ proc # "down"

-----------------------------------------------------------------------------
(* finalize, from the encode on.                                           *)

(* The job's finalizer has a video: on to the loop, or to the output        *)
(* directory.                                                               *)
Encoded(j) ==
    /\ At(j, "idle")
    /\ place[j] = "staging"
    /\ Goto(j, IF Local THEN "save" ELSE "post")
    /\ attempt' = [attempt EXCEPT ![j] = IF Local THEN 0 ELSE 1]
    /\ UNCHANGED <<proc, place, queue, expired, destination, history, restarts>>

(* A saved recording that does not end the run. *)
DiscardGoesOn(j) ==
    /\ At(j, "discard")
    /\ place' = [place EXCEPT ![j] = "gone"]
    /\ Goto(j, "idle")
    /\ attempt' = [attempt EXCEPT ![j] = 0]
    /\ UNCHANGED <<proc, queue, expired, destination, history, restarts>>

(* RemoveAll fails, and nobody looks at the error. *)
Sticks ==
    /\ stuck < MaxStuck
    /\ stuck' = stuck + 1

(* RemoveAll once the video is delivered: the directory goes, or stays      *)
(* where a later start finds it, as if never delivered.  One that is        *)
(* removed in part and lists no more is as good as gone.                    *)
Remove(j, otherwise) ==
    \/ place' = [place EXCEPT ![j] = "gone"] /\ UNCHANGED <<lost, stuck>>
    \/ /\ place' = [place EXCEPT ![j] = otherwise]
       /\ lost' = [lost EXCEPT ![j] = @ + 1]
       /\ Sticks

(* Discard.  With -once a saved recording also ends the run. *)
Discard(j) ==
    /\ At(j, "discard")
    /\ Remove(j, "left")
    /\ Goto(j, "idle")
    /\ proc' = IF Once THEN "stopping" ELSE proc
    /\ attempt' = [attempt EXCEPT ![j] = 0]
    /\ UNCHANGED <<queue, expired, destination, refused, swept, restarts>>

(* Park's rename, or, when the rename fails, its RemoveAll: the recording   *)
(* is dropped, or left when that fails too. *)
MoveTo(j, dir) ==
    /\ \/ place' = [place EXCEPT ![j] = dir] /\ UNCHANGED stuck
       \/ place' = [place EXCEPT ![j] = "dropped"] /\ UNCHANGED stuck
       \/ place' = [place EXCEPT ![j] = "left"] /\ Sticks
    /\ Goto(j, "idle")
    /\ attempt' = [attempt EXCEPT ![j] = 0]
    /\ UNCHANGED <<proc, queue, expired, destination, lost, refused, swept, restarts>>

EncodeFails(j) ==
    /\ At(j, "idle")
    /\ place[j] = "staging"
    /\ MoveTo(j, "encode-failed")

ParkUpload(j) == At(j, "park") /\ MoveTo(j, "upload-failed")

ParkLocal(j) == At(j, "parkLocal") /\ MoveTo(j, "output-unwritable")

(* deliverLocally: the video is renamed into the output directory, or must  *)
(* be copied there (which truncates what is there), or MkdirAll fails.      *)
LocalSave(j) ==
    /\ At(j, "save")
    /\ \/ Goto(j, "discard") /\ copies' = [copies EXCEPT ![j] = 1]
       \/ Goto(j, "copying") /\ copies' = [copies EXCEPT ![j] = 0]
       \/ Goto(j, "parkLocal") /\ UNCHANGED copies
    /\ UNCHANGED <<proc, place, attempt, queue, expired, taken, history, restarts>>

(* The source goes before the copy is known to have landed. *)
LocalCopyHasty(j) ==
    /\ At(j, "copying")
    /\ Goto(j, "discard")
    /\ copies' = [copies EXCEPT ![j] = 1] \/ UNCHANGED copies
    /\ UNCHANGED <<proc, place, attempt, queue, expired, taken, history, restarts>>

(* move's copy: landed and the source removed, landed and the source still  *)
(* there, or not landed.  The last two are errors.                          *)
LocalCopy(j) ==
    /\ At(j, "copying")
    /\ \/ Goto(j, "discard") /\ copies' = [copies EXCEPT ![j] = 1]
       \/ Goto(j, "parkLocal") /\ copies' = [copies EXCEPT ![j] = 1]
       \/ Goto(j, "parkLocal") /\ UNCHANGED copies
    /\ UNCHANGED <<proc, place, attempt, queue, expired, taken, history, restarts>>

(* Post: the request goes out. *)
Post(j) ==
    /\ At(j, "post")
    /\ Goto(j, "sent")
    /\ UNCHANGED <<proc, place, attempt, queue, expired, destination, history, restarts>>

(* A request is in flight for the job, from the loop or from the retry. *)
InFlight(j) == pc[j] \in {"sent", "retrying"}

Take(j) ==
    /\ InFlight(j)
    /\ proc # "down"
    /\ j \notin taken
    /\ taken' = taken \cup {j}
    /\ copies' = [copies EXCEPT ![j] = @ + 1]
    /\ UNCHANGED <<proc, place, pc, attempt, queue, expired, history, restarts>>

(* The request is over, and whatever was taken went unacknowledged. *)
Unanswered(J) ==
    /\ taken' = taken \ J
    /\ lost' = [j \in Jobs |-> lost[j] + (IF j \in J \cap taken THEN 1 ELSE 0)]

(* The success that does not leave the loop. *)
ReplyOKStays(j) ==
    /\ At(j, "sent") /\ j \in taken
    /\ taken' = taken \ {j}
    /\ Goto(j, "backoff")
    /\ UNCHANGED <<proc, place, attempt, queue, expired, copies, history, restarts>>

(* 200 with a body that parses: "the 200 IS the delete token". *)
ReplyOK(j) ==
    /\ At(j, "sent")
    /\ j \in taken
    /\ taken' = taken \ {j}
    /\ Goto(j, "discard")
    /\ UNCHANGED <<proc, place, attempt, queue, expired, copies, history, restarts>>

(* 5xx, a timeout or a broken connection. *)
ReplyRetryable(j) ==
    /\ At(j, "sent")
    /\ Unanswered({j})
    /\ Goto(j, "backoff")
    /\ UNCHANGED <<proc, place, attempt, queue, expired, copies, refused, swept,
                   stuck, restarts>>

(* 4xx retried like anything else. *)
ReplyTerminalRetried(j) ==
    /\ At(j, "sent")
    /\ Unanswered({j})
    /\ refused' = refused \cup {j}
    /\ Goto(j, "backoff")
    /\ UNCHANGED <<proc, place, attempt, queue, expired, copies, swept, stuck, restarts>>

(* Any other status, or a 200 that does not parse: out of the loop. *)
ReplyTerminal(j) ==
    /\ At(j, "sent")
    /\ Unanswered({j})
    /\ refused' = refused \cup {j}
    /\ Goto(j, "park")
    /\ UNCHANGED <<proc, place, attempt, queue, expired, copies, swept, stuck, restarts>>

(* One attempt too many. *)
BackoffOffByOne(j) ==
    /\ At(j, "backoff")
    /\ IF attempt[j] <= uploadAttempts
       THEN Goto(j, "post") /\ attempt' = [attempt EXCEPT ![j] = @ + 1]
       ELSE Goto(j, "park") /\ UNCHANGED attempt
    /\ UNCHANGED <<proc, place, queue, expired, destination, history, restarts>>

(* The attempt counter that is never consulted. *)
BackoffForever(j) ==
    /\ At(j, "backoff")
    /\ Goto(j, "post")
    /\ UNCHANGED <<proc, place, attempt, queue, expired, destination, history, restarts>>

(* The wait between attempts ends, by the clock or by shutdown, and the     *)
(* loop goes round or ends.                                                 *)
Backoff(j) ==
    /\ At(j, "backoff")
    /\ IF attempt[j] < uploadAttempts
       THEN Goto(j, "post") /\ attempt' = [attempt EXCEPT ![j] = @ + 1]
       ELSE Goto(j, "park") /\ UNCHANGED attempt
    /\ UNCHANGED <<proc, place, queue, expired, destination, history, restarts>>

-----------------------------------------------------------------------------
(* retryParked.                                                            *)

RetryPost(j) ==
    /\ At(j, "idle")
    /\ j \in queue
    /\ \A i \in Jobs : pc[i] \notin {"retrying", "remove"}
    /\ queue' = queue \ {j}
    /\ Goto(j, "retrying")
    /\ UNCHANGED <<proc, place, attempt, expired, destination, history, restarts>>

RetryOK(j) ==
    /\ At(j, "retrying")
    /\ j \in taken
    /\ taken' = taken \ {j}
    /\ Goto(j, "remove")
    /\ UNCHANGED <<proc, place, attempt, queue, expired, copies, history, restarts>>

(* Any error leaves the job parked. *)
RetryFails(j) ==
    /\ At(j, "retrying")
    /\ Unanswered({j})
    /\ Goto(j, "idle")
    /\ UNCHANGED <<proc, place, attempt, queue, expired, copies, refused, swept,
                   stuck, restarts>>

RetryRemove(j) ==
    /\ At(j, "remove")
    /\ Remove(j, "upload-failed")
    /\ Goto(j, "idle")
    /\ UNCHANGED <<proc, attempt, queue, expired, destination, refused, swept, restarts>>

(* Time passes. *)
Expire(j) ==
    /\ place[j] \in Parked
    /\ j \notin expired
    /\ expired' = expired \cup {j}
    /\ UNCHANGED <<proc, place, pc, attempt, queue, destination, history, restarts>>

-----------------------------------------------------------------------------
(* The process.                                                            *)

(* A 200 that was not acted on is as good as lost. *)
ProcessGone ==
    /\ proc' = "down"
    /\ pc' = [j \in Jobs |-> "idle"]
    /\ attempt' = [j \in Jobs |-> 0]
    /\ queue' = {}
    /\ taken' = {}
    /\ lost' = [j \in Jobs |-> lost[j] +
                    (IF j \in taken \/ pc[j] \in {"discard", "remove"} THEN 1 ELSE 0)]
    /\ UNCHANGED <<place, expired, copies, refused, swept, stuck>>

Crash ==
    /\ proc # "down"
    /\ restarts < MaxRestarts
    /\ restarts' = restarts + 1
    /\ ProcessGone

Stop ==
    /\ proc = "up"
    /\ restarts < MaxRestarts
    /\ restarts' = restarts + 1
    /\ proc' = "stopping"
    /\ UNCHANGED <<place, pc, attempt, queue, expired, destination, history>>

(* Run waits for the finalizers and not for retryParked. *)
Exit ==
    /\ proc = "stopping"
    /\ \A j \in Jobs : pc[j] \in {"idle", "retrying", "remove"}
    /\ ProcessGone
    /\ UNCHANGED restarts

(* A start that lists staging along with failed/. *)
BootRetriesAll ==
    /\ proc = "down"
    /\ proc' = "up"
    /\ queue' = {j \in Jobs : place[j] \notin {"gone", "dropped"}}
    /\ refused' = {}
    /\ UNCHANGED <<place, pc, attempt, expired, destination, lost, swept, stuck,
                   restarts>>

(* Run: sweep what has expired, as far as it can be removed, then list the  *)
(* parked uploads for the retry.  The goroutine reads failed/ at once; no   *)
(* finalizer of this process can have parked anything by then, having to    *)
(* connect and encode first.  What was left in staging is finalised again.  *)
Boot ==
    /\ proc = "down"
    /\ proc' = "up"
    /\ \E old \in SUBSET {j \in expired : place[j] \in Parked} :
          /\ place' = [j \in Jobs |-> IF j \in old THEN "gone"
                                      ELSE IF place[j] = "left" THEN "staging" ELSE place[j]]
          /\ swept' = swept \cup old
    /\ queue' = IF Local THEN {} ELSE {j \in Jobs : place'[j] = "upload-failed"}
    /\ refused' = {}
    /\ UNCHANGED <<pc, attempt, expired, destination, lost, stuck, restarts>>

Finalizer(j) ==
    \/ Encoded(j) \/ EncodeFails(j) \/ LocalSave(j) \/ LocalCopy(j) \/ Post(j)
    \/ ReplyOK(j) \/ ReplyRetryable(j) \/ ReplyTerminal(j) \/ Backoff(j)
    \/ Discard(j) \/ ParkUpload(j) \/ ParkLocal(j)

Retry(j) == RetryPost(j) \/ RetryOK(j) \/ RetryFails(j) \/ RetryRemove(j)

(* Nothing in staging, nothing queued: the daemon waits for the next print, *)
(* or has exited.                                                           *)
Rest ==
    /\ \A j \in Jobs : place[j] # "staging" /\ pc[j] = "idle"
    /\ queue = {}
    /\ UNCHANGED sys

Next ==
    /\ UNCHANGED mode
    /\ \/ \E j \in Jobs : Finalizer(j) \/ Retry(j) \/ Take(j) \/ Expire(j)
       \/ Crash \/ Stop \/ Exit \/ Boot
       \/ Rest

Spec == Init /\ [][Next]_vars

(* Finalizers and the retry goroutine run, a request ends within            *)
(* uploadTimeout, a stopped process exits and the next one is started.      *)
Fairness ==
    /\ \A j \in Jobs : WF_sys(Finalizer(j)) /\ WF_sys(Retry(j))
    /\ WF_sys(Exit)
    /\ WF_sys(Boot)

FairSpec == Spec /\ Fairness

-----------------------------------------------------------------------------
(* The destination gets a second copy only because the service never acted  *)
(* on its answer to an earlier one: a lost or unreadable reply, a crash     *)
(* before the delete, or a delete that failed (finalize, retryParked).      *)
NoNeedlessCopy == \A j \in Jobs : copies[j] <= 1 + lost[j]

(* A recording is deleted only when the destination holds it or its time in *)
(* failed/ was up (Discard, SweepFailed, retryParked's RemoveAll).  The one *)
(* exception is a Park whose rename failed: what it removes is "dropped".   *)
NeverLost == \A j \in Jobs : place[j] = "gone" => copies[j] > 0 \/ j \in swept

(* A video refused for good is not posted again by this process: not by the *)
(* loop, and not by the retry goroutine (the break on !Retryable).          *)
RefusedRests == [][\A j \in refused : InFlight(j)' => InFlight(j) \/ proc = "down"]_vars

(* Finalizer and retry never work on the same directory: the retry touches  *)
(* only what is parked, the finalizer only what is staged.                  *)
SeparateHands ==
    \A j \in Jobs :
        /\ pc[j] \in {"retrying", "remove"} => place[j] = "upload-failed"
        /\ pc[j] \notin {"idle", "retrying", "remove"} => place[j] = "staging"

(* Every finalizer comes to an end: the recording leaves staging, or is     *)
(* left there because it could not be removed.                              *)
Finishes == \A j \in Jobs : place[j] = "staging" ~> place[j] # "staging"

(* The run ends when it should: a shutdown completes, whatever was being    *)
(* uploaded (Run's finalizing.Wait), and record -once ends after the first  *)
(* recording saved and cleared away (deliverLocally's stop), though other   *)
(* finalizers may still be at work.                                         *)
Stops ==
    /\ proc = "stopping" ~> proc # "stopping"
    /\ \A j \in Jobs : Once /\ pc[j] = "discard" ~> proc = "down"
=============================================================================
