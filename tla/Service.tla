------------------------------ MODULE Service ------------------------------
(***************************************************************************)
(* The life of a session: which print it belongs to, who owns it and when  *)
(* it ends.  onMessage, reconcile, handle, begin and finalize's start and   *)
(* end are modelled over the printer's reports and every restart; what      *)
(* happens to the frames is Capture's, to the video Delivery's.             *)
(*                                                                         *)
(* The view is Report's, on the two keys that decide: gcode_state and       *)
(* task_id.  A callback runs alone (SetOrderMatters) in up to three steps   *)
(* with the finalizers interleaved: merge, reconcile (once a process), and  *)
(* handle.                                                                  *)
(***************************************************************************)
EXTENDS Report, FiniteSets

CONSTANTS
    Tasks,          \* the jobs the printer may run, each at most once
    Unnamed,        \* those it reports under task id "0"
    NoTask,         \* no current session
    Coherent,       \* a job the view does not know is reported in full
    ListFails,      \* reading the staging directory may fail
    MaxRestarts,    \* bound: crashes and shutdowns
    MaxPauses       \* bound: pauses of the printer

ASSUME ServiceAssumption ==
    /\ Unnamed \subseteq Tasks
    /\ NoTask \notin Tasks
    /\ NoTask \notin {Absent, "0"} /\ Absent \notin Tasks /\ "0" \notin Tasks
    /\ Coherent \in BOOLEAN /\ ListFails \in BOOLEAN
    /\ MaxRestarts \in Nat /\ MaxPauses \in Nat

VARIABLES
    \* the printer
    printer,    \* task and state
    over,       \* the jobs it has finished with
    result,     \* how each of them ended
    halts,      \* how often it has paused
    \* the process
    proc,       \* "up", "stopping" or "down"
    pc,         \* of the MQTT callback: "idle", "reconcile" or "handle"
    about,      \* the job the report in hand is about
    fields,     \* the merged view
    reconciled, \* the startup pass has run
    current,    \* the session being recorded
    finalizing, \* finalizers at work on each job's directory
    \* the disk
    staging,    \* "none", "bare" (no state.json) or "session"
    shots,      \* whose print each session's frames show
    \* history
    settled,    \* jobs whose directory a finalizer disposed of
    verdict,    \* the end state each finalizer was told
    restarts

printerVars == <<printer, over, result, halts>>
diskVars    == <<staging, shots>>
history     == <<settled, verdict>>
vars == <<printerVars, proc, pc, about, fields, reconciled, current, finalizing,
          diskVars, history, restarts>>

Ending == {"FINISH", "FAILED"}
Printing == {"PREPARE", "RUNNING", "PAUSE"}

IdOf(t) == IF t \in Unnamed \cup {NoTask} THEN "0" ELSE t

Empty == [k \in {} |-> Absent]

TypeOK ==
    /\ printer \in [task : Tasks \cup {NoTask},
                    state : {"IDLE"} \cup Printing \cup Ending]
    /\ over \subseteq Tasks
    /\ result \in [Tasks -> {"none"} \cup Ending]
    /\ halts \in 0..MaxPauses
    /\ proc \in {"up", "stopping", "down"}
    /\ pc \in {"idle", "reconcile", "handle"}
    /\ about \in Tasks \cup {NoTask}
    /\ DOMAIN fields \subseteq {"gcode_state", "task_id"}
    /\ GcodeState(fields) \in {Absent, "IDLE"} \cup Printing \cup Ending
    /\ TaskID(fields) \in {Absent} \cup Tasks
    /\ reconciled \in BOOLEAN
    /\ current \in Tasks \cup {NoTask}
    /\ finalizing \in [Tasks -> Nat]
    /\ staging \in [Tasks -> {"none", "bare", "session"}]
    /\ shots \in [Tasks -> SUBSET Tasks]
    /\ settled \subseteq Tasks
    /\ verdict \in [Tasks -> {"none", "IDLE"} \cup Ending]
    /\ restarts \in 0..MaxRestarts

Init ==
    /\ printer = [task |-> NoTask, state |-> "IDLE"]
    /\ over = {}
    /\ result = [t \in Tasks |-> "none"]
    /\ halts = 0
    /\ proc = "up"
    /\ pc = "idle"
    /\ about = NoTask
    /\ fields = Empty
    /\ reconciled = FALSE
    /\ current = NoTask
    /\ finalizing = [t \in Tasks |-> 0]
    /\ staging = [t \in Tasks |-> "none"]
    /\ shots = [t \in Tasks |-> {}]
    /\ settled = {}
    /\ verdict = [t \in Tasks |-> "none"]
    /\ restarts = 0

-----------------------------------------------------------------------------
(* The printer.                                                            *)

PrinterOnly == UNCHANGED <<proc, pc, about, fields, reconciled, current, finalizing,
                           diskVars, history, restarts>>

PrinterStart(t) ==
    /\ printer.state \notin Printing
    /\ t \notin over
    /\ printer' = [task |-> t, state |-> "PREPARE"]
    /\ UNCHANGED <<over, result, halts>>
    /\ PrinterOnly

PrinterRun ==
    /\ printer.state \in {"PREPARE", "PAUSE"}
    /\ printer' = [printer EXCEPT !.state = "RUNNING"]
    /\ UNCHANGED <<over, result, halts>>
    /\ PrinterOnly

PrinterPause ==
    /\ printer.state = "RUNNING"
    /\ halts < MaxPauses
    /\ printer' = [printer EXCEPT !.state = "PAUSE"]
    /\ halts' = halts + 1
    /\ UNCHANGED <<over, result>>
    /\ PrinterOnly

PrinterEnd(how) ==
    /\ printer.state \in Printing
    /\ printer' = [printer EXCEPT !.state = how]
    /\ over' = over \cup {printer.task}
    /\ result' = [result EXCEPT ![printer.task] = how]
    /\ UNCHANGED halts
    /\ PrinterOnly

PrinterIdle ==
    /\ printer.state \in Ending
    /\ printer' = [printer EXCEPT !.state = "IDLE"]
    /\ UNCHANGED <<over, result, halts>>
    /\ PrinterOnly

-----------------------------------------------------------------------------
(* The MQTT callback.                                                      *)

(* A report carries some keys of the printer's state.  Coherent: it carries *)
(* both when the view knows another job, because both changed with the job, *)
(* or none, because the full snapshot onConnect asks for comes first.       *)
Full == {"gcode_state", "task_id"}

Section(K) == [k \in K |-> IF k = "task_id" THEN IdOf(printer.task) ELSE printer.state]

MayCarry(K) ==
    /\ K # {}
    /\ Coherent /\ String(fields, "task_id") # IdOf(printer.task) => K = Full

OnMessage(K) ==
    /\ proc # "down"
    /\ pc = "idle"
    /\ MayCarry(K)
    /\ fields' = Merge(fields, Section(K))
    /\ IF ~reconciled /\ GcodeState(fields') # Absent
       THEN pc' = "reconcile" /\ reconciled' = TRUE
       ELSE pc' = "handle" /\ UNCHANGED reconciled
    /\ about' = printer.task
    /\ UNCHANGED <<printerVars, proc, current, finalizing, diskVars, history, restarts>>

(* startFinalize on every job of T: a goroutine of its own for each. *)
StartFinalize(T, endState) ==
    /\ finalizing' = [t \in Tasks |-> finalizing[t] + (IF t \in T THEN 1 ELSE 0)]
    /\ verdict' = [t \in Tasks |-> IF t \in T THEN endState ELSE verdict[t]]

Listed == {t \in Tasks : staging[t] = "session"}

(* Finalising whatever is on disk, without asking what the printer runs. *)
ReconcileAll ==
    /\ pc = "reconcile" /\ proc # "down"
    /\ StartFinalize(Listed, "FINISH")
    /\ pc' = "handle"
    /\ UNCHANGED <<printerVars, proc, about, fields, reconciled, current, diskVars,
                   settled, restarts>>

(* Finalising only when the printer is idle: another job's arrival strands  *)
(* the session.                                                             *)
ReconcileIdleOnly ==
    /\ pc = "reconcile" /\ proc # "down"
    /\ LET running == GcodeState(fields) \in {"RUNNING", "PAUSE"}
           live == IF running THEN {t \in Listed : t = TaskID(fields)} ELSE {}
       IN  /\ current' = IF live = {} THEN current ELSE CHOOSE t \in live : TRUE
           /\ StartFinalize(IF running THEN {} ELSE Listed, "FINISH")
    /\ pc' = "handle"
    /\ UNCHANGED <<printerVars, proc, about, fields, reconciled, diskVars, settled,
                   restarts>>

(* reconcile: adopt the session of the job still printing, finalise every   *)
(* other one on disk.  Always as FINISH, whatever the printer says.         *)
Reconcile ==
    /\ pc = "reconcile"
    /\ proc # "down"
    /\ LET running == GcodeState(fields) \in {"RUNNING", "PAUSE"}
           live == IF running THEN {t \in Listed : t = TaskID(fields)} ELSE {}
       IN  /\ current' = IF live = {} THEN current ELSE CHOOSE t \in live : TRUE
           /\ StartFinalize(Listed \ live, "FINISH")
    /\ pc' = "handle"
    /\ UNCHANGED <<printerVars, proc, about, fields, reconciled, diskVars, settled,
                   restarts>>

(* reconcile when List fails: the pass is over for this process, nothing is *)
(* adopted and nothing finalised.                                           *)
ReconcileUnlisted ==
    /\ pc = "reconcile"
    /\ proc # "down"
    /\ ListFails
    /\ pc' = "handle"
    /\ UNCHANGED <<printerVars, proc, about, fields, reconciled, current, finalizing,
                   diskVars, history, restarts>>

(* A new layer's frame goes to session t's directory and shows the job the  *)
(* report is about.                                                         *)
Shoot(t) ==
    \/ UNCHANGED shots
    \/ shots' = [shots EXCEPT ![t] = @ \cup ({about} \ {NoTask})]

(* The callback returns. *)
Return == pc' = "idle" /\ about' = NoTask

Handling(S) == pc = "handle" /\ proc # "down" /\ GcodeState(fields) \in S

(* Ignoring which job the report names. *)
KeptAnyway == current

(* The session a RUNNING report leaves open: the one it had, unless the     *)
(* report names another job.                                                *)
Kept == IF current # NoTask /\ TaskID(fields) \notin {current, Absent} THEN NoTask ELSE current

(* RUNNING with a session that stays open: record, test the layer, capture. *)
HandleRecord ==
    /\ Handling({"RUNNING"})
    /\ Kept # NoTask
    /\ Shoot(current)
    /\ Return
    /\ UNCHANGED <<printerVars, proc, fields, reconciled, current, finalizing, staging,
                   history, restarts>>

(* What RUNNING does to a session of another job before begin. *)
Switch ==
    StartFinalize(IF Kept = NoTask THEN {current} \ {NoTask} ELSE {}, "FINISH")

(* Create without its Save. *)
HandleBeginUnsaved(opened) ==
    /\ Handling({"RUNNING"}) /\ Kept = NoTask
    /\ TaskID(fields) # Absent
    /\ Switch
    /\ current' = TaskID(fields)
    /\ staging' = IF staging[TaskID(fields)] = "session" THEN staging
                  ELSE [staging EXCEPT ![TaskID(fields)] = "bare"]
    /\ UNCHANGED shots
    /\ Return
    /\ UNCHANGED <<printerVars, proc, fields, reconciled, settled, restarts>>

(* RUNNING with no session, or after finalising another job's: begin        *)
(* reopens the job's directory or creates it, and waits when the printer    *)
(* reports no task id.  A failed Create opens nothing and may leave a       *)
(* directory without state.json.                                            *)
HandleBegin(opened) ==
    /\ Handling({"RUNNING"})
    /\ Kept = NoTask
    /\ Switch
    /\ LET t == TaskID(fields)
       IN  CASE t = Absent ->
                  current' = NoTask /\ UNCHANGED <<staging, shots>>
             [] t # Absent /\ (opened \/ staging[t] = "session") ->
                  /\ current' = t
                  /\ staging' = [staging EXCEPT ![t] = "session"]
                  /\ Shoot(t)
             [] OTHER ->
                  /\ current' = NoTask
                  /\ staging' \in {staging, [staging EXCEPT ![t] = "bare"]}
                  /\ UNCHANGED shots
    /\ Return
    /\ UNCHANGED <<printerVars, proc, fields, reconciled, settled, restarts>>

(* Finalising what is open without letting go of it. *)
HandleEndKeeps ==
    /\ Handling({"FINISH", "FAILED", "IDLE"})
    /\ StartFinalize({current} \ {NoTask}, GcodeState(fields))
    /\ UNCHANGED current
    /\ Return
    /\ UNCHANGED <<printerVars, proc, fields, reconciled, diskVars, settled, restarts>>

(* FINISH, FAILED, IDLE: finalise what is open. *)
HandleEnd ==
    /\ Handling({"FINISH", "FAILED", "IDLE"})
    /\ StartFinalize({current} \ {NoTask}, GcodeState(fields))
    /\ current' = NoTask
    /\ Return
    /\ UNCHANGED <<printerVars, proc, fields, reconciled, diskVars, settled, restarts>>

(* PAUSE, PREPARE and everything else: nothing. *)
HandleOther ==
    /\ Handling({Absent, "PREPARE", "PAUSE"})
    /\ Return
    /\ UNCHANGED <<printerVars, proc, fields, reconciled, current, finalizing, diskVars,
                   history, restarts>>

-----------------------------------------------------------------------------
(* Done without Add. *)
FinalizeEndsUnasked(t) ==
    /\ proc # "down"
    /\ staging[t] = "session"
    /\ finalizing' = [finalizing EXCEPT ![t] = @ - 1]
    /\ staging' = [staging EXCEPT ![t] = "none"]
    /\ settled' = settled \cup {t}
    /\ UNCHANGED <<printerVars, proc, pc, about, fields, reconciled, current, shots,
                   verdict, restarts>>

(* finalize, from the outside: it ends with the directory out of staging    *)
(* (Discard, Park, or Park's fallback).                                     *)
FinalizeEnds(t) ==
    /\ proc # "down"
    /\ finalizing[t] > 0
    /\ finalizing' = [finalizing EXCEPT ![t] = @ - 1]
    /\ staging' = [staging EXCEPT ![t] = "none"]
    /\ settled' = settled \cup {t}
    /\ UNCHANGED <<printerVars, proc, pc, about, fields, reconciled, current, shots,
                   verdict, restarts>>

-----------------------------------------------------------------------------
(* The process.                                                            *)

ProcessGone ==
    /\ proc' = "down"
    /\ Return
    /\ fields' = Empty
    /\ reconciled' = FALSE
    /\ current' = NoTask
    /\ finalizing' = [t \in Tasks |-> 0]
    /\ UNCHANGED <<printerVars, diskVars, history>>

Crash ==
    /\ proc # "down"
    /\ restarts < MaxRestarts
    /\ restarts' = restarts + 1
    /\ ProcessGone

Stop ==
    /\ proc = "up"
    /\ restarts < MaxRestarts
    /\ restarts' = restarts + 1
    /\ proc' = "stopping"
    /\ UNCHANGED <<printerVars, pc, about, fields, reconciled, current, finalizing,
                   diskVars, history>>

(* Disconnect, then finalizing.Wait.  Until then reports may still be       *)
(* handled, and Disconnect's grace period may end before a callback does.   *)
Exit ==
    /\ proc = "stopping"
    /\ \A t \in Tasks : finalizing[t] = 0
    /\ ProcessGone
    /\ UNCHANGED restarts

Boot ==
    /\ proc = "down"
    /\ proc' = "up"
    /\ UNCHANGED <<printerVars, pc, about, fields, reconciled, current, finalizing,
                   diskVars, history, restarts>>

Printer ==
    \/ \E t \in Tasks : PrinterStart(t)
    \/ PrinterRun \/ PrinterPause \/ PrinterIdle
    \/ \E how \in Ending : PrinterEnd(how)

Callback ==
    \/ Reconcile \/ ReconcileUnlisted
    \/ HandleRecord \/ HandleEnd \/ HandleOther
    \/ \E opened \in BOOLEAN : HandleBegin(opened)

Next ==
    \/ Printer
    \/ \E K \in SUBSET Full : OnMessage(K)
    \/ Callback
    \/ \E t \in Tasks : FinalizeEnds(t)
    \/ Crash \/ Stop \/ Exit \/ Boot

Spec == Init /\ [][Next]_vars

(* A job that started runs and ends, a pause is resumed, the printer sends  *)
(* a full report again and again (every 20-55 s), callbacks and finalizers  *)
(* complete, and the restart policy boots the next process.                 *)
Fairness ==
    /\ WF_vars(PrinterRun)
    /\ WF_vars(\E how \in Ending : PrinterEnd(how))
    /\ SF_vars(OnMessage(Full))
    /\ WF_vars(Callback)
    /\ \A t \in Tasks : WF_vars(FinalizeEnds(t))
    /\ WF_vars(Exit)
    /\ WF_vars(Boot)

FairSpec == Spec /\ Fairness

-----------------------------------------------------------------------------
(* No directory has two owners: a job is being recorded or finalised, by    *)
(* one goroutine, never both (reconcile, handle, begin).                    *)
OneOwner ==
    \A t \in Tasks : finalizing[t] + (IF current = t THEN 1 ELSE 0) <= 1

(* A job still on the printer is not finalised: a restart resumes it        *)
(* instead of posting half of it (reconcile, handle's job switch).  Reports *)
(* in pieces leave one exception, which is the code's: the startup pass     *)
(* runs on the first report with a state (onMessage), and finalises the     *)
(* running job when the view does not name it yet, or calls it PREPARE.     *)
FinalizesOnlyEnded ==
    [][ \A t \in Tasks : finalizing'[t] > finalizing[t] =>
          \/ t \in over
          \/ /\ ~Coherent
             /\ pc = "reconcile"
             /\ TaskID(fields) # t \/ GcodeState(fields) = "PREPARE" ]_vars

(* The session being recorded is on disk under its own job: no finalizer    *)
(* has pulled the directory from under it.                                  *)
CurrentOnDisk == current # NoTask => staging[current] = "session"

(* A session's frames show its own print and no other named one (handle:    *)
(* "rather than let the new one's frames land in its directory").  A job    *)
(* reported under id "0" is filmed into whatever session is open.           *)
OwnFrames == \A t \in Tasks : shots[t] \ Unnamed \subseteq {t}

(* A recording's caption claims success only for a print that succeeded.    *)
VerdictHonest ==
    \A t \in settled : verdict[t] = "FINISH" => result[t] = "FINISH"

(* Every recording of a print that ended leaves staging: no session is      *)
(* stranded by a crash, a job switch or a restart.                          *)
Settles ==
    \A t \in Tasks : (t \in over /\ staging[t] = "session") ~> staging[t] = "none"

(* What a restart resumes, and when a job is settled: see Recording.        *)
Phase(t) ==
    IF staging[t] = "session" THEN "open"
    ELSE IF t \in settled THEN "settled"
    ELSE "unseen"

Promise == INSTANCE Recording WITH phase <- [t \in Tasks |-> Phase(t)]

(* The service keeps Recording's promise.                                   *)
KeepsPromise == Promise!Spec
=============================================================================
