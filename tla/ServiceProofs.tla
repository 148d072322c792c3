---------------------------- MODULE ServiceProofs ----------------------------
(***************************************************************************)
(* Ownership of the sessions, and the refinement of Recording, for any      *)
(* number of jobs, restarts and pauses, when a new job is reported in full  *)
(* (Coherent).  The argument is about how old the view may be: it names a   *)
(* job that has started, and it calls no job ended that is not.  What is    *)
(* finalised, EndedBeforeFinalized, is settled for reports in any pieces,   *)
(* from what remains of that argument (PiecesInv).                          *)
(***************************************************************************)
EXTENDS Service, TLAPS

ViewTask == TaskID(fields)
ViewState == GcodeState(fields)

Started(t) == t \in over \/ t = printer.task

(* A job is over when the printer no longer prints it. *)
PrinterInv ==
    /\ printer.state \in Printing => printer.task \in Tasks \ over
    /\ printer.task \in Tasks /\ printer.state \notin Printing => printer.task \in over

(* The view may be late, but not by more than the job it names: it calls    *)
(* that job ended only when it is, and running only when it has run.        *)
ViewInv ==
    /\ DOMAIN fields \in {{}, Full}
    /\ pc # "idle" => String(fields, "task_id") = IdOf(about)
    /\ ViewTask # Absent =>
          /\ ViewTask \notin Unnamed
          /\ Started(ViewTask)
          /\ ViewState \notin Printing => ViewTask \in over
          /\ printer.task = ViewTask /\ printer.state = "PREPARE" => ViewState = "PREPARE"

(* A directory is made for a named job that has run. *)
StagingInv ==
    \A t \in Tasks : staging[t] # "none" =>
        /\ t \notin Unnamed
        /\ Started(t)
        /\ t = printer.task => printer.state # "PREPARE"

(* Before the startup pass the process owns nothing, and the pass sees the  *)
(* printer as it was when no job on disk was still to be started.           *)
StartupInv ==
    /\ ~reconciled => fields = Empty
    /\ pc # "idle" => reconciled
    /\ ~reconciled \/ pc = "reconcile" =>
          current = NoTask /\ \A t \in Tasks : finalizing[t] = 0
    /\ pc = "reconcile" =>
          \A t \in Listed :
              /\ t \notin over => ViewTask = t
              /\ ViewTask = t => ViewState # "PREPARE"

(* The session that is open is the view's, until its job is over. *)
CurrentInv ==
    current # NoTask /\ current \notin over => ViewTask = current

(* Once a finalizer has a job, the view will not name it as printing again. *)
EndedInv ==
    \A t \in Tasks :
        /\ finalizing[t] > 0 => staging[t] = "session"
        /\ finalizing[t] > 0 \/ t \in settled =>
              t \in over /\ (ViewTask = t => ViewState \notin Printing)

IInv ==
    /\ TypeOK
    /\ PrinterInv /\ ViewInv /\ StagingInv /\ StartupInv /\ CurrentInv /\ EndedInv
    /\ OneOwner /\ CurrentOnDisk /\ OwnFrames

-----------------------------------------------------------------------------
(* Of the identity keys the view holds task_id at most (TaskID).            *)
LEMMA TaskIDOfView ==
    ASSUME NEW f, DOMAIN f \subseteq Full
    PROVE  TaskID(f) = IF Names(String(f, "task_id")) THEN String(f, "task_id") ELSE Absent
BY DEF TaskID, String, Names, Full

(* No id and no state the printer reports is the missing value.             *)
LEMMA AbsentIsNothing == Absent \notin {"0", "IDLE"} \cup Printing \cup Ending
BY Zenon DEF Absent, Printing, Ending

(* What a report does to the two keys: the one it carries is the printer's, *)
(* the other stays (Merge).                                                 *)
LEMMA MergeView ==
    ASSUME NEW f, DOMAIN f \subseteq Full, NEW K \in SUBSET Full
    PROVE  LET g == Merge(f, Section(K))
           IN  /\ DOMAIN g = DOMAIN f \cup K
               /\ String(g, "task_id") =
                    IF "task_id" \in K THEN IdOf(printer.task) ELSE String(f, "task_id")
               /\ GcodeState(g) =
                    IF "gcode_state" \in K THEN printer.state ELSE GcodeState(f)
<1> DEFINE kept == ForgetPreviousJob(f, Section(K))
           g == Merge(f, Section(K))
<1>1. DOMAIN kept = DOMAIN f /\ \A k \in DOMAIN f : kept[k] = f[k]
  BY DEF ForgetPreviousJob, Full, JobScoped
<1>2. /\ DOMAIN Section(K) = K
      /\ \A k \in K : Section(K)[k] = IF k = "task_id" THEN IdOf(printer.task)
                                                      ELSE printer.state
  BY DEF Section
<1> HIDE DEF kept
<1>3. DOMAIN g = DOMAIN f \cup K
  BY <1>1, <1>2 DEF Merge, kept
<1>4. \A k \in DOMAIN g : g[k] = IF k \in K THEN Section(K)[k] ELSE f[k]
  BY <1>1, <1>2 DEF Merge, kept
<1> QED
  BY <1>2, <1>3, <1>4 DEF String, GcodeState, Full

(* The id the printer reports is a job's name or none.                      *)
LEMMA IdOfTask ==
    ASSUME TypeOK
    PROVE  /\ IdOf(printer.task) \in Tasks \cup {"0"}
           /\ \A t \in Tasks : IdOf(printer.task) = t <=> printer.task = t /\ t \notin Unnamed
           /\ \A t \in Tasks : Names(t)
           /\ ~Names("0") /\ ~Names(Absent)
BY ServiceAssumption DEF TypeOK, IdOf, Names

(* A report leaves the state in its type.                                   *)
LEMMA OnMessageType ==
    ASSUME TypeOK, NEW K \in SUBSET Full, OnMessage(K)
    PROVE  TypeOK'
<1>1. DOMAIN fields \subseteq Full
  BY DEF TypeOK, Full
<1>2. fields' = Merge(fields, Section(K))
  BY DEF OnMessage
<1>3. DOMAIN fields' \subseteq Full
  BY <1>1, <1>2, MergeView
<1>4. /\ String(fields', "task_id") =
            IF "task_id" \in K THEN IdOf(printer.task) ELSE String(fields, "task_id")
      /\ GcodeState(fields') =
            IF "gcode_state" \in K THEN printer.state ELSE GcodeState(fields)
  BY <1>1, <1>2, MergeView
<1>5. GcodeState(fields') \in {Absent, "IDLE"} \cup Printing \cup Ending
  <2>1. printer.state \in {"IDLE"} \cup Printing \cup Ending
    BY DEF TypeOK
  <2>2. GcodeState(fields) \in {Absent, "IDLE"} \cup Printing \cup Ending
    BY DEF TypeOK
  <2> QED
    BY <1>4, <2>1, <2>2
<1>6. TaskID(fields') \in {Absent} \cup Tasks
  <2>1. TaskID(fields') =
            IF Names(String(fields', "task_id")) THEN String(fields', "task_id") ELSE Absent
    BY <1>3, TaskIDOfView
  <2>2. TaskID(fields) =
            IF Names(String(fields, "task_id")) THEN String(fields, "task_id") ELSE Absent
    BY <1>1, TaskIDOfView
  <2> QED
    BY <1>4, <2>1, <2>2, IdOfTask DEF TypeOK
<1>7. pc' \in {"idle", "reconcile", "handle"} /\ reconciled' \in BOOLEAN
  BY DEF OnMessage, TypeOK
<1>8. about' \in Tasks \cup {NoTask}
  BY DEF OnMessage, TypeOK
<1> QED
  BY <1>3, <1>5, <1>6, <1>7, <1>8
  DEF OnMessage, TypeOK, printerVars, diskVars, history, Full

(* Starting finalizers leaves their counts and verdicts in their types.     *)
LEMMA StartFinalizeType ==
    ASSUME TypeOK, NEW T \in SUBSET Tasks, NEW s \in {"IDLE"} \cup Ending,
           StartFinalize(T, s)
    PROVE  finalizing' \in [Tasks -> Nat] /\ verdict' \in [Tasks -> {"none", "IDLE"} \cup Ending]
<1>1. finalizing \in [Tasks -> Nat] /\ verdict \in [Tasks -> {"none", "IDLE"} \cup Ending]
  BY DEF TypeOK
<1>2. finalizing' \in [Tasks -> Nat]
  <2>1. \A t \in Tasks : finalizing[t] + (IF t \in T THEN 1 ELSE 0) \in Nat
    BY <1>1
  <2> QED
    BY <2>1 DEF StartFinalize
<1>3. verdict' \in [Tasks -> {"none", "IDLE"} \cup Ending]
  BY <1>1 DEF StartFinalize
<1> QED
  BY <1>2, <1>3

(* A process that is gone leaves the next one an empty view.                *)
LEMMA GoneType ==
    ASSUME TypeOK, ProcessGone, restarts' \in 0..MaxRestarts
    PROVE  TypeOK'
<1>1. DOMAIN fields' = {}
  BY DEF ProcessGone, Empty
<1>2. TaskID(fields') = Absent /\ GcodeState(fields') = Absent
  BY <1>1 DEF TaskID, GcodeState, String, Names
<1> QED
  BY <1>1, <1>2 DEF ProcessGone, Return, TypeOK, printerVars, diskVars, history

(* The three ways a RUNNING report without a session to keep may go: begin  *)
(* opens the job's session, waits for an id, or fails.                      *)
Opens(t) ==
    /\ t # Absent
    /\ current' = t
    /\ staging' = [staging EXCEPT ![t] = "session"]
    /\ Shoot(t)

Waits == current' = NoTask /\ UNCHANGED <<staging, shots>>

Fails(t) ==
    /\ t # Absent
    /\ staging[t] # "session"
    /\ current' = NoTask
    /\ staging' \in {staging, [staging EXCEPT ![t] = "bare"]}
    /\ UNCHANGED shots

(* begin opens a session, leaves things as they are, or fails to open.      *)
LEMMA BeginCases ==
    ASSUME NEW opened \in BOOLEAN, HandleBegin(opened)
    PROVE  Opens(TaskID(fields)) \/ Waits \/ Fails(TaskID(fields))
BY Zenon DEF HandleBegin, Opens, Waits, Fails

(* A frame adds to its session's shots at most the job the report is about. *)
LEMMA ShootType ==
    ASSUME TypeOK, NEW t, Shoot(t)
    PROVE  shots' \in [Tasks -> SUBSET Tasks]
<1>1. shots \in [Tasks -> SUBSET Tasks] /\ {about} \ {NoTask} \subseteq Tasks
  BY DEF TypeOK
<1> QED
  BY <1>1 DEF Shoot

(* Every step keeps the type; that only a job can end needs PrinterInv.     *)
LEMMA TypeStep == TypeOK /\ PrinterInv /\ [Next]_vars => TypeOK'
<1> SUFFICES ASSUME TypeOK, PrinterInv, [Next]_vars PROVE TypeOK'
  OBVIOUS
<1>1. ASSUME NEW t \in Tasks, PrinterStart(t) PROVE TypeOK'
  BY <1>1 DEF PrinterStart, PrinterOnly, TypeOK, Printing, diskVars, history
<1>2. CASE PrinterRun \/ PrinterIdle
  BY <1>2 DEF PrinterRun, PrinterIdle, PrinterOnly, TypeOK, Printing, diskVars, history
<1>3. CASE PrinterPause
  <2>1. halts' \in 0..MaxPauses
    <3>1. halts \in 0..MaxPauses /\ halts < MaxPauses /\ halts' = halts + 1
      BY <1>3 DEF PrinterPause, TypeOK
    <3> QED
      BY <3>1, ServiceAssumption
  <2>2. printer' \in [task : Tasks \cup {NoTask}, state : {"IDLE"} \cup Printing \cup Ending]
    BY <1>3 DEF PrinterPause, TypeOK, Printing
  <2> QED
    BY <1>3, <2>1, <2>2 DEF PrinterPause, PrinterOnly, TypeOK, diskVars, history
<1>4. ASSUME NEW how \in Ending, PrinterEnd(how) PROVE TypeOK'
  BY <1>4 DEF PrinterEnd, PrinterOnly, TypeOK, PrinterInv, diskVars, history
<1>5. ASSUME NEW K \in SUBSET Full, OnMessage(K) PROVE TypeOK'
  BY <1>5, OnMessageType
<1>6. CASE Reconcile
  <2> DEFINE live == IF GcodeState(fields) \in {"RUNNING", "PAUSE"}
                     THEN {t \in Listed : t = TaskID(fields)} ELSE {}
  <2>1. live \subseteq Tasks /\ Listed \subseteq Tasks
    BY DEF Listed
  <2>2. /\ current' = IF live = {} THEN current ELSE CHOOSE t \in live : TRUE
        /\ StartFinalize(Listed \ live, "FINISH")
    BY <1>6 DEF Reconcile
  <2> HIDE DEF live
  <2>3. current' \in Tasks \cup {NoTask}
    BY <2>1, <2>2 DEF TypeOK
  <2>4. finalizing' \in [Tasks -> Nat] /\ verdict' \in [Tasks -> {"none", "IDLE"} \cup Ending]
    BY <2>1, <2>2, StartFinalizeType DEF Ending
  <2> QED
    BY <1>6, <2>3, <2>4 DEF Reconcile, TypeOK, printerVars, diskVars
<1>7. CASE ReconcileUnlisted
  BY <1>7 DEF ReconcileUnlisted, TypeOK, printerVars, diskVars, history
<1>8. CASE HandleRecord
  <2>1. shots' \in [Tasks -> SUBSET Tasks]
    BY <1>8, ShootType DEF HandleRecord, TypeOK
  <2> QED
    BY <1>8, <2>1 DEF HandleRecord, Return, TypeOK, printerVars, history
<1>9. CASE HandleEnd
  <2>1. finalizing' \in [Tasks -> Nat] /\ verdict' \in [Tasks -> {"none", "IDLE"} \cup Ending]
    BY <1>9, StartFinalizeType DEF HandleEnd, Handling, TypeOK, Ending
  <2> QED
    BY <1>9, <2>1 DEF HandleEnd, Return, TypeOK, printerVars, diskVars
<1>10. CASE HandleOther
  BY <1>10 DEF HandleOther, Return, TypeOK, printerVars, diskVars, history
<1>11. ASSUME NEW opened \in BOOLEAN, HandleBegin(opened) PROVE TypeOK'
  <2>1. finalizing' \in [Tasks -> Nat] /\ verdict' \in [Tasks -> {"none", "IDLE"} \cup Ending]
    BY <1>11, StartFinalizeType DEF HandleBegin, Switch, TypeOK, Ending
  <2>2. /\ current' \in Tasks \cup {NoTask}
        /\ staging' \in [Tasks -> {"none", "bare", "session"}]
        /\ shots' \in [Tasks -> SUBSET Tasks]
    <3>1. /\ TaskID(fields) \in {Absent} \cup Tasks
          /\ current \in Tasks \cup {NoTask}
          /\ staging \in [Tasks -> {"none", "bare", "session"}]
          /\ shots \in [Tasks -> SUBSET Tasks]
      BY DEF TypeOK
    <3>2. CASE Opens(TaskID(fields))
      BY <3>1, <3>2, ShootType DEF Opens
    <3>3. CASE Waits
      BY <3>1, <3>3 DEF Waits
    <3>4. CASE Fails(TaskID(fields))
      BY <3>1, <3>4 DEF Fails
    <3> QED
      BY <1>11, <3>2, <3>3, <3>4, BeginCases
  <2> QED
    BY <1>11, <2>1, <2>2 DEF HandleBegin, Return, TypeOK, printerVars
<1>12. ASSUME NEW t \in Tasks, FinalizeEnds(t) PROVE TypeOK'
  <2>1. finalizing' \in [Tasks -> Nat]
    <3>1. /\ finalizing \in [Tasks -> Nat] /\ finalizing[t] > 0
          /\ finalizing' = [finalizing EXCEPT ![t] = @ - 1]
      BY <1>12 DEF FinalizeEnds, TypeOK
    <3> QED
      BY <3>1
  <2>2. staging' \in [Tasks -> {"none", "bare", "session"}] /\ settled' \subseteq Tasks
    BY <1>12 DEF FinalizeEnds, TypeOK
  <2> QED
    BY <1>12, <2>1, <2>2 DEF FinalizeEnds, TypeOK, printerVars
<1>13. CASE Crash
  <2>1. restarts' \in 0..MaxRestarts
    <3>1. restarts \in 0..MaxRestarts /\ restarts < MaxRestarts /\ restarts' = restarts + 1
      BY <1>13 DEF Crash, TypeOK
    <3> QED
      BY <3>1, ServiceAssumption
  <2> QED
    BY <1>13, <2>1, GoneType DEF Crash
<1>14. CASE Exit
  BY <1>14, GoneType DEF Exit, TypeOK
<1>15. CASE Stop
  <2>1. restarts' \in 0..MaxRestarts
    <3>1. restarts \in 0..MaxRestarts /\ restarts < MaxRestarts /\ restarts' = restarts + 1
      BY <1>15 DEF Stop, TypeOK
    <3> QED
      BY <3>1, ServiceAssumption
  <2> QED
    BY <1>15, <2>1 DEF Stop, TypeOK, printerVars, diskVars, history
<1>16. CASE Boot
  BY <1>16 DEF Boot, TypeOK, printerVars, diskVars, history
<1>17. CASE UNCHANGED vars
  <2>1. UNCHANGED <<printer, over, result, halts, proc, pc, about, fields, reconciled, current,
                    finalizing, staging, shots, settled, verdict, restarts>>
    BY <1>17 DEF vars, printerVars, diskVars, history
  <2> QED
    BY <2>1 DEF TypeOK
<1> QED
  BY <1>1, <1>2, <1>3, <1>4, <1>5, <1>6, <1>7, <1>8, <1>9, <1>10, <1>11, <1>12, <1>13,
     <1>14, <1>15, <1>16, <1>17
  DEF Next, Printer, Callback

-----------------------------------------------------------------------------
(* The view after a report, when a job it does not know comes in full: it   *)
(* names the printer's job, and its state is the printer's or still what it *)
(* was for that job (MayCarry, Merge).                                      *)
LEMMA ViewAfter ==
    ASSUME Coherent, IInv, NEW K \in SUBSET Full, OnMessage(K)
    PROVE  /\ DOMAIN fields' = Full
           /\ String(fields', "task_id") = IdOf(printer.task)
           /\ ViewTask' = IF printer.task \in Tasks \ Unnamed THEN printer.task ELSE Absent
           /\ ViewState' = printer.state \/ (ViewState' = ViewState /\ ViewTask' = ViewTask)
           /\ ~reconciled => ViewState' = printer.state
<1>1. /\ DOMAIN fields \in {{}, Full}
      /\ TypeOK
      /\ ~reconciled => fields = Empty
  BY DEF IInv, ViewInv, StartupInv
<1>2. /\ fields' = Merge(fields, Section(K))
      /\ K # {}
      /\ String(fields, "task_id") # IdOf(printer.task) => K = Full
  BY DEF OnMessage, MayCarry
<1>3. DOMAIN fields = {} => K = Full
  BY <1>1, <1>2, IdOfTask, AbsentIsNothing, ServiceAssumption DEF String
<1>4. /\ DOMAIN fields' = DOMAIN fields \cup K
      /\ String(fields', "task_id") =
            IF "task_id" \in K THEN IdOf(printer.task) ELSE String(fields, "task_id")
      /\ ViewState' = IF "gcode_state" \in K THEN printer.state ELSE ViewState
  BY <1>1, <1>2, MergeView DEF ViewState, Full
<1>5. DOMAIN fields' = Full
  BY <1>1, <1>3, <1>4
<1>6. String(fields', "task_id") = IdOf(printer.task)
  BY <1>2, <1>4 DEF Full
<1>7. /\ ViewTask' = IF Names(String(fields', "task_id")) THEN String(fields', "task_id") ELSE Absent
      /\ ViewTask = IF Names(String(fields, "task_id")) THEN String(fields, "task_id") ELSE Absent
  BY <1>1, <1>5, TaskIDOfView DEF ViewTask
<1>8. ViewTask' = IF printer.task \in Tasks \ Unnamed THEN printer.task ELSE Absent
  BY <1>1, <1>6, <1>7, IdOfTask, ServiceAssumption DEF IdOf, TypeOK
<1>9. ViewState' = printer.state \/ (ViewState' = ViewState /\ ViewTask' = ViewTask)
  <2>1. CASE "gcode_state" \in K
    BY <1>4, <2>1
  <2>2. CASE "gcode_state" \notin K
    BY <1>2, <1>4, <1>6, <1>7, <2>2 DEF Full
  <2> QED
    BY <2>1, <2>2
<1>10. ~reconciled => ViewState' = printer.state
  BY <1>1, <1>3, <1>4 DEF Empty, Full
<1> QED
  BY <1>5, <1>6, <1>8, <1>9, <1>10

(* A report keeps the invariant.                                            *)
LEMMA OnMessageInv ==
    ASSUME Coherent, IInv, NEW K \in SUBSET Full, OnMessage(K)
    PROVE  IInv'
<1>1. TypeOK'
  BY OnMessageType DEF IInv
<1>2. /\ UNCHANGED <<printer, over, proc, current, finalizing, staging, shots, settled>>
      /\ about' = printer.task
      /\ pc = "idle"
      /\ pc' = "reconcile" => ~reconciled
      /\ reconciled' = (reconciled \/ GcodeState(fields') # Absent)
      /\ pc' # "idle"
  BY DEF OnMessage, printerVars, diskVars, history, IInv, TypeOK
<1>3. /\ PrinterInv /\ StagingInv /\ OneOwner /\ CurrentOnDisk /\ OwnFrames
  BY DEF IInv
<1>4. PrinterInv' /\ StagingInv' /\ OneOwner' /\ CurrentOnDisk' /\ OwnFrames'
  BY <1>2, <1>3 DEF PrinterInv, StagingInv, Started, OneOwner, CurrentOnDisk, OwnFrames
<1>5. ViewInv'
  <2>1. ViewTask' # Absent =>
          /\ ViewTask' = printer.task /\ ViewTask' \in Tasks \ Unnamed
          /\ ViewState' = printer.state \/ (ViewState' = ViewState /\ ViewTask' = ViewTask)
    BY ViewAfter, ServiceAssumption
  <2>2. ViewInv
    BY DEF IInv
  <2>3. DOMAIN fields' \in {{}, Full} /\ String(fields', "task_id") = IdOf(about')
    BY <1>2, ViewAfter
  <2>4. ViewTask' # Absent =>
            /\ ViewTask' \notin Unnamed
            /\ Started(ViewTask)'
            /\ ViewState' \notin Printing => ViewTask' \in over
            /\ printer.task = ViewTask' /\ printer.state = "PREPARE" => ViewState' = "PREPARE"
    BY <1>2, <1>3, <2>1, <2>2 DEF ViewInv, PrinterInv, Started
  <2> QED
    BY <1>2, <2>3, <2>4 DEF ViewInv
<1>6. StartupInv'
  <2>1. printer.state # Absent
    BY AbsentIsNothing DEF IInv, TypeOK
  <2>2. reconciled'
    BY <1>2, <2>1, ViewAfter DEF ViewState, IInv, TypeOK
  <2>3. pc' = "reconcile" => current = NoTask /\ \A t \in Tasks : finalizing[t] = 0
    BY <1>2 DEF IInv, StartupInv
  <2>4. pc' = "reconcile" =>
            \A t \in Listed : /\ t \notin over => ViewTask' = t
                              /\ ViewTask' = t => ViewState' # "PREPARE"
    BY <1>2, <1>3, ViewAfter, ServiceAssumption DEF Listed, StagingInv, Started
  <2> QED
    BY <1>2, <2>2, <2>3, <2>4 DEF StartupInv, Listed
<1>7. CurrentInv'
  BY <1>2, <1>3, ViewAfter DEF IInv, CurrentInv, CurrentOnDisk, StagingInv, Started, TypeOK
<1>8. EndedInv'
  <2> SUFFICES ASSUME NEW t \in Tasks
               PROVE  /\ finalizing[t] > 0 => staging[t] = "session"
                      /\ finalizing[t] > 0 \/ t \in settled =>
                            t \in over /\ (ViewTask' = t => ViewState' \notin Printing)
    BY <1>2 DEF EndedInv
  <2>1. /\ finalizing[t] > 0 => staging[t] = "session"
        /\ finalizing[t] > 0 \/ t \in settled =>
              t \in over /\ (ViewTask = t => ViewState \notin Printing)
    BY DEF IInv, EndedInv
  <2>2. t # Absent
    BY ServiceAssumption
  <2> QED
    BY <1>3, <2>1, <2>2, ViewAfter DEF PrinterInv
<1> QED
  BY <1>1, <1>4, <1>5, <1>6, <1>7, <1>8 DEF IInv

(* A job is over when the printer is done with it: what each step of the    *)
(* printer does to its task, its state and the jobs that are over.          *)
LEMMA PrinterDoes ==
    ASSUME TypeOK, PrinterInv, Printer
    PROVE  /\ PrinterInv' /\ PrinterOnly
           /\ over \subseteq over'
           /\ \A t \in Tasks : Started(t) =>
                 /\ Started(t)'
                 /\ printer'.task = t /\ printer'.state = "PREPARE" =>
                       printer.task = t /\ printer.state = "PREPARE"
<1> USE DEF Printing, Ending
<1> DEFINE Goal == /\ PrinterInv' /\ PrinterOnly
                   /\ over \subseteq over'
                   /\ \A t \in Tasks : Started(t) =>
                         /\ Started(t)'
                         /\ printer'.task = t /\ printer'.state = "PREPARE" =>
                               printer.task = t /\ printer.state = "PREPARE"
<1>1. printer \in [task : Tasks \cup {NoTask}, state : {"IDLE"} \cup Printing \cup Ending]
  BY DEF TypeOK
<1>2. ASSUME NEW t \in Tasks, PrinterStart(t) PROVE Goal
  <2>1. /\ printer' = [task |-> t, state |-> "PREPARE"] /\ over' = over
        /\ printer.state \notin Printing /\ t \notin over /\ PrinterOnly
    BY <1>2 DEF PrinterStart
  <2> QED
    BY <1>1, <2>1 DEF PrinterInv, Started
<1>3. CASE PrinterRun \/ PrinterPause
  <2>1. /\ printer'.task = printer.task /\ printer'.state \in {"RUNNING", "PAUSE"}
        /\ over' = over /\ printer.state \in Printing /\ PrinterOnly
    BY <1>1, <1>3 DEF PrinterRun, PrinterPause
  <2> QED
    BY <1>1, <2>1 DEF PrinterInv, Started
<1>4. CASE PrinterIdle
  <2>1. /\ printer'.task = printer.task /\ printer'.state = "IDLE" /\ over' = over
        /\ printer.state \notin Printing /\ PrinterOnly
    BY <1>1, <1>4 DEF PrinterIdle
  <2> QED
    BY <1>1, <2>1 DEF PrinterInv, Started
<1>5. ASSUME NEW how \in Ending, PrinterEnd(how) PROVE Goal
  <2>1. /\ printer'.task = printer.task /\ printer'.state = how
        /\ over' = over \cup {printer.task} /\ PrinterOnly
    BY <1>1, <1>5 DEF PrinterEnd
  <2> QED
    BY <1>1, <2>1 DEF PrinterInv, Started
<1> QED
  BY <1>2, <1>3, <1>4, <1>5 DEF Printer

(* A step of the printer keeps the invariant: no started job is forgotten,  *)
(* none that is over returns, and only a job not yet started is prepared.   *)
LEMMA PrinterStepInv ==
    ASSUME IInv, TypeOK', Printer
    PROVE  IInv'
<1>1. UNCHANGED <<proc, pc, about, fields, reconciled, current, finalizing, staging, shots,
                  settled>>
  BY PrinterDoes DEF IInv, PrinterOnly, diskVars, history
<1>2. ViewTask' = ViewTask /\ ViewState' = ViewState /\ Listed' = Listed
  BY <1>1 DEF ViewTask, ViewState, Listed
<1>3. ViewTask \in {Absent} \cup Tasks
  BY DEF IInv, TypeOK, ViewTask
<1>4. /\ TypeOK /\ PrinterInv /\ ViewInv /\ StagingInv /\ StartupInv /\ CurrentInv /\ EndedInv
      /\ OneOwner /\ CurrentOnDisk /\ OwnFrames
  BY DEF IInv
<1>5. PrinterInv'
  BY <1>4, PrinterDoes
<1>6. ViewInv'
  BY <1>1, <1>2, <1>3, <1>4, PrinterDoes DEF ViewInv
<1>7. StagingInv'
  BY <1>1, <1>4, PrinterDoes DEF StagingInv
<1>8. StartupInv' /\ CurrentInv' /\ EndedInv'
  BY <1>1, <1>2, <1>4, PrinterDoes DEF StartupInv, CurrentInv, EndedInv
<1>9. OneOwner' /\ CurrentOnDisk' /\ OwnFrames'
  BY <1>1, <1>4 DEF OneOwner, CurrentOnDisk, OwnFrames
<1> QED
  BY <1>5, <1>6, <1>7, <1>8, <1>9 DEF IInv

(* The startup pass keeps the invariant: it adopts the job the view calls   *)
(* running, and every other session on disk is of a job that is over.       *)
LEMMA ReconcileInv ==
    ASSUME IInv, TypeOK', Reconcile
    PROVE  IInv'
<1> DEFINE running == GcodeState(fields) \in {"RUNNING", "PAUSE"}
           live == IF running THEN {t \in Listed : t = TaskID(fields)} ELSE {}
<1>1. /\ current' = IF live = {} THEN current ELSE CHOOSE t \in live : TRUE
      /\ finalizing' = [t \in Tasks |-> finalizing[t] + (IF t \in Listed \ live THEN 1 ELSE 0)]
      /\ pc = "reconcile" /\ pc' = "handle"
      /\ UNCHANGED <<printer, over, about, fields, reconciled, staging, shots, settled>>
  BY DEF Reconcile, StartFinalize, printerVars, diskVars
<1>2. /\ current = NoTask
      /\ \A t \in Tasks : finalizing[t] = 0
      /\ \A t \in Listed : /\ t \notin over => ViewTask = t
                           /\ ViewTask = t => ViewState # "PREPARE"
  BY <1>1 DEF IInv, StartupInv
<1>3. live = {} \/ (running /\ live = {ViewTask} /\ ViewTask \in Listed)
  BY DEF ViewTask
<1>4. Listed \subseteq Tasks /\ live \subseteq Listed
  BY DEF Listed
<1>5. ViewTask' = ViewTask /\ ViewState' = ViewState /\ Listed' = Listed
  BY <1>1 DEF ViewTask, ViewState, Listed
<1>6. running <=> ViewState \in {"RUNNING", "PAUSE"}
  BY DEF ViewState
<1> HIDE DEF running, live
<1>7. \A t \in Tasks : finalizing'[t] = IF t \in Listed \ live THEN 1 ELSE 0
  BY <1>1, <1>2
<1>8. \/ current' = NoTask /\ live = {}
      \/ current' = ViewTask /\ live = {ViewTask} /\ ViewTask \in Listed
  <2>1. (CHOOSE t \in {ViewTask} : TRUE) = ViewTask
    OBVIOUS
  <2> QED
    BY <1>1, <1>2, <1>3, <2>1
<1>9. \A t \in Listed \ live : t \in over /\ (ViewTask = t => ViewState \notin Printing)
  <2> SUFFICES ASSUME NEW t \in Listed \ live
               PROVE  t \in over /\ (ViewTask = t => ViewState \notin Printing)
    OBVIOUS
  <2>1. CASE ViewTask # t
    BY <1>2, <2>1
  <2>2. CASE ViewTask = t
    <3>1. ~running
      BY <2>2 DEF live, ViewTask
    <3>2. ViewState \notin Printing
      BY <1>2, <1>6, <2>2, <3>1 DEF Printing
    <3>3. t # Absent
      BY <1>4, ServiceAssumption
    <3> QED
      BY <2>2, <3>2, <3>3 DEF IInv, ViewInv
  <2> QED
    BY <2>1, <2>2
<1>10. PrinterInv' /\ ViewInv' /\ StagingInv' /\ OwnFrames'
  <2>1. PrinterInv /\ ViewInv /\ StagingInv /\ OwnFrames
    BY DEF IInv
  <2> QED
    BY <1>1, <1>5, <2>1 DEF PrinterInv, ViewInv, StagingInv, OwnFrames, Started
<1>11. StartupInv'
  <2>1. reconciled' /\ pc' # "reconcile"
    BY <1>1 DEF IInv, StartupInv, TypeOK
  <2> QED
    BY <2>1 DEF StartupInv
<1>12. CurrentInv' /\ CurrentOnDisk'
  BY <1>1, <1>5, <1>8 DEF CurrentInv, CurrentOnDisk, Listed
<1>13. EndedInv'
  BY <1>1, <1>5, <1>7, <1>9 DEF IInv, EndedInv, Listed
<1>14. OneOwner'
  BY <1>7, <1>8, ServiceAssumption DEF OneOwner
<1> QED
  BY <1>10, <1>11, <1>12, <1>13, <1>14 DEF IInv

(* A step of the callback that only ends it, or shoots a frame of a session *)
(* the view does not contradict, keeps the invariant.                       *)
LEMMA HandleRecordInv ==
    ASSUME IInv, TypeOK', HandleRecord
    PROVE  IInv'
<1>1. /\ current # NoTask
      /\ ViewTask \in {current, Absent}
      /\ Shoot(current)
      /\ pc = "handle" /\ pc' = "idle"
      /\ UNCHANGED <<printer, over, fields, reconciled, current, finalizing, staging, settled>>
  BY DEF HandleRecord, Handling, Return, Kept, ViewTask, printerVars, history
<1>2. ViewTask' = ViewTask /\ ViewState' = ViewState /\ Listed' = Listed
  BY <1>1 DEF ViewTask, ViewState, Listed
<1>3. about \in Unnamed \cup {NoTask, current}
  <2>1. String(fields, "task_id") = IdOf(about) /\ DOMAIN fields \subseteq Full
    BY <1>1 DEF IInv, ViewInv
  <2>2. ViewTask = IF Names(String(fields, "task_id")) THEN String(fields, "task_id") ELSE Absent
    BY <2>1, TaskIDOfView DEF ViewTask
  <2>3. about \in Tasks \cup {NoTask} /\ \A t \in Tasks : Names(t) /\ t # Absent
    BY IdOfTask, ServiceAssumption DEF IInv, TypeOK
  <2> QED
    BY <1>1, <2>1, <2>2, <2>3 DEF IdOf
<1>4. OwnFrames'
  <2>1. OwnFrames /\ shots \in [Tasks -> SUBSET Tasks] /\ current \in Tasks
    BY <1>1 DEF IInv, TypeOK
  <2> QED
    BY <1>1, <1>3, <2>1 DEF OwnFrames, Shoot
<1>5. /\ PrinterInv /\ ViewInv /\ StagingInv /\ StartupInv /\ CurrentInv /\ EndedInv
      /\ OneOwner /\ CurrentOnDisk
  BY DEF IInv
<1>6. PrinterInv' /\ ViewInv' /\ StagingInv'
  BY <1>1, <1>2, <1>5 DEF PrinterInv, ViewInv, StagingInv, Started
<1>7. StartupInv' /\ CurrentInv' /\ EndedInv'
  BY <1>1, <1>2, <1>5 DEF StartupInv, CurrentInv, EndedInv
<1>8. OneOwner' /\ CurrentOnDisk'
  BY <1>1, <1>5 DEF OneOwner, CurrentOnDisk
<1> QED
  BY <1>4, <1>6, <1>7, <1>8 DEF IInv

(* A report of no consequence, or a staging that cannot be listed.          *)
LEMMA HandleOtherInv ==
    ASSUME IInv, TypeOK', HandleOther \/ ReconcileUnlisted
    PROVE  IInv'
<1>1. /\ pc \in {"handle", "reconcile"} /\ pc' \in {"idle", "handle"}
      /\ pc' = "handle" => pc = "reconcile" /\ about' = about
      /\ UNCHANGED <<printer, over, fields, reconciled, current, finalizing, staging, shots,
                     settled>>
  BY DEF HandleOther, Handling, ReconcileUnlisted, Return, printerVars, diskVars, history
<1>2. ViewTask' = ViewTask /\ ViewState' = ViewState /\ Listed' = Listed
  BY <1>1 DEF ViewTask, ViewState, Listed
<1>3. /\ PrinterInv /\ ViewInv /\ StagingInv /\ StartupInv /\ CurrentInv /\ EndedInv
      /\ OneOwner /\ CurrentOnDisk /\ OwnFrames
  BY DEF IInv
<1>4. PrinterInv' /\ ViewInv' /\ StagingInv'
  BY <1>1, <1>2, <1>3 DEF PrinterInv, ViewInv, StagingInv, Started
<1>5. StartupInv' /\ CurrentInv' /\ EndedInv'
  BY <1>1, <1>2, <1>3 DEF StartupInv, CurrentInv, EndedInv
<1>6. OneOwner' /\ CurrentOnDisk' /\ OwnFrames'
  BY <1>1, <1>3 DEF OneOwner, CurrentOnDisk, OwnFrames
<1> QED
  BY <1>4, <1>5, <1>6 DEF IInv

(* The session that is open goes to a finalizer: its job is over.           *)
LEMMA HandsOver ==
    ASSUME IInv, current # NoTask, pc = "handle",
           ViewTask = current => ViewState \notin Printing
    PROVE  /\ current \in Tasks /\ current \in over
           /\ finalizing[current] = 0
           /\ staging[current] = "session"
<1>1. current \in Tasks /\ current # Absent /\ finalizing[current] \in Nat
  BY ServiceAssumption DEF IInv, TypeOK
<1>2. current \in over
  BY <1>1 DEF IInv, CurrentInv, ViewInv
<1>3. finalizing[current] = 0
  BY <1>1 DEF IInv, OneOwner
<1> QED
  BY <1>1, <1>2, <1>3 DEF IInv, CurrentOnDisk

(* The end of a job hands its session to a finalizer.                       *)
LEMMA HandleEndInv ==
    ASSUME IInv, TypeOK', HandleEnd
    PROVE  IInv'
<1>1. /\ finalizing' = [t \in Tasks |-> finalizing[t] + (IF t \in {current} \ {NoTask} THEN 1 ELSE 0)]
      /\ current' = NoTask /\ pc = "handle" /\ pc' = "idle"
      /\ ViewState \in {"FINISH", "FAILED", "IDLE"}
      /\ UNCHANGED <<printer, over, fields, reconciled, staging, shots, settled>>
  BY DEF HandleEnd, Handling, StartFinalize, Return, ViewState, printerVars, diskVars
<1>2. ViewTask' = ViewTask /\ ViewState' = ViewState /\ Listed' = Listed
  BY <1>1 DEF ViewTask, ViewState, Listed
<1>3. /\ PrinterInv /\ ViewInv /\ StagingInv /\ StartupInv /\ CurrentInv /\ EndedInv
      /\ OneOwner /\ CurrentOnDisk /\ OwnFrames
  BY DEF IInv
<1>4. ViewState \notin Printing
  BY <1>1 DEF Printing
<1>5. finalizing \in [Tasks -> Nat] /\ current \in Tasks \cup {NoTask}
  BY DEF IInv, TypeOK
<1>6. PrinterInv' /\ ViewInv' /\ StagingInv' /\ OwnFrames'
  BY <1>1, <1>2, <1>3 DEF PrinterInv, ViewInv, StagingInv, OwnFrames, Started
<1>7. StartupInv' /\ CurrentInv' /\ CurrentOnDisk'
  BY <1>1, <1>2, <1>3 DEF StartupInv, CurrentInv, CurrentOnDisk
<1>8. EndedInv'
  <2> SUFFICES ASSUME NEW t \in Tasks
               PROVE  /\ finalizing'[t] > 0 => staging[t] = "session"
                      /\ finalizing'[t] > 0 \/ t \in settled =>
                            t \in over /\ (ViewTask = t => ViewState \notin Printing)
    BY <1>1, <1>2 DEF EndedInv
  <2>1. finalizing'[t] = finalizing[t] \/ (t = current /\ current # NoTask)
    BY <1>1, <1>5
  <2> QED
    BY <1>1, <1>3, <1>4, <2>1, HandsOver DEF EndedInv
<1>9. OneOwner'
  <2> SUFFICES ASSUME NEW t \in Tasks PROVE finalizing'[t] <= 1
    <3>1. finalizing' \in [Tasks -> Nat]
      BY DEF TypeOK
    <3> QED
      BY <1>1, <3>1, ServiceAssumption DEF OneOwner
  <2>1. CASE t = current
    BY <1>1, <1>4, <1>5, <2>1, HandsOver, ServiceAssumption
  <2>2. CASE t # current
    BY <1>1, <1>3, <1>5, <2>2 DEF OneOwner
  <2> QED
    BY <2>1, <2>2
<1> QED
  BY <1>6, <1>7, <1>8, <1>9 DEF IInv

(* A job the view calls running has no finalizer and is not settled.        *)
LEMMA RunningIsFree ==
    ASSUME IInv, ViewState = "RUNNING", ViewTask # Absent
    PROVE  /\ ViewTask \in Tasks \ Unnamed
           /\ finalizing[ViewTask] = 0 /\ ViewTask \notin settled
           /\ Started(ViewTask)
           /\ ViewTask = printer.task => printer.state # "PREPARE"
<1>1. ViewTask \in Tasks /\ finalizing[ViewTask] \in Nat
  BY DEF IInv, TypeOK, ViewTask
<1>2. ViewState \in Printing /\ ViewState # "PREPARE"
  BY DEF Printing
<1> QED
  BY <1>1, <1>2 DEF IInv, ViewInv, EndedInv

(* RUNNING with no session to keep: another job's session goes to a         *)
(* finalizer, and the view's own job may be opened.                         *)
LEMMA HandleBeginInv ==
    ASSUME IInv, TypeOK', NEW opened \in BOOLEAN, HandleBegin(opened)
    PROVE  IInv'
<1>1. /\ finalizing' = [t \in Tasks |-> finalizing[t] + (IF t \in {current} \ {NoTask} THEN 1 ELSE 0)]
      /\ current # NoTask => ViewTask \notin {current, Absent}
      /\ pc = "handle" /\ pc' = "idle"
      /\ ViewState = "RUNNING"
      /\ UNCHANGED <<printer, over, fields, reconciled, settled>>
  BY DEF HandleBegin, Handling, Switch, Kept, StartFinalize, Return, ViewState, ViewTask,
         printerVars
<1>2. Opens(ViewTask) \/ Waits \/ Fails(ViewTask)
  BY BeginCases DEF ViewTask
<1>3. /\ PrinterInv /\ ViewInv /\ StagingInv /\ StartupInv /\ CurrentInv /\ EndedInv
      /\ OneOwner /\ CurrentOnDisk /\ OwnFrames
  BY DEF IInv
<1>4. /\ finalizing \in [Tasks -> Nat] /\ finalizing' \in [Tasks -> Nat]
      /\ current \in Tasks \cup {NoTask}
      /\ staging \in [Tasks -> {"none", "bare", "session"}]
      /\ shots \in [Tasks -> SUBSET Tasks]
      /\ reconciled
  BY <1>1 DEF IInv, TypeOK, StartupInv
<1>5. ViewTask' = ViewTask /\ ViewState' = ViewState
  BY <1>1 DEF ViewTask, ViewState
<1>6. \A t \in Tasks : \/ finalizing'[t] = finalizing[t] /\ t # current
                       \/ /\ t = current /\ t # ViewTask /\ finalizing'[t] = 1
                          /\ t \in over /\ staging[t] = "session"
  <2> SUFFICES ASSUME NEW t \in Tasks, t = current
               PROVE  /\ t # ViewTask /\ finalizing'[t] = 1
                      /\ t \in over /\ staging[t] = "session"
    BY <1>1, <1>4
  <2>1. t # NoTask
    BY ServiceAssumption
  <2>2. ViewTask # current
    BY <1>1, <2>1
  <2>3. finalizing[t] = 0 /\ t \in over /\ staging[t] = "session"
    BY <1>1, <2>1, <2>2, HandsOver
  <2> QED
    BY <1>1, <2>1, <2>2, <2>3
<1>7. PrinterInv' /\ ViewInv'
  BY <1>1, <1>3, <1>5 DEF PrinterInv, ViewInv, Started
<1>8. CASE Opens(ViewTask)
  <2>1. /\ ViewTask # Absent /\ current' = ViewTask
        /\ staging' = [staging EXCEPT ![ViewTask] = "session"]
        /\ Shoot(ViewTask)
    BY <1>8 DEF Opens
  <2>2. /\ ViewTask \in Tasks \ Unnamed /\ finalizing[ViewTask] = 0
        /\ Started(ViewTask)
        /\ ViewTask = printer.task => printer.state # "PREPARE"
    BY <1>1, <2>1, RunningIsFree
  <2>3. StagingInv'
    BY <1>1, <1>3, <1>4, <2>1, <2>2 DEF StagingInv, Started
  <2>4. StartupInv' /\ CurrentInv' /\ CurrentOnDisk'
    BY <1>1, <1>4, <1>5, <2>1, <2>2 DEF StartupInv, CurrentInv, CurrentOnDisk
  <2>5. EndedInv'
    BY <1>1, <1>3, <1>4, <1>5, <1>6, <2>1, <2>2 DEF EndedInv
  <2>6. OneOwner'
    BY <1>3, <1>4, <1>6, <2>1, <2>2 DEF OneOwner
  <2>7. OwnFrames'
    <3>1. about \in Unnamed \cup {NoTask, ViewTask}
      <4>1. String(fields, "task_id") = IdOf(about) /\ DOMAIN fields \subseteq Full
        BY <1>1, <1>3 DEF ViewInv
      <4>2. ViewTask = IF Names(String(fields, "task_id")) THEN String(fields, "task_id") ELSE Absent
        BY <4>1, TaskIDOfView DEF ViewTask
      <4> QED
        BY <2>1, <4>1, <4>2 DEF IdOf
    <3> QED
      BY <1>3, <1>4, <2>1, <2>2, <3>1 DEF OwnFrames, Shoot
  <2> QED
    BY <1>7, <2>3, <2>4, <2>5, <2>6, <2>7 DEF IInv
<1>9. CASE Waits \/ Fails(ViewTask)
  <2>1. /\ current' = NoTask /\ shots' = shots
        /\ \/ staging' = staging
           \/ /\ ViewTask # Absent /\ staging[ViewTask] # "session"
              /\ staging' = [staging EXCEPT ![ViewTask] = "bare"]
    BY <1>9 DEF Waits, Fails
  <2>2. ViewTask # Absent =>
          /\ ViewTask \in Tasks \ Unnamed /\ finalizing[ViewTask] = 0
          /\ Started(ViewTask)
          /\ ViewTask = printer.task => printer.state # "PREPARE"
    BY <1>1, RunningIsFree
  <2>3. StagingInv'
    BY <1>1, <1>3, <1>4, <2>1, <2>2 DEF StagingInv, Started
  <2>4. StartupInv' /\ CurrentInv' /\ CurrentOnDisk' /\ OwnFrames'
    BY <1>1, <1>3, <1>4, <2>1 DEF StartupInv, CurrentInv, CurrentOnDisk, OwnFrames
  <2>5. \A t \in Tasks : staging[t] = "session" => staging'[t] = "session"
    BY <1>4, <2>1
  <2>6. EndedInv'
    BY <1>1, <1>3, <1>4, <1>5, <1>6, <2>5 DEF EndedInv
  <2>7. OneOwner'
    BY <1>3, <1>4, <1>6, <2>1, ServiceAssumption DEF OneOwner
  <2> QED
    BY <1>7, <2>3, <2>4, <2>6, <2>7 DEF IInv
<1> QED
  BY <1>2, <1>8, <1>9

(* A finalizer ends: its directory was nobody else's.                       *)
LEMMA FinalizeEndsInv ==
    ASSUME IInv, TypeOK', NEW t \in Tasks, FinalizeEnds(t)
    PROVE  IInv'
<1>1. /\ finalizing[t] > 0
      /\ finalizing' = [finalizing EXCEPT ![t] = @ - 1]
      /\ staging' = [staging EXCEPT ![t] = "none"]
      /\ settled' = settled \cup {t}
      /\ UNCHANGED <<printer, over, pc, about, fields, reconciled, current, shots>>
  BY DEF FinalizeEnds, printerVars
<1>2. ViewTask' = ViewTask /\ ViewState' = ViewState
  BY <1>1 DEF ViewTask, ViewState
<1>3. /\ PrinterInv /\ ViewInv /\ StagingInv /\ StartupInv /\ CurrentInv /\ EndedInv
      /\ OneOwner /\ CurrentOnDisk /\ OwnFrames
  BY DEF IInv
<1>4. /\ finalizing \in [Tasks -> Nat] /\ finalizing' \in [Tasks -> Nat]
      /\ staging \in [Tasks -> {"none", "bare", "session"}]
  BY DEF IInv, TypeOK
<1>5. finalizing[t] = 1 /\ current # t
  BY <1>1, <1>3, <1>4 DEF OneOwner
<1>6. /\ finalizing'[t] = 0 /\ staging'[t] = "none"
      /\ \A u \in Tasks \ {t} : finalizing'[u] = finalizing[u] /\ staging'[u] = staging[u]
  BY <1>1, <1>4, <1>5
<1>7. PrinterInv' /\ ViewInv' /\ OwnFrames'
  BY <1>1, <1>2, <1>3 DEF PrinterInv, ViewInv, OwnFrames, Started
<1>8. StagingInv'
  BY <1>1, <1>3, <1>6 DEF StagingInv, Started
<1>9. StartupInv'
  BY <1>1, <1>3 DEF StartupInv
<1>10. CurrentInv' /\ CurrentOnDisk'
  BY <1>1, <1>2, <1>3, <1>4, <1>5 DEF CurrentInv, CurrentOnDisk
<1>11. EndedInv'
  BY <1>1, <1>2, <1>3, <1>6 DEF EndedInv
<1>12. OneOwner'
  BY <1>1, <1>3, <1>4, <1>5, <1>6 DEF OneOwner
<1> QED
  BY <1>7, <1>8, <1>9, <1>10, <1>11, <1>12 DEF IInv

(* A process that is gone owns nothing, and its view is empty.              *)
LEMMA GoneInv ==
    ASSUME IInv, TypeOK', ProcessGone
    PROVE  IInv'
<1>1. /\ pc' = "idle" /\ fields' = Empty /\ reconciled' = FALSE /\ current' = NoTask
      /\ finalizing' = [t \in Tasks |-> 0]
      /\ UNCHANGED <<printer, over, staging, shots, settled>>
  BY DEF ProcessGone, Return, printerVars, diskVars, history
<1>2. DOMAIN fields' = {} /\ ViewTask' = Absent
  BY <1>1 DEF Empty, ViewTask, TaskID, String, Names
<1>3. /\ PrinterInv /\ StagingInv /\ EndedInv /\ OwnFrames
  BY DEF IInv
<1>4. PrinterInv' /\ StagingInv' /\ OwnFrames'
  BY <1>1, <1>3 DEF PrinterInv, StagingInv, OwnFrames, Started
<1>5. ViewInv'
  BY <1>1, <1>2 DEF ViewInv
<1>6. StartupInv' /\ CurrentInv' /\ CurrentOnDisk' /\ OneOwner'
  BY <1>1, ServiceAssumption DEF StartupInv, CurrentInv, CurrentOnDisk, OneOwner
<1>7. EndedInv'
  BY <1>1, <1>2, <1>3, ServiceAssumption DEF EndedInv
<1> QED
  BY <1>4, <1>5, <1>6, <1>7 DEF IInv

(* A step that changes none of what the invariant is about.                 *)
LEMMA QuietStep ==
    ASSUME IInv, TypeOK',
           UNCHANGED <<printer, over, pc, about, fields, reconciled, current, finalizing,
                       staging, shots, settled>>
    PROVE  IInv'
<1>1. ViewTask' = ViewTask /\ ViewState' = ViewState /\ Listed' = Listed
  BY DEF ViewTask, ViewState, Listed
<1>2. /\ PrinterInv /\ ViewInv /\ StagingInv /\ StartupInv /\ CurrentInv /\ EndedInv
      /\ OneOwner /\ CurrentOnDisk /\ OwnFrames
  BY DEF IInv
<1>3. PrinterInv' /\ ViewInv' /\ StagingInv'
  BY <1>1, <1>2 DEF PrinterInv, ViewInv, StagingInv, Started
<1>4. StartupInv' /\ CurrentInv' /\ EndedInv' /\ OneOwner' /\ CurrentOnDisk' /\ OwnFrames'
  BY <1>1, <1>2 DEF StartupInv, CurrentInv, EndedInv, OneOwner, CurrentOnDisk, OwnFrames
<1> QED
  BY <1>3, <1>4 DEF IInv

(* The initial states are well typed.                                       *)
LEMMA InitType == Init => TypeOK
<1> SUFFICES ASSUME Init PROVE TypeOK
  OBVIOUS
<1>1. DOMAIN fields = {} /\ TaskID(fields) = Absent /\ GcodeState(fields) = Absent
  BY DEF Init, Empty, GcodeState, TaskID, String, Names
<1>2. halts \in 0..MaxPauses /\ restarts \in 0..MaxRestarts /\ finalizing \in [Tasks -> Nat]
  BY ServiceAssumption DEF Init
<1>3. reconciled \in BOOLEAN
  BY DEF Init
<1>4. /\ printer \in [task : Tasks \cup {NoTask}, state : {"IDLE"} \cup Printing \cup Ending]
      /\ result \in [Tasks -> {"none"} \cup Ending]
      /\ staging \in [Tasks -> {"none", "bare", "session"}]
      /\ shots \in [Tasks -> SUBSET Tasks]
      /\ verdict \in [Tasks -> {"none", "IDLE"} \cup Ending]
  BY DEF Init
<1> QED
  BY <1>1, <1>2, <1>3, <1>4 DEF Init, TypeOK

(* Who owns which session, for any number of jobs, restarts and pauses.     *)
THEOREM Ownership == ASSUME Coherent PROVE Spec => []IInv
<1>1. Init => IInv
  <2> SUFFICES ASSUME Init PROVE IInv
    OBVIOUS
  <2>1. DOMAIN fields = {} /\ ViewTask = Absent /\ ViewState = Absent
    BY DEF Init, Empty, ViewTask, ViewState, GcodeState, TaskID, String, Names
  <2>2. TypeOK
    BY InitType
  <2>3. PrinterInv /\ ViewInv /\ StagingInv /\ StartupInv /\ CurrentInv /\ EndedInv
    BY <2>1, ServiceAssumption
    DEF Init, PrinterInv, ViewInv, StagingInv, StartupInv, CurrentInv, EndedInv, Printing
  <2>4. OneOwner /\ CurrentOnDisk /\ OwnFrames
    BY ServiceAssumption DEF Init, OneOwner, CurrentOnDisk, OwnFrames
  <2> QED
    BY <2>2, <2>3, <2>4 DEF IInv
<1>2. IInv /\ [Next]_vars => IInv'
  <2> SUFFICES ASSUME IInv, [Next]_vars PROVE IInv'
    OBVIOUS
  <2>1. TypeOK'
    BY TypeStep DEF IInv
  <2>2. CASE Printer
    BY <2>1, <2>2, PrinterStepInv
  <2>3. ASSUME NEW K \in SUBSET Full, OnMessage(K) PROVE IInv'
    BY <2>3, OnMessageInv
  <2>4. CASE Reconcile
    BY <2>1, <2>4, ReconcileInv
  <2>5. CASE ReconcileUnlisted \/ HandleOther
    BY <2>1, <2>5, HandleOtherInv
  <2>6. CASE HandleRecord
    BY <2>1, <2>6, HandleRecordInv
  <2>7. CASE HandleEnd
    BY <2>1, <2>7, HandleEndInv
  <2>8. ASSUME NEW opened \in BOOLEAN, HandleBegin(opened) PROVE IInv'
    BY <2>1, <2>8, HandleBeginInv
  <2>9. ASSUME NEW t \in Tasks, FinalizeEnds(t) PROVE IInv'
    BY <2>1, <2>9, FinalizeEndsInv
  <2>10. CASE Crash \/ Exit
    BY <2>1, <2>10, GoneInv DEF Crash, Exit
  <2>11. CASE Stop \/ Boot
    BY <2>1, <2>11, QuietStep DEF Stop, Boot, printerVars, diskVars, history
  <2>12. CASE UNCHANGED vars
    BY <2>1, <2>12, QuietStep DEF vars, printerVars, diskVars, history
  <2> QED
    BY <2>2, <2>3, <2>4, <2>5, <2>6, <2>7, <2>8, <2>9, <2>10, <2>11, <2>12
    DEF Next, Callback
<1> QED
  BY <1>1, <1>2, PTL DEF Spec

(* The state keeps its type, however the reports come.                      *)
THEOREM TypeCorrect == Spec => []TypeOK
<1>1. Init => TypeOK /\ PrinterInv
  BY InitType, ServiceAssumption DEF Init, PrinterInv, Printing
<1>2. TypeOK /\ PrinterInv /\ [Next]_vars => TypeOK' /\ PrinterInv'
  <2> SUFFICES ASSUME TypeOK, PrinterInv, [Next]_vars PROVE PrinterInv'
    BY TypeStep
  <2>1. CASE Printer
    BY <2>1, PrinterDoes
  <2>2. CASE ~Printer
    <3>1. UNCHANGED <<printer, over>>
      BY <2>2
      DEF Next, vars, printerVars, OnMessage, Callback, Reconcile, ReconcileUnlisted,
          HandleRecord, HandleEnd, HandleOther, HandleBegin, FinalizeEnds, Crash, Exit,
          ProcessGone, Stop, Boot
    <3> QED
      BY <3>1 DEF PrinterInv
  <2> QED
    BY <2>1, <2>2
<1> QED
  BY <1>1, <1>2, PTL DEF Spec

(* No directory has two owners.                                             *)
THEOREM OwnersSeparate == ASSUME Coherent PROVE Spec => []OneOwner
<1>1. IInv => OneOwner
  BY DEF IInv
<1> QED
  BY <1>1, Ownership, PTL

-----------------------------------------------------------------------------
(* What is left of the argument when reports come in pieces.  The view may  *)
(* put one job's state beside another's name, but each of its two halves    *)
(* only ever moves forward: the session that is open and not over is the    *)
(* printer's own job, which nothing reported since then calls another job   *)
(* or ended.                                                                *)
PiecesInv ==
    /\ TypeOK /\ PrinterInv
    /\ ViewTask # Absent => ViewTask \notin Unnamed /\ Started(ViewTask)
    /\ \A t \in Tasks : staging[t] # "none" => Started(t)
    /\ ~reconciled => ViewState = Absent
    /\ pc = "reconcile" => \A t \in Listed : t \notin over => ViewState \in Printing
    /\ current # NoTask /\ current \notin over =>
          ViewTask = current /\ ViewState \in Printing

(* The jobs a step of the callback hands to finalizers.                     *)
HandedOver == {t \in Tasks : finalizing'[t] > finalizing[t]}

(* What StartFinalize hands over is what it is told to.                     *)
LEMMA HandedBy ==
    ASSUME TypeOK, NEW T, NEW e, StartFinalize(T, e)
    PROVE  HandedOver \subseteq T
BY DEF TypeOK, StartFinalize, HandedOver

(* The exception of the startup pass.                                       *)
Misled(t) == pc = "reconcile" /\ (ViewTask # t \/ ViewState = "PREPARE")

(* A report, whichever of the two keys it carries, keeps PiecesInv: the     *)
(* open session's job, if it is not over, is the one the printer reports.   *)
LEMMA PiecesReport ==
    ASSUME PiecesInv, TypeOK', NEW K \in SUBSET Full, OnMessage(K)
    PROVE  PiecesInv'
<1>1. /\ UNCHANGED <<printer, over, current, staging>>
      /\ fields' = Merge(fields, Section(K))
      /\ pc' = "reconcile" => ~reconciled
      /\ ~reconciled' => GcodeState(fields') = Absent
  BY DEF OnMessage, printerVars, diskVars, TypeOK, PiecesInv
<1>2. DOMAIN fields \subseteq Full /\ DOMAIN fields' \subseteq Full
  BY DEF PiecesInv, TypeOK, Full
<1>3. /\ String(fields', "task_id") =
            IF "task_id" \in K THEN IdOf(printer.task) ELSE String(fields, "task_id")
      /\ ViewState' = IF "gcode_state" \in K THEN printer.state ELSE ViewState
  BY <1>1, <1>2, MergeView DEF ViewState
<1>4. /\ ViewTask = IF Names(String(fields, "task_id")) THEN String(fields, "task_id") ELSE Absent
      /\ ViewTask' = IF Names(String(fields', "task_id")) THEN String(fields', "task_id")
                     ELSE Absent
  BY <1>2, TaskIDOfView DEF ViewTask
<1>5. \/ ViewTask' = ViewTask
      \/ ViewTask' = IF Names(IdOf(printer.task)) THEN IdOf(printer.task) ELSE Absent
  BY <1>3, <1>4
<1>6. /\ printer \in [task : Tasks \cup {NoTask}, state : {"IDLE"} \cup Printing \cup Ending]
      /\ current \in Tasks \cup {NoTask}
  BY DEF PiecesInv, TypeOK
<1>7. printer.task \in Tasks \ Unnamed => Names(IdOf(printer.task)) /\ IdOf(printer.task) = printer.task
  BY IdOfTask, ServiceAssumption DEF IdOf, PiecesInv
<1>8. printer.task \notin Tasks \ Unnamed => ~Names(IdOf(printer.task))
  BY <1>6, IdOfTask DEF IdOf, PiecesInv
<1>9. ViewTask' # Absent => ViewTask' \notin Unnamed /\ Started(ViewTask)'
  BY <1>1, <1>5, <1>6, <1>7, <1>8 DEF PiecesInv, Started
<1>10. \A t \in Tasks : t \notin over /\ Started(t) => printer.task = t /\ printer.state \in Printing
  BY DEF PiecesInv, PrinterInv, Started
<1>11. pc' = "reconcile" => \A t \in Listed' : t \notin over' => ViewState' \in Printing
  <2> SUFFICES ASSUME pc' = "reconcile", NEW t \in Listed', t \notin over'
               PROVE  ViewState' \in Printing
    OBVIOUS
  <2>1. ViewState' # Absent /\ ViewState = Absent
    BY <1>1 DEF OnMessage, ViewState, PiecesInv
  <2>2. ViewState' = printer.state
    BY <1>3, <2>1
  <2>3. t \in Tasks /\ staging[t] = "session" /\ t \notin over
    BY <1>1 DEF Listed
  <2> QED
    BY <1>10, <2>2, <2>3 DEF PiecesInv
<1>12. current' # NoTask /\ current' \notin over' => ViewTask' = current' /\ ViewState' \in Printing
  <2> SUFFICES ASSUME current # NoTask, current \notin over
               PROVE  ViewTask' = current /\ ViewState' \in Printing
    BY <1>1
  <2>1. /\ ViewTask = current /\ ViewState \in Printing /\ current \in Tasks
        /\ current \notin Unnamed /\ Started(current)
    BY <1>6, ServiceAssumption DEF PiecesInv
  <2>2. printer.task = current /\ printer.state \in Printing
    BY <1>10, <2>1
  <2> QED
    BY <1>3, <1>5, <1>7, <2>1, <2>2
<1>13. ~reconciled' => ViewState' = Absent
  BY <1>1 DEF ViewState
<1>14. PrinterInv' /\ \A t \in Tasks : staging'[t] # "none" => Started(t)'
  BY <1>1 DEF PiecesInv, PrinterInv, Started
<1> QED
  BY <1>9, <1>11, <1>12, <1>13, <1>14 DEF PiecesInv

(* One step: PiecesInv is kept, and a job not over is handed to a finalizer *)
(* by a misled startup pass only.                                           *)
LEMMA PiecesStep ==
    ASSUME PiecesInv, [Next]_vars
    PROVE  PiecesInv' /\ \A t \in HandedOver : t \in over \/ Misled(t)
<1> DEFINE Goal == PiecesInv' /\ \A t \in HandedOver : t \in over \/ Misled(t)
           Idle == finalizing' = finalizing
           Fixed == UNCHANGED <<printer, over>> /\ UNCHANGED fields /\ UNCHANGED reconciled
<1>0. TypeOK /\ PrinterInv /\ TypeOK'
  BY TypeStep DEF PiecesInv
<1>a. Idle => HandedOver = {}
  BY <1>0 DEF HandedOver, TypeOK
<1>b. Fixed => /\ ViewTask' = ViewTask /\ ViewState' = ViewState /\ PrinterInv'
               /\ \A t : Started(t)' <=> Started(t)
  BY DEF ViewTask, ViewState, PiecesInv, PrinterInv, Started
<1>c. ViewTask \in {Absent} \cup Tasks /\ current \in Tasks \cup {NoTask}
      /\ staging \in [Tasks -> {"none", "bare", "session"}]
  BY <1>0 DEF TypeOK, ViewTask
<1>1. CASE Printer
  <2>1. /\ UNCHANGED <<pc, fields, reconciled, current, finalizing, staging>>
        /\ PrinterInv' /\ over \subseteq over'
        /\ \A t \in Tasks : Started(t) => Started(t)'
    BY <1>0, <1>1, PrinterDoes DEF PrinterOnly, diskVars
  <2>2. ViewTask' = ViewTask /\ ViewState' = ViewState /\ Listed' = Listed
    BY <2>1 DEF ViewTask, ViewState, Listed
  <2> QED
    BY <1>0, <1>a, <1>c, <2>1, <2>2 DEF PiecesInv
<1>2. ASSUME NEW K \in SUBSET Full, OnMessage(K) PROVE Goal
  BY <1>0, <1>2, <1>a, PiecesReport DEF OnMessage
<1>3. CASE Reconcile
  <2> DEFINE running == GcodeState(fields) \in {"RUNNING", "PAUSE"}
             live == IF running THEN {t \in Listed : t = TaskID(fields)} ELSE {}
  <2>1. /\ current' = IF live = {} THEN current ELSE CHOOSE t \in live : TRUE
        /\ StartFinalize(Listed \ live, "FINISH")
        /\ pc = "reconcile" /\ pc' = "handle" /\ staging' = staging /\ Fixed
    BY <1>3 DEF Reconcile, printerVars, diskVars
  <2>2. HandedOver \subseteq Listed \ live
    BY <1>0, <2>1, HandedBy
  <2>3. \A t \in HandedOver : t \in over \/ Misled(t)
    <3> SUFFICES ASSUME NEW t \in HandedOver, t \notin over, ViewTask = t, ViewState # "PREPARE"
                 PROVE  FALSE
      BY <2>1 DEF Misled
    <3>1. t \in Listed /\ t \notin live
      BY <2>2
    <3>2. ViewState \in Printing
      BY <2>1, <3>1 DEF PiecesInv
    <3> QED
      BY <3>1, <3>2 DEF Printing, ViewState, ViewTask
  <2>4. live # {} => current' = ViewTask /\ ViewState \in Printing
    <3>1. \A t \in live : t = ViewTask
      BY DEF ViewTask
    <3>2. live # {} => ViewState \in Printing
      BY DEF Printing, ViewState
    <3> QED
      BY <2>1, <3>1, <3>2
  <2>5. live = {} => current' = current
    BY <2>1
  <2> HIDE DEF live
  <2>6. current' # NoTask /\ current' \notin over => ViewTask = current' /\ ViewState \in Printing
    BY <2>4, <2>5 DEF PiecesInv
  <2> QED
    BY <1>0, <1>b, <2>1, <2>3, <2>6 DEF PiecesInv
<1>4. CASE ReconcileUnlisted \/ HandleRecord \/ HandleOther
  <2>1. Idle /\ Fixed /\ current' = current /\ staging' = staging /\ pc' \in {"idle", "handle"}
    BY <1>4 DEF ReconcileUnlisted, HandleRecord, HandleOther, Return, printerVars, diskVars
  <2> QED
    BY <1>0, <1>a, <1>b, <2>1 DEF PiecesInv
<1>5. CASE HandleEnd
  <2>1. /\ StartFinalize({current} \ {NoTask}, GcodeState(fields))
        /\ current' = NoTask /\ staging' = staging /\ pc' = "idle" /\ Fixed
        /\ ViewState \notin Printing
    BY <1>5 DEF HandleEnd, Handling, Return, printerVars, diskVars, ViewState, Printing
  <2>2. HandedOver \subseteq {current} \ {NoTask}
    BY <1>0, <2>1, HandedBy
  <2>3. \A t \in HandedOver : t \in over
    BY <2>1, <2>2 DEF PiecesInv
  <2> QED
    BY <1>0, <1>b, <2>1, <2>3 DEF PiecesInv
<1>6. ASSUME NEW opened \in BOOLEAN, HandleBegin(opened) PROVE Goal
  <2>1. /\ Kept = NoTask /\ Switch /\ pc' = "idle" /\ Fixed /\ ViewState = "RUNNING"
    BY <1>6 DEF HandleBegin, Handling, Return, printerVars, ViewState
  <2>2. HandedOver \subseteq {current} \ {NoTask}
    BY <1>0, <2>1, HandedBy DEF Switch
  <2>3. \A t \in HandedOver : t \in over
    <3>1. current # NoTask => ViewTask # current
      BY <2>1 DEF Kept, ViewTask
    <3> QED
      BY <2>2, <3>1 DEF PiecesInv
  <2>4. /\ current' \in {NoTask, ViewTask}
        /\ current' = NoTask \/ ViewTask # Absent
        /\ \A t \in Tasks : staging'[t] # "none" =>
              staging[t] # "none" \/ (ViewTask # Absent /\ t = ViewTask)
    <3>1. CASE Opens(ViewTask)
      BY <1>c, <3>1 DEF Opens
    <3>2. CASE Waits \/ Fails(ViewTask)
      BY <1>c, <3>2 DEF Waits, Fails
    <3> QED
      BY <1>6, <3>1, <3>2, BeginCases DEF ViewTask
  <2>5. \A t \in Tasks : staging'[t] # "none" => Started(t)'
    BY <1>b, <2>1, <2>4 DEF PiecesInv
  <2>6. current' # NoTask /\ current' \notin over' => ViewTask' = current' /\ ViewState' \in Printing
    BY <1>b, <2>1, <2>4 DEF Printing
  <2> QED
    BY <1>0, <1>b, <2>1, <2>3, <2>5, <2>6 DEF PiecesInv
<1>7. ASSUME NEW t \in Tasks, FinalizeEnds(t) PROVE Goal
  <2>1. /\ Fixed /\ UNCHANGED <<pc, current>>
        /\ staging' = [staging EXCEPT ![t] = "none"]
        /\ finalizing' = [finalizing EXCEPT ![t] = @ - 1]
    BY <1>7 DEF FinalizeEnds, printerVars
  <2>2. HandedOver = {}
    BY <1>0, <2>1 DEF HandedOver, TypeOK
  <2>3. Listed' \subseteq Listed /\ \A u \in Tasks : staging'[u] # "none" => staging[u] # "none"
    BY <1>c, <2>1 DEF Listed
  <2> QED
    BY <1>0, <1>b, <2>1, <2>2, <2>3 DEF PiecesInv
<1>8. CASE Crash \/ Exit
  <2>1. /\ UNCHANGED <<printer, over, staging>>
        /\ fields' = Empty /\ pc' = "idle" /\ current' = NoTask
        /\ finalizing' = [t \in Tasks |-> 0]
    BY <1>8 DEF Crash, Exit, ProcessGone, Return, printerVars, diskVars
  <2>2. ViewTask' = Absent /\ ViewState' = Absent
    BY <2>1 DEF Empty, ViewTask, ViewState, TaskID, GcodeState, String, Names
  <2>3. HandedOver = {}
    BY <1>0, <2>1 DEF HandedOver, TypeOK
  <2>4. PrinterInv' /\ \A t \in Tasks : staging'[t] # "none" => Started(t)'
    BY <2>1 DEF PiecesInv, PrinterInv, Started
  <2> QED
    BY <1>0, <2>1, <2>2, <2>3, <2>4 DEF PiecesInv
<1>9. CASE Stop \/ Boot \/ UNCHANGED vars
  <2>1. Idle /\ Fixed /\ UNCHANGED <<pc, current, staging>>
    BY <1>9 DEF Stop, Boot, vars, printerVars, diskVars, history
  <2>2. Listed' = Listed
    BY <2>1 DEF Listed
  <2> QED
    BY <1>0, <1>a, <1>b, <2>1, <2>2 DEF PiecesInv
<1> QED
  BY <1>1, <1>2, <1>3, <1>4, <1>5, <1>6, <1>7, <1>8, <1>9 DEF Next, Callback

(* PiecesInv holds however the reports come.                                *)
LEMMA PiecesHold == Spec => []PiecesInv
<1>1. Init => PiecesInv
  <2> SUFFICES ASSUME Init PROVE PiecesInv
    OBVIOUS
  <2>1. ViewTask = Absent /\ ViewState = Absent
    BY DEF Init, Empty, ViewTask, ViewState, GcodeState, TaskID, String, Names
  <2> QED
    BY <2>1, InitType, ServiceAssumption DEF Init, PiecesInv, PrinterInv, Printing
<1> QED
  BY <1>1, PiecesStep, PTL DEF Spec

(* A job still on the printer is finalised by no one but a startup pass     *)
(* whose first report did not say what runs, and with Coherent reports by   *)
(* no one at all (onMessage's one-shot reconcile, handle's job switch).     *)
THEOREM EndedBeforeFinalized == Spec => FinalizesOnlyEnded
<1> DEFINE Step == \A t \in Tasks : finalizing'[t] > finalizing[t] =>
                     \/ t \in over
                     \/ /\ ~Coherent
                        /\ pc = "reconcile"
                        /\ TaskID(fields) # t \/ GcodeState(fields) = "PREPARE"
<1>1. CASE ~Coherent
  <2>1. PiecesInv /\ [Next]_vars => [Step]_vars
    BY <1>1, PiecesStep DEF HandedOver, Misled, ViewTask, ViewState
  <2> QED
    BY <2>1, PiecesHold, PTL DEF Spec, FinalizesOnlyEnded
<1>2. CASE Coherent
  <2>1. IInv /\ IInv' /\ [Next]_vars => [Step]_vars
    <3> SUFFICES ASSUME IInv, IInv', [Next]_vars, NEW t \in Tasks,
                        finalizing'[t] > finalizing[t]
                 PROVE  t \in over
      OBVIOUS
    <3>1. finalizing[t] \in Nat /\ finalizing'[t] \in Nat
      BY DEF IInv, TypeOK
    <3>2. t \in over'
      BY <3>1 DEF IInv, EndedInv
    <3>3. CASE Printer
      BY <3>1, <3>3, PrinterDoes DEF IInv, PrinterOnly
    <3>4. CASE ~Printer
      <4>1. over' = over
        BY <3>4
        DEF Next, vars, printerVars, OnMessage, Callback, Reconcile, ReconcileUnlisted,
            HandleRecord, HandleEnd, HandleOther, HandleBegin, FinalizeEnds, Crash, Exit,
            ProcessGone, Stop, Boot
      <4> QED
        BY <3>2, <4>1
    <3> QED
      BY <3>3, <3>4
  <2>2. Spec => []IInv
    BY <1>2, Ownership
  <2> QED
    BY <2>1, <2>2, PTL DEF Spec, FinalizesOnlyEnded
<1> QED
  BY <1>1, <1>2

-----------------------------------------------------------------------------
(* The directory of the session being recorded is never pulled from under   *)
(* it.                                                                      *)
THEOREM RecordedStaysOnDisk == ASSUME Coherent PROVE Spec => []CurrentOnDisk
<1>1. IInv => CurrentOnDisk
  BY DEF IInv
<1> QED
  BY <1>1, Ownership, PTL

(* A session holds no frame of another named print.                         *)
THEOREM FramesStayHome == ASSUME Coherent PROVE Spec => []OwnFrames
<1>1. IInv => OwnFrames
  BY DEF IInv
<1> QED
  BY <1>1, Ownership, PTL

-----------------------------------------------------------------------------
PhaseMap == [t \in Tasks |-> Phase(t)]

(* A step that leaves every session where it is, maps to a stutter.         *)
LEMMA PhaseStays ==
    ASSUME \A t \in Tasks : staging'[t] = "session" <=> staging[t] = "session",
           settled' = settled
    PROVE  PhaseMap' = PhaseMap
BY DEF PhaseMap, Phase

(* A step that changes one job's phase.                                     *)
LEMMA PhaseMoves ==
    ASSUME NEW t \in Tasks, \A u \in Tasks \ {t} : Phase(u)' = Phase(u)
    PROVE  PhaseMap' = [PhaseMap EXCEPT ![t] = Phase(t)']
BY DEF PhaseMap

(* The service implements Recording: one recording a job, settled only when *)
(* the job is over, and never opened again, whatever crashes there are.     *)
THEOREM PromiseKept == ASSUME Coherent PROVE Spec => KeepsPromise
<1>1. Init => Promise!Init
  BY DEF Init, Promise!Init, Phase
<1>2. IInv /\ IInv' /\ [Next]_vars => [Promise!Next]_<<over, PhaseMap>>
  <2> SUFFICES ASSUME IInv, IInv', [Next]_vars
               PROVE  Promise!Next \/ UNCHANGED <<over, PhaseMap>>
    OBVIOUS
  <2>0. staging \in [Tasks -> {"none", "bare", "session"}]
    BY DEF IInv, TypeOK
  <2>1. CASE Printer
    <3>1. UNCHANGED <<staging, settled>>
      BY <2>1, PrinterDoes DEF IInv, PrinterOnly, diskVars, history
    <3>2. PhaseMap' = PhaseMap
      BY <3>1, PhaseStays
    <3>3. over' = over \/ \E t \in Tasks : over' = over \cup {t}
      BY <2>1
      DEF Printer, PrinterStart, PrinterRun, PrinterPause, PrinterIdle, PrinterEnd, IInv, PrinterInv
    <3> QED
      BY <3>2, <3>3 DEF Promise!Next, Promise!Over, PhaseMap
  <2>2. ASSUME NEW opened \in BOOLEAN, HandleBegin(opened)
        PROVE  Promise!Next \/ UNCHANGED <<over, PhaseMap>>
    <3>1. ViewState = "RUNNING" /\ UNCHANGED <<over, settled>>
      BY <2>2 DEF HandleBegin, Handling, ViewState, printerVars
    <3>2. CASE Opens(ViewTask)
      <4>1. ViewTask # Absent /\ staging' = [staging EXCEPT ![ViewTask] = "session"]
        BY <3>2 DEF Opens
      <4>2. ViewTask \in Tasks /\ ViewTask \notin settled
        BY <3>1, <4>1, RunningIsFree
      <4>3. PICK t \in Tasks : t = ViewTask
        BY <4>2
      <4>4. staging' = [staging EXCEPT ![t] = "session"] /\ t \notin settled
        BY <4>1, <4>2, <4>3
      <4>5. CASE staging[t] = "session"
        <5>1. PhaseMap' = PhaseMap
          BY <2>0, <3>1, <4>4, <4>5, PhaseStays
        <5> QED
          BY <3>1, <5>1
      <4>6. CASE staging[t] # "session"
        <5>1. Phase(t) = "unseen" /\ Phase(t)' = "open"
          BY <2>0, <3>1, <4>4, <4>6 DEF Phase
        <5>2. \A u \in Tasks \ {t} : Phase(u)' = Phase(u)
          BY <2>0, <3>1, <4>4 DEF Phase
        <5>3. PhaseMap[t] = "unseen" /\ PhaseMap' = [PhaseMap EXCEPT ![t] = "open"]
          BY <5>1, <5>2, PhaseMoves DEF PhaseMap
        <5> QED
          BY <3>1, <5>3 DEF Promise!Next, Promise!Open, PhaseMap
      <4> QED
        BY <4>5, <4>6
    <3>3. CASE Waits \/ Fails(ViewTask)
      <4>1. PhaseMap' = PhaseMap
        BY <2>0, <3>1, <3>3, PhaseStays DEF Waits, Fails
      <4> QED
        BY <3>1, <4>1
    <3> QED
      BY <2>2, <3>2, <3>3, BeginCases DEF ViewTask
  <2>3. ASSUME NEW t \in Tasks, FinalizeEnds(t)
        PROVE  Promise!Next \/ UNCHANGED <<over, PhaseMap>>
    <3>1. /\ staging' = [staging EXCEPT ![t] = "none"] /\ settled' = settled \cup {t}
          /\ over' = over /\ finalizing[t] > 0
      BY <2>3 DEF FinalizeEnds, printerVars
    <3>2. staging[t] = "session" /\ t \in over
      BY <3>1 DEF IInv, EndedInv
    <3>3. Phase(t) = "open" /\ Phase(t)' = "settled"
      BY <2>0, <3>1, <3>2 DEF Phase
    <3>4. \A u \in Tasks \ {t} : Phase(u)' = Phase(u)
      BY <2>0, <3>1 DEF Phase
    <3>5. PhaseMap[t] = "open" /\ PhaseMap' = [PhaseMap EXCEPT ![t] = "settled"]
      BY <3>3, <3>4, PhaseMoves DEF PhaseMap
    <3> QED
      BY <3>1, <3>2, <3>5 DEF Promise!Next, Promise!Settle, PhaseMap
  <2>4. CASE UNCHANGED <<over, staging, settled>>
    BY <2>4, PhaseStays
  <2> QED
    BY <2>1, <2>2, <2>3, <2>4
    DEF Next, vars, printerVars, diskVars, history, OnMessage, Callback, Reconcile,
        ReconcileUnlisted, HandleRecord, HandleEnd, HandleOther, Crash, Exit, ProcessGone,
        Stop, Boot
<1> QED
  BY <1>1, <1>2, Ownership, PTL DEF Spec, KeepsPromise, Promise!Spec, PhaseMap
=============================================================================
