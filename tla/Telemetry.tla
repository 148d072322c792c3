----------------------------- MODULE Telemetry -----------------------------
(***************************************************************************)
(* internal/telemetry against the printer that feeds it.  The printer runs *)
(* one job after another and sends deltas; the service keeps one merged    *)
(* view per process.  In this module a job-scoped field holds the job it   *)
(* describes, so that a field inherited from an earlier print is visible.  *)
(*                                                                         *)
(* The printer is external.  Its identity keys change together, so a       *)
(* report carries all of them or none (see MayCarry).  The view may be     *)
(* without an identity while job-scoped fields arrive: the printer zeroes  *)
(* its ids between jobs, or a fresh process hears a delta before the full  *)
(* snapshot it asked for.  The history variable blank remembers that.      *)
(***************************************************************************)
EXTENDS Report, FiniteSets

CONSTANTS Jobs,         \* the jobs the printer may run
          Ids,          \* Ids[j][k]: what job j's reports say under id key k
          Scoped,       \* the job-scoped keys a report may carry
          Device        \* the device-scoped keys a report may carry

IdValues == UNION {{Ids[j][k] : k \in IdKeys} : j \in Jobs}

(* Every job names itself under some key, and no two jobs share a name.    *)
ASSUME JobsAssumption ==
    /\ Ids \in [Jobs -> [IdKeys -> IdValues]]
    /\ \A j \in Jobs : \E k \in IdKeys : Names(Ids[j][k])
    /\ \A i, j \in Jobs : \A k, l \in IdKeys :
          Names(Ids[i][k]) /\ Ids[i][k] = Ids[j][l] => i = j

ASSUME KeysAssumption ==
    /\ Scoped \subseteq JobScoped
    /\ Device \cap (JobScoped \cup IdKeys) = {}

VARIABLES
    job,        \* printer: the job it runs, or ran last
    zeroed,     \* printer: its id fields now read "0"
    announced,  \* printer: a report has carried this job's ids
    fields,     \* State.fields of the process that is up
    blank       \* history: a report left that view without an identity

vars == <<job, zeroed, announced, fields, blank>>

Keys == IdKeys \cup Scoped \cup Device

Empty == [k \in {} |-> Absent]

(* What the printer would say of a key now. *)
Value(k) ==
    CASE k \in IdKeys -> IF zeroed THEN "0" ELSE Ids[job][k]
      [] k \in Scoped -> job
      [] k \in Device -> "device"

NamesOf(j) == {v \in {Ids[j][k] : k \in IdKeys} : Names(v)}

TypeOK ==
    /\ job \in Jobs
    /\ zeroed \in BOOLEAN
    /\ announced \in BOOLEAN
    /\ DOMAIN fields \subseteq Keys
    /\ fields = [k \in DOMAIN fields |-> fields[k]]
    /\ \A k \in DOMAIN fields :
          /\ k \in IdKeys => fields[k] \in IdValues \cup {"0"}
          /\ k \in Scoped => fields[k] \in Jobs
          /\ k \in Device => fields[k] = "device"
    /\ blank \in BOOLEAN

Init ==
    /\ job \in Jobs
    /\ zeroed \in BOOLEAN
    /\ announced = FALSE
    /\ fields = Empty
    /\ blank = FALSE

-----------------------------------------------------------------------------
(* The printer.                                                            *)

StartJob(j) ==
    /\ j # job
    /\ job' = j
    /\ zeroed' = FALSE
    /\ announced' = FALSE
    /\ UNCHANGED <<fields, blank>>

ClearIds ==
    /\ ~zeroed
    /\ zeroed' = TRUE
    /\ UNCHANGED <<job, announced, fields, blank>>

(* A delta: a new job's first report carries its ids, because they changed. *)
MayCarry(K) ==
    /\ K # {}
    /\ K \cap IdKeys \in {{}, IdKeys}
    /\ ~announced => IdKeys \subseteq K

-----------------------------------------------------------------------------
(* The service.                                                            *)

(* onMessage's Merge; a payload without a "print" section changes nothing  *)
(* and is a stuttering step.                                               *)
Report(K) ==
    /\ MayCarry(K)
    /\ fields' = Merge(fields, [k \in K |-> Value(k)])
    /\ blank' = (blank \/ TaskID(fields') = Absent)
    /\ announced' = (announced \/ ~zeroed)
    /\ UNCHANGED <<job, zeroed>>

(* A restart loses the merged view: NewState in the next process. *)
Restart ==
    /\ fields # Empty
    /\ fields' = Empty
    /\ blank' = FALSE
    /\ UNCHANGED <<job, zeroed, announced>>

Next ==
    \/ \E j \in Jobs : StartJob(j)
    \/ ClearIds
    \/ \E K \in SUBSET Keys : Report(K)
    \/ Restart

Spec == Init /\ [][Next]_vars

-----------------------------------------------------------------------------
(* Every job-scoped field in the view describes the job the view names: no *)
(* count survives into the next print (forgetPreviousJob, and the 13-layer *)
(* job after a 60-layer one in jobScoped's comment), as long as the view   *)
(* has had a name ever since the process heard its first report.           *)
JobFieldsBelong ==
    ~blank /\ TaskID(fields) # Absent =>
        \A k \in DOMAIN fields \cap JobScoped : TaskID(fields) \in NamesOf(fields[k])

(* Once a job's ids have been heard the view names that job, whichever key *)
(* the printer uses for it, cloud or LAN (TaskID): the resume key exists   *)
(* for every kind of print.                                                *)
KnowsItsJob ==
    announced /\ ~zeroed /\ IdKeys \cap DOMAIN fields # {}
        => TaskID(fields) \in NamesOf(job)

(* A delta loses nothing it should keep: no job-scoped field while the job  *)
(* stays the same (Merge keeps what a report does not mention), and none of *)
(* the device's ever, as temperatures and the AMS are sent rarely           *)
(* (forgetPreviousJob's comment).                                           *)
KeepsFields ==
    [][ fields' # Empty =>
          /\ DOMAIN fields \ JobScoped \subseteq DOMAIN fields'
          /\ job' = job /\ announced /\ TaskID(fields) \in NamesOf(job)
                => DOMAIN fields \cap JobScoped \subseteq DOMAIN fields' ]_vars
=============================================================================
