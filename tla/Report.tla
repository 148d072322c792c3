------------------------------- MODULE Report -------------------------------
(***************************************************************************)
(* The merged view of the printer's reports (internal/telemetry), as pure  *)
(* operators.  A report is a DELTA: it carries some of the keys.  The view *)
(* is a map, a function whose domain is the set of keys seen so far, and   *)
(* a report ("section") is a function on the keys it carries.              *)
(*                                                                         *)
(* A value stands for its image under the accessor that reads it: an id    *)
(* under String() ("0" and "" both mean "no id", whether the printer sent  *)
(* a number or a string).                                                  *)
(***************************************************************************)
EXTENDS Integers

(* The identity keys, in the order TaskID() tries them. *)
IdKeys == {"task_id", "subtask_id", "lan_task_id", "job_id"}

(* The keys that describe the job and not the printer. *)
JobScoped == {"layer_num", "total_layer_num", "mc_percent",
              "mc_remaining_time", "subtask_name", "gcode_file"}

(* What String() returns of a key that is not there. *)
Absent == ""

String(f, key) == IF key \in DOMAIN f THEN f[key] ELSE Absent

GcodeState(f) == String(f, "gcode_state")

Names(v) == v # Absent /\ v # "0"

(* Only the cloud key: the resume bug TaskID's comment warns of. *)
TaskIDCloudOnly(f) ==
    IF Names(String(f, "task_id")) THEN String(f, "task_id") ELSE Absent

(* The first identity key that names a job, or Absent. *)
TaskID(f) ==
    IF      Names(String(f, "task_id"))     THEN String(f, "task_id")
    ELSE IF Names(String(f, "subtask_id"))  THEN String(f, "subtask_id")
    ELSE IF Names(String(f, "lan_task_id")) THEN String(f, "lan_task_id")
    ELSE IF Names(String(f, "job_id"))      THEN String(f, "job_id")
    ELSE Absent

(* Letting the next job inherit everything. *)
ForgetNothing(f, section) == f

(* Dropping the job's fields on every report that names a job at all. *)
ForgetEagerly(f, section) ==
    IF TaskID(f) # Absent /\ TaskID(section) # Absent
    THEN [k \in DOMAIN f \ JobScoped |-> f[k]]
    ELSE f

(* Blanking the outgoing job's fields instead of deleting them. *)
ForgetBlank(f, section) ==
    IF /\ TaskID(f) # Absent
       /\ TaskID(section) \notin {Absent, TaskID(f)}
    THEN [k \in DOMAIN f |-> IF k \in JobScoped THEN Absent ELSE f[k]]
    ELSE f

(* The outgoing job's fields go when a report names another job. *)
ForgetPreviousJob(f, section) ==
    IF /\ TaskID(f) # Absent
       /\ TaskID(section) \notin {Absent, TaskID(f)}
    THEN [k \in DOMAIN f \ JobScoped |-> f[k]]
    ELSE f

Merge(f, section) ==
    LET kept == ForgetPreviousJob(f, section)
    IN  [k \in DOMAIN kept \cup DOMAIN section |->
            IF k \in DOMAIN section THEN section[k] ELSE kept[k]]
=============================================================================
