---------------------------- MODULE MCTelemetry ----------------------------
(* Three jobs that name themselves in different ways: a cloud print under  *)
(* task_id and subtask_id, a LAN print under lan_task_id, and one that     *)
(* only has a job_id.                                                      *)
EXTENDS Telemetry, TLC

CONSTANTS cloud, lan, card, c1, c2, l1, d1

MCJobs == {cloud, lan, card}

MCIds ==
    cloud :> [task_id |-> c1, subtask_id |-> c2, lan_task_id |-> "0", job_id |-> ""]
    @@ lan :> [task_id |-> "0", subtask_id |-> "0", lan_task_id |-> l1, job_id |-> "0"]
    @@ card :> [task_id |-> "0", subtask_id |-> "", lan_task_id |-> "0", job_id |-> d1]

MCScoped == {"layer_num", "total_layer_num", "gcode_file"}

MCDevice == {"nozzle_temper"}
=============================================================================
