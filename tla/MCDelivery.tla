---------------------------- MODULE MCDelivery -----------------------------
(* Two recordings, so that a finalizer and the retry of another job's       *)
(* parked upload overlap, and two restarts, so that a job parked in one     *)
(* process is retried in the next and posted, swept or kept in a third.     *)
EXTENDS Delivery, TLC

CONSTANTS j1, j2

MCJobs == {j1, j2}
=============================================================================
