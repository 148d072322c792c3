----------------------------- MODULE Recording -----------------------------
(***************************************************************************)
(* What the recorder promises of a print job, whatever happens to the       *)
(* process: a job has at most one recording, the recording is settled       *)
(* (posted, parked or discarded) only after the job is over, and a settled  *)
(* job is never opened again.                                               *)
(***************************************************************************)
CONSTANT Tasks

VARIABLES over,     \* the jobs the printer has finished with
          phase     \* of each job's recording

Init ==
    /\ over = {}
    /\ phase = [t \in Tasks |-> "unseen"]

Over(t) ==
    /\ over' = over \cup {t}
    /\ UNCHANGED phase

Open(t) ==
    /\ phase[t] = "unseen"
    /\ phase' = [phase EXCEPT ![t] = "open"]
    /\ UNCHANGED over

Settle(t) ==
    /\ phase[t] = "open"
    /\ t \in over
    /\ phase' = [phase EXCEPT ![t] = "settled"]
    /\ UNCHANGED over

Next == \E t \in Tasks : Over(t) \/ Open(t) \/ Settle(t)

Spec == Init /\ [][Next]_<<over, phase>>
=============================================================================
