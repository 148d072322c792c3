----------------------------- MODULE MCCapture -----------------------------
(* Four layers are enough for a skipped layer, a grab that outlives its     *)
(* layer and a second capture after each of two restarts; MaxFrame leaves   *)
(* room for every frame those can produce.  Everything that may go wrong    *)
(* with the service together, and nothing but late reports, for what holds  *)
(* only then.                                                               *)
EXTENDS Capture

MCWorlds == {{"slow", "full", "legacy"}, {"lag"}}
MCSlow == {{"slow"}}
=============================================================================
