----------------------------- MODULE MCProcess ------------------------------
(* Two lost connections, so that the handlers of three connections overlap; *)
(* a report goes stale in two ticks; a timed capture with and without a     *)
(* limit, around the smallest number of frames worth a video.               *)
EXTENDS Process
=============================================================================
