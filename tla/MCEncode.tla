------------------------------ MODULE MCEncode ------------------------------
(* The ffmpeg builds a host may have: any at all, and any with concat.      *)
EXTENDS Encode

AnyBuild == SUBSET Optional

ConcatBuilds == {b \in AnyBuild : "concat" \in b}
=============================================================================
