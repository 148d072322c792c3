----------------------------- MODULE MCPreview ------------------------------
(* Printers that hold nothing, the job's 3mf alone, after another or under  *)
(* a name with a space, another job's only, one without the plate's render  *)
(* and one with thumbnails only.                                            *)
EXTENDS Preview

Image(n, k) == [plate |-> n, kind |-> k]

Whole == <<Image(1, "small"), Image(1, "full"), Image(2, "small"), Image(2, "full")>>

File(title, spaced, renders) == [title |-> title, spaced |-> spaced, renders |-> renders]

MCStores ==
    LET own   == File("cube", FALSE, Whole)
        other == File("vase", FALSE, Whole)
    IN  {<< <<>>, <<>>, <<>>, <<>> >>,
         << <<>>, <<own>>, <<>>, <<>> >>,
         << <<other>>, <<own>>, <<>>, <<other>> >>,
         << <<File("cube", TRUE, Whole)>>, <<>>, <<>>, <<>> >>,
         << <<>>, <<>>, <<File("cube", FALSE, <<Image(1, "small"), Image(1, "other")>>)>>, <<other>> >>,
         << <<File("vase", FALSE, <<Image(1, "small")>>)>>, <<>>, <<>>, <<>> >>}
=============================================================================
