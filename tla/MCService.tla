----------------------------- MODULE MCService -----------------------------
(* Jobs are interchangeable except for the unnamed ones, and no liveness    *)
(* property is checked under symmetry.                                      *)
EXTENDS Service, TLC

CONSTANTS t1, t2, t3

MCSingle == {t1}
MCTwo == {t1, t2}
MCThree == {t1, t2, t3}
MCNone == {}
MCOne == {t3}
Symmetry == Permutations({t1, t2})
=============================================================================
