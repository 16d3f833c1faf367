---------------------------- MODULE MCModelRunner ----------------------------
(* The instance of ModelRunner for TLC: two runs of one model, of the      *)
(* same build or of two builds of it; the first stores metrics, may be     *)
(* stopped and has a timeout, the second has none and may run for ever.    *)
EXTENDS ModelRunner, TLC

CONSTANTS r1, r2, d1, d2

SameOrAnother == r1 :> {d1} @@ r2 :> {d1, d2}

Configurations ==
    r1 :> {<<"accepted">>, <<"rejected">>, <<"malformed">>} @@ r2 :> {<<"accepted">>}
=============================================================================
