----------------------------- MODULE MCReporter -----------------------------
(* Instances of Reporter for TLC: every result of its own experiment, and *)
(* two results of an experiment that was started again.                   *)
EXTENDS Reporter, TLC

CONSTANTS x1, x2, x3

DistinctFiles == (x1 :> "a.json") @@ (x2 :> "b.json") @@ (x3 :> "c.json")
RestartedFiles == (x1 :> "a.json") @@ (x2 :> "a.json")
=============================================================================
