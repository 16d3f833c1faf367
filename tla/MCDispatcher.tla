---------------------------- MODULE MCDispatcher ----------------------------
(* Instances of Dispatcher for TLC: every run its own experiment, and two *)
(* runs of one experiment.                                                *)
EXTENDS Dispatcher, TLC

CONSTANTS k1, k2, k3, r1, r2, r3, w1, w2

DistinctKeys == (r1 :> k1) @@ (r2 :> k2) @@ (r3 :> k3)
RestartedKeys == (r1 :> k1) @@ (r2 :> k1) @@ (r3 :> k2)

OneRun == (r1 :> k1)

WorkerSymmetry == Permutations(Workers)

DistinctLimits == (r1 :> 1) @@ (r2 :> 2) @@ (r3 :> 0)
RestartedLimits == (r1 :> 1) @@ (r2 :> 1) @@ (r3 :> 2)
OneLimit == (r1 :> 1)
=============================================================================
