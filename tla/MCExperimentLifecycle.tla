----------------------- MODULE MCExperimentLifecycle -----------------------
(* Instances of ExperimentLifecycle for TLC. *)
EXTENDS ExperimentLifecycle, TLC

CONSTANTS e1, e2

OneExperiment == <<e1>>
TwoExperiments == <<e1, e2>>

NodeSymmetry == Permutations(Nodes)
=============================================================================
