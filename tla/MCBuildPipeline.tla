---------------------------- MODULE MCBuildPipeline ----------------------------
(* The instance of BuildPipeline for TLC. *)
EXTENDS BuildPipeline, TLC

CONSTANTS s1, s2, m1, b1, b2, e1, e2, e3

\* Two submissions of one model, a batch of two experiments and one of one.
TwoBatches == s1 :> b1 @@ s2 :> b2
OneModel == s1 :> m1 @@ s2 :> m1
TwoAndOne == e1 :> b1 @@ e2 :> b1 @@ e3 :> b2
=============================================================================
