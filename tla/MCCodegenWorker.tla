--------------------------- MODULE MCCodegenWorker ---------------------------
(* The instance of CodegenWorker for TLC. *)
EXTENDS CodegenWorker, TLC

CONSTANTS t1, t2, good, bad

\* A request for a model that builds, and one for a model that does not.
OneOfEach == t1 :> good @@ t2 :> bad
=============================================================================
