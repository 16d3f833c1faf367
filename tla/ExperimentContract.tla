------------------------- MODULE ExperimentContract -------------------------
(***************************************************************************)
(* What the platform promises for each experiment, whatever crashes and    *)
(* whatever call is lost: it is executed at most once, a canceled pending  *)
(* experiment is never executed, and a status that has become terminal     *)
(* never becomes PENDING or STARTING again.  A status FAILED given to an   *)
(* experiment whose dispatcher was lost is provisional: if the dispatcher  *)
(* turns out to be alive, what its run came to replaces it.                *)
(***************************************************************************)
EXTENDS Naturals

CONSTANT Experiments

VARIABLES
    status,     \* status[e]: the experiments row
    run         \* run[e]: its one execution, or what came of it

Outcome == {"FINISHED", "FAILED", "CANCELED"}

TypeOK ==
    /\ status \in [Experiments -> {"PENDING", "STARTING"} \cup Outcome]
    /\ run \in [Experiments -> {"never", "running", "lost"} \cup Outcome]

Init ==
    /\ status = [e \in Experiments |-> "PENDING"]
    /\ run = [e \in Experiments |-> "never"]

Move(e, from, to) ==
    /\ status[e] \in from
    /\ status' = [status EXCEPT ![e] = to]
    /\ UNCHANGED run

Claim(e) == Move(e, {"PENDING"}, "STARTING")

GiveBack(e) == run[e] = "never" /\ Move(e, {"STARTING"}, "PENDING")

Withdraw(e) == run[e] = "never" /\ Move(e, {"PENDING"}, "CANCELED")

\* Refused for good, or its dispatcher is lost.
Fail(e) == Move(e, {"STARTING"}, "FAILED")

Advance(e, from, to) ==
    /\ run[e] = from
    /\ run' = [run EXCEPT ![e] = to]
    /\ UNCHANGED status

Launch(e) == status[e] \in {"STARTING", "FAILED"} /\ Advance(e, "never", "running")

End(e) == \E outcome \in Outcome \cup {"lost"} : Advance(e, "running", outcome)

Settle(e) == run[e] \in Outcome /\ Move(e, {"STARTING", "FAILED"}, run[e])

\* The dispatchers a reconciliation pass finds missing fail together.
FailMany == \E es \in SUBSET Experiments :
    /\ \A e \in es : status[e] = "STARTING"
    /\ status' = [e \in Experiments |-> IF e \in es THEN "FAILED" ELSE status[e]]
    /\ UNCHANGED run

\* A dispatcher that dies loses all its runs at once.
LoseMany == \E es \in SUBSET Experiments :
    /\ \A e \in es : run[e] = "running"
    /\ run' = [e \in Experiments |-> IF e \in es THEN "lost" ELSE run[e]]
    /\ UNCHANGED status

Next ==
    \/ \E e \in Experiments :
          Claim(e) \/ GiveBack(e) \/ Withdraw(e) \/ Fail(e) \/ Launch(e) \/ End(e) \/ Settle(e)
    \/ FailMany \/ LoseMany

Spec == Init /\ [][Next]_<<status, run>>
=============================================================================
