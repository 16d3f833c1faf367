---------------------------- MODULE ModelProcess -----------------------------
(***************************************************************************)
(* The generated program of a run, as the dispatcher sees it through its   *)
(* two pipes (codegen/generator/emit_transport.go, emit_runtime.go; the    *)
(* simulation it performs is module Simulation): it greets with HELLO,     *)
(* reads commands until START, answers READY, writes STAT lines and ends   *)
(* with END.  A command it rejects is answered with ERR and it reads on,   *)
(* so START after a rejected SET still starts the simulation.  A write     *)
(* blocks while the pipe is full.  The program may stop making progress    *)
(* at any point (a model need not end), so none of this is fair.  (Its     *)
(* return when stdin ends before START is not here: the dispatcher closes  *)
(* stdin early only after it has killed the program.)                      *)
(***************************************************************************)
EXTENDS Naturals, Sequences

CONSTANTS
    Runs,
    PipeSize,       \* lines that fit in a pipe
    MaxStats        \* bound: the STAT lines of a run

ASSUME ProcessAssumption == PipeSize \in Nat \ {0} /\ MaxStats \in Nat

VARIABLES
    process,        \* process[r]: how far the program is, and what it has done
    stdin,          \* stdin[r]: the commands written and not yet read
    stdout          \* stdout[r]: the lines written and not yet read

pipes == <<process, stdin, stdout>>

Commands == {"accepted", "rejected", "START"}
Lines == {"HELLO", "READY", "ERR", "STAT", "END", "END error", "torn"}

NoProcess == [at |-> "none", rejected |-> FALSE, wrote |-> 0, exit |-> "none", oom |-> FALSE]
Booting == [NoProcess EXCEPT !.at = "boot"]

ProcessTypeOK ==
    /\ process \in [Runs -> [at : {"none", "boot", "commands", "simulating", "ending", "leaving",
                                   "exited"},
                             rejected : BOOLEAN, wrote : 0..MaxStats,
                             exit : {"none", "ok", "failed"}, oom : BOOLEAN]]
    /\ \A r \in Runs : /\ stdin[r] \in Seq(Commands) /\ Len(stdin[r]) <= PipeSize
                       /\ stdout[r] \in Seq(Lines) /\ Len(stdout[r]) <= PipeSize

Alive(r) == process[r].at \notin {"none", "exited"}
HasRoom(pipe) == Len(pipe) < PipeSize

\* sendLine: write and flush.
SendLine(r, line) == HasRoom(stdout[r]) /\ stdout' = [stdout EXCEPT ![r] = Append(@, line)]

-----------------------------------------------------------------------------
Hello(r) ==
    /\ process[r].at = "boot"
    /\ SendLine(r, "HELLO")
    /\ process' = [process EXCEPT ![r].at = "commands"]
    /\ UNCHANGED stdin

NextCommand(r, command) ==
    /\ process[r].at = "commands"
    /\ stdin[r] # <<>> /\ Head(stdin[r]) = command
    /\ stdin' = [stdin EXCEPT ![r] = Tail(@)]

\* SET, RULE STOP, METRIC or METRIC_STEP, well formed and known to the model.
Obey(r) ==
    /\ NextCommand(r, "accepted")
    /\ UNCHANGED <<process, stdout>>

\* The same, of an unknown name or with a bad value: ERR, and on to the next line.
Reject(r) ==
    /\ NextCommand(r, "rejected")
    /\ SendLine(r, "ERR")
    /\ process' = [process EXCEPT ![r].rejected = TRUE]

StartCommand(r) ==
    /\ NextCommand(r, "START")
    /\ SendLine(r, "READY")
    /\ process' = [process EXCEPT ![r].at = "simulating"]

\* maybeSendMetricStep, then the STAT that run sends after its last event.
\* METRIC is always configured: the dispatcher adds Simulation.clock.
SendStat(r) ==
    /\ process[r].at = "simulating" /\ process[r].wrote < MaxStats
    /\ SendLine(r, "STAT")
    /\ \E next \in {"simulating", "ending"} :
         process' = [process EXCEPT ![r].wrote = @ + 1, ![r].at = next]
    /\ UNCHANGED stdin

\* The reason is stop_rule, empty_event_queue or a text that says what stopped
\* the run (a block's name and what happened there, or an unknown entity type).
\* No program the generator emits says just "error", the reason the dispatcher
\* fails; its protocol has it, so a model may say it here.
SendEnd(r) ==
    /\ process[r].at = "ending"
    /\ \E line \in {"END", "END error"} : SendLine(r, line)
    /\ process' = [process EXCEPT ![r].at = "leaving"]
    /\ UNCHANGED stdin

Leave(r) ==
    /\ process[r].at = "leaving"
    /\ process' = [process EXCEPT ![r].at = "exited", ![r].exit = "ok"]
    /\ UNCHANGED <<stdin, stdout>>

\* The program dies, perhaps in the middle of writing a line.
Dies(r, oom) ==
    /\ Alive(r)
    /\ process' = [process EXCEPT ![r].at = "exited", ![r].exit = "failed", ![r].oom = oom]
    /\ \/ UNCHANGED stdout
       \/ SendLine(r, "torn")
    /\ UNCHANGED stdin

ProcessStep(r) ==
    \/ Hello(r) \/ Obey(r) \/ Reject(r) \/ StartCommand(r) \/ SendStat(r) \/ SendEnd(r) \/ Leave(r)
=============================================================================
