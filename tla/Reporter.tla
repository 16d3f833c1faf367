------------------------------ MODULE Reporter ------------------------------
(***************************************************************************)
(* The dispatcher's result reporter (dispatcher/reporter.go): workers      *)
(* persist a result in the journal directory and signal; one goroutine     *)
(* sends what it finds there to the control plane and removes it.  The     *)
(* process stops (dispatcher/serve.go) or crashes, and starts again on the *)
(* same directory.                                                         *)
(*                                                                         *)
(* A journal file holds one result.  A crash keeps what was renamed: power *)
(* failures, after which a file may be empty, are not modelled.            *)
(***************************************************************************)
EXTENDS Naturals, FiniteSets

CONSTANTS
    Results,        \* the results submitted, one Submit call each
    FileOf,         \* FileOf[result] = reportFileName of its experiment
    NoResult,
    MaxEnds         \* bound: how often the process stops or crashes

Files == {FileOf[x] : x \in Results}

ASSUME ReporterAssumption ==
    /\ IsFiniteSet(Results) /\ NoResult \notin Results
    /\ FileOf \in [Results -> Files]
    /\ MaxEnds \in Nat

VARIABLES
    submit,     \* submit[x]: how far Submit(x) is
    tmp,        \* tmp[f]: what f.tmp holds
    journal,    \* journal[f]: what f.json holds
    signal,     \* whether the one-place channel is full
    loop,       \* the goroutine: its step, the files of the scan, the file in hand
    process,    \* up, stopping (reporterCancel was called) or down
    ends,
    received,   \* the results the control plane has stored
    tried,      \* history: the results sent at least once
    latest      \* history: the result renamed to f.json last

vars == <<submit, tmp, journal, signal, loop, process, ends, received, tried, latest>>
disk == <<tmp, journal, latest>>

FlushStart == [at |-> "scan", todo |-> {}, file |-> NoResult, result |-> NoResult]

TypeOK ==
    /\ submit \in [Results -> {"new", "written", "renamed", "done", "failed"}]
    /\ tmp \in [Files -> Results \cup {NoResult}]
    /\ journal \in [Files -> Results \cup {NoResult}]
    /\ signal \in BOOLEAN
    /\ loop \in [at : {"scan", "next", "send", "remove", "select", "stopped"}, todo : SUBSET Files,
                 file : Files \cup {NoResult}, result : Results \cup {NoResult}]
    /\ process \in {"up", "stopping", "down"}
    /\ ends \in 0..MaxEnds
    /\ received \subseteq Results /\ tried \subseteq Results
    /\ latest \in [Files -> Results \cup {NoResult}]

Empty == [f \in Files |-> NoResult]

Init ==
    /\ submit = [x \in Results |-> "new"]
    /\ tmp = Empty /\ journal = Empty /\ latest = Empty
    /\ signal = FALSE
    /\ loop = FlushStart
    /\ process = "up" /\ ends = 0
    /\ received = {} /\ tried = {}

-----------------------------------------------------------------------------
(* Submit: write f.tmp, rename it to f.json, signal without blocking. *)

Submitting == \E x \in Results : submit[x] \in {"written", "renamed"}

WriteTmp(x) ==
    /\ process = "up" /\ submit[x] = "new"
    /\ submit' = [submit EXCEPT ![x] = "written"]
    /\ tmp' = [tmp EXCEPT ![FileOf[x]] = x]
    /\ UNCHANGED <<journal, signal, loop, process, ends, received, tried, latest>>

\* The rename moves whatever the last writer left there, and fails when another
\* Submit of the same experiment has moved it already.
Rename(x) == LET f == FileOf[x] IN
    /\ process = "up" /\ submit[x] = "written"
    /\ submit' = [submit EXCEPT ![x] = IF tmp[f] = NoResult THEN "failed" ELSE "renamed"]
    /\ IF tmp[f] = NoResult
       THEN UNCHANGED <<journal, latest>>
       ELSE /\ journal' = [journal EXCEPT ![f] = tmp[f]]
            /\ latest' = [latest EXCEPT ![f] = tmp[f]]
    /\ tmp' = [tmp EXCEPT ![f] = NoResult]
    /\ UNCHANGED <<signal, loop, process, ends, received, tried>>

Notify(x) ==
    /\ process = "up" /\ submit[x] = "renamed"
    /\ submit' = [submit EXCEPT ![x] = "done"]
    /\ signal' = TRUE
    /\ UNCHANGED <<disk, loop, process, ends, received, tried>>

-----------------------------------------------------------------------------
(* The goroutine: flush on start, on every tick and on every signal. *)

Running == process # "down"

At(step) == Running /\ loop.at = step

\* Fault: the scan does not leave out the files still being written.
ReadDir_TmpIncluded ==
    /\ At("scan")
    /\ loop' = [loop EXCEPT !.at = "next",
                           !.todo = {f \in Files : NoResult # journal[f] \/ NoResult # tmp[f]}]
    /\ UNCHANGED <<submit, disk, signal, process, ends, received, tried>>

ReadDir ==
    /\ At("scan")
    /\ loop' = [loop EXCEPT !.at = "next", !.todo = {f \in Files : journal[f] # NoResult}]
    /\ UNCHANGED <<submit, disk, signal, process, ends, received, tried>>

\* flushOne: read the file and send what it holds.
ReadFile(f) ==
    /\ At("next") /\ f \in loop.todo /\ process = "up"
    /\ loop' = [at |-> "send", todo |-> loop.todo \ {f}, file |-> f, result |-> journal[f]]
    /\ tried' = tried \cup {journal[f]}
    /\ UNCHANGED <<submit, disk, signal, process, ends, received>>

\* Fault: a flush that is over takes the signal for served.
FlushEnds_SignalDrained ==
    /\ At("next") /\ (loop.todo = {} \/ process = "stopping")
    /\ loop' = [FlushStart EXCEPT !.at = "select"]
    /\ signal' = FALSE
    /\ UNCHANGED <<submit, disk, process, ends, received, tried>>

\* No file is left, or the reporter's context is canceled.
FlushEnds ==
    /\ At("next") /\ (loop.todo = {} \/ process = "stopping")
    /\ loop' = [FlushStart EXCEPT !.at = "select"]
    /\ UNCHANGED <<submit, disk, signal, process, ends, received, tried>>

SendAcknowledged ==
    /\ At("send") /\ process = "up"
    /\ received' = received \cup {loop.result}
    /\ loop' = [loop EXCEPT !.at = "remove"]
    /\ UNCHANGED <<submit, disk, signal, process, ends, tried>>

\* Fault: the file goes whether or not the control plane answered.
SendFails_FileRemoved ==
    /\ At("send")
    /\ loop' = [loop EXCEPT !.at = "remove"]
    /\ UNCHANGED <<submit, disk, signal, process, ends, received, tried>>

\* No answer, or one that is not ok; the result may have been stored.
SendFails ==
    /\ At("send")
    /\ received' \in {received, received \cup {loop.result}}
    /\ loop' = [loop EXCEPT !.at = "next", !.file = NoResult, !.result = NoResult]
    /\ UNCHANGED <<submit, disk, signal, process, ends, tried>>

\* Whatever the file holds by now.
Remove ==
    /\ At("remove")
    /\ journal' = [journal EXCEPT ![loop.file] = NoResult]
    /\ loop' = [loop EXCEPT !.at = "next", !.file = NoResult, !.result = NoResult]
    /\ UNCHANGED <<submit, tmp, latest, signal, process, ends, received, tried>>

Wake ==
    /\ At("select") /\ signal
    /\ signal' = FALSE
    /\ loop' = FlushStart
    /\ UNCHANGED <<submit, disk, process, ends, received, tried>>

Tick ==
    /\ At("select")
    /\ loop' = FlushStart
    /\ UNCHANGED <<submit, disk, signal, process, ends, received, tried>>

LoopReturns ==
    /\ At("select") /\ process = "stopping"
    /\ loop' = [loop EXCEPT !.at = "stopped"]
    /\ process' = "down"
    /\ UNCHANGED <<submit, disk, signal, ends, received, tried>>

-----------------------------------------------------------------------------
(* The process.  reporterCancel comes after the last worker has returned.  *)

ReporterCancel ==
    /\ process = "up" /\ ~Submitting /\ ends < MaxEnds
    /\ process' = "stopping"
    /\ ends' = ends + 1
    /\ UNCHANGED <<submit, disk, signal, loop, received, tried>>

Crash ==
    /\ Running /\ ends < MaxEnds
    /\ ends' = ends + 1
    /\ process' = "down"
    /\ submit' = [x \in Results |-> CASE submit[x] = "written" -> "failed"
                                      [] submit[x] = "renamed" -> "done"
                                      [] OTHER -> submit[x]]
    /\ loop' = [FlushStart EXCEPT !.at = "stopped"]
    /\ UNCHANGED <<disk, signal, received, tried>>

Start ==
    /\ process = "down"
    /\ process' = "up"
    /\ signal' = FALSE
    /\ loop' = FlushStart
    /\ UNCHANGED <<submit, disk, ends, received, tried>>

-----------------------------------------------------------------------------
Submit(x) == WriteTmp(x) \/ Rename(x) \/ Notify(x)

Next ==
    \/ \E x \in Results : Submit(x)
    \/ ReadDir \/ (\E f \in Files : ReadFile(f)) \/ FlushEnds
    \/ SendAcknowledged \/ SendFails \/ Remove \/ Wake \/ Tick \/ LoopReturns
    \/ ReporterCancel \/ Crash \/ Start

Spec == Init /\ [][Next]_vars

\* The goroutine and the workers run, select is fair among its channels, a send
\* ends one way or the other, a dispatcher that went down is started again, and
\* a result that is sent again and again is answered at last.
Fairness ==
    /\ \A x \in Results : WF_vars(Rename(x) \/ Notify(x))
    /\ WF_vars(ReadDir) /\ WF_vars(\E f \in Files : ReadFile(f)) /\ WF_vars(FlushEnds)
    /\ WF_vars(SendAcknowledged \/ SendFails) /\ WF_vars(Remove)
    /\ SF_vars(Wake) /\ WF_vars(Tick) /\ SF_vars(LoopReturns) /\ WF_vars(Start)
    /\ \A x \in Results : SF_vars(loop.result = x /\ SendAcknowledged)

FairSpec == Spec /\ Fairness

-----------------------------------------------------------------------------
(* Properties *)

\* The journal is persistent: the last result renamed into it for an experiment
\* stays there until the control plane has stored it, whatever fails, stops or
\* crashes.
LatestResultKept ==
    \A f \in Files :
        latest[f] # NoResult => journal[f] = latest[f] \/ latest[f] \in received

\* No wakeup is lost: while the goroutine sleeps, a result that is in the journal
\* and was never sent has its signal pending, however many Submits shared the one
\* place of the channel.  It never has to wait for the retry ticker.
NoLostWakeup ==
    \A x \in Results :
        At("select") /\ submit[x] = "done" /\ journal[FileOf[x]] = x /\ x \notin tried
            => signal \/ process = "stopping"

\* What was persisted reaches the control plane in the end.
EveryResultIsDelivered ==
    \A x \in Results :
        (submit[x] = "renamed") ~> (x \in received \/ x # latest[FileOf[x]])
=============================================================================
