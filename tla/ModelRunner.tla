----------------------------- MODULE ModelRunner -----------------------------
(***************************************************************************)
(* The dispatcher's workers on runs of one model (dispatcher/server.go     *)
(* runExperimentTask, run.go, model_process.go, metric_trace.go,           *)
(* cgroup_linux.go, store_s3.go): each run takes the binary out of the     *)
(* cache they share, starts the program, configures it over its stdin,     *)
(* reads its lines, waits for it, decides what the run amounts to and      *)
(* stores the metrics.  Beside it: the program, a rebuild that replaces    *)
(* the binary in the object store, a stop, the run timeout, the goroutine  *)
(* of os/exec that kills the program when the context is done, and faults. *)
(***************************************************************************)
EXTENDS ModelProcess, ModelCache, FiniteSets

CONSTANTS
    NoRun,
    Builds,         \* Builds[r]: the digests that binary.sha256 of r may name; NoDigest: none
    Settings,       \* Settings[r]: the configurations r may have, sequences of Setting
    Traced,         \* the runs with store_metrics
    Limited,        \* the runs with run_timeout_ms > 0
    Stoppable,      \* bound: the runs a stop may arrive for
    Faults, MaxFaults

Setting == {"accepted", "rejected", "malformed"}
FaultKinds == {"store_error", "disk_error", "start_error", "crash", "oom", "upload_error"}

ASSUME RunnerAssumption ==
    /\ IsFiniteSet(Runs) /\ NoRun \notin Runs
    /\ Builds \in [Runs -> SUBSET (Digests \cup {NoDigest})]
    /\ \A r \in Runs : Settings[r] \subseteq Seq(Setting)
    /\ Traced \subseteq Runs /\ Limited \subseteq Runs /\ Stoppable \subseteq Runs
    /\ Faults \subseteq FaultKinds /\ MaxFaults \in Nat

VARIABLES
    asked,          \* asked[r]: the digest in the start request of r
    object,         \* the digest of the binary in the object store
    cache, holder,  \* the cache, and the run that holds its mutex
    stage,          \* stage[r]: where the worker of r is
    context,        \* context[r]: live, canceled or deadline
    stopped,        \* the runs whose record has CancelRequested
    unwritten,      \* unwritten[r]: the commands still to be written to the program
    binary,         \* binary[r]: the digest of the program that was started
    result,         \* result[r]: the ExperimentResult under construction
    faults

shared == <<asked, object, cache, holder>>
vars == <<pipes, shared, stage, context, stopped, unwritten, binary, result, faults>>

Statuses == {"FAILED", "FINISHED", "CANCELED"}
Reasons == {"", "end", "error", "user_canceled", "timeout", "memory_limit_exceeded"}
Stages == {"queued", "lookup", "fetch", "chmod", "handed", "hello", "config", "ready", "lines",
           "wait", "close", "report", "done"}

\* error: error_message is set; stats, rows: stat_count and metrics_file_rows;
\* stored: metrics_artifact is set.  (ended is receivedEnd of RunModelProcess.)
NotRun == [status |-> "FAILED", reason |-> "", error |-> FALSE, stats |-> 0, rows |-> 0,
           ended |-> FALSE, stored |-> FALSE]

TypeOK ==
    /\ ProcessTypeOK
    /\ asked \in [Runs -> Digests \cup {NoDigest}]
    /\ object \in Digests /\ cache \in Caches /\ holder \in Runs \cup {NoRun}
    /\ stage \in [Runs -> Stages]
    /\ context \in [Runs -> {"live", "canceled", "deadline"}] /\ stopped \subseteq Runs
    /\ \A r \in Runs : unwritten[r] \in Seq(Commands \cup Setting)
    /\ binary \in [Runs -> Digests \cup {NoDigest}]
    /\ result \in [Runs -> [status : Statuses, reason : Reasons, error : BOOLEAN,
                            stats : 0..MaxStats, rows : 0..MaxStats, ended : BOOLEAN,
                            stored : BOOLEAN]]
    /\ faults \in 0..MaxFaults
    \* The worker and its program agree on how far the run is.
    /\ \A r \in Runs : /\ (holder = r) <=> stage[r] \in {"fetch", "chmod"}
                       /\ (process[r].at = "none") <=> (binary[r] = NoDigest)
                       /\ Alive(r) => stage[r] \in {"hello", "config", "ready", "lines", "wait"}
                       /\ result[r].stats + Cardinality({i \in DOMAIN stdout[r] :
                              stdout[r][i] = "STAT"}) <= process[r].wrote

Init ==
    /\ process = [r \in Runs |-> NoProcess]
    /\ stdin = [r \in Runs |-> <<>>] /\ stdout = [r \in Runs |-> <<>>]
    /\ asked \in [Runs -> Digests \cup {NoDigest}] /\ \A r \in Runs : asked[r] \in Builds[r]
    /\ object \in Digests /\ cache = EmptyCache /\ holder = NoRun
    /\ stage = [r \in Runs |-> "queued"]
    /\ context = [r \in Runs |-> "live"] /\ stopped = {}
    /\ unwritten \in [Runs -> UNION {Settings[r] : r \in Runs}]
    /\ \A r \in Runs : unwritten[r] \in Settings[r]
    /\ binary = [r \in Runs |-> NoDigest]
    /\ result = [r \in Runs |-> NotRun]
    /\ faults = 0

Fault(kind) == kind \in Faults /\ faults < MaxFaults /\ faults' = faults + 1
Goto(r, next) == stage' = [stage EXCEPT ![r] = next]

-----------------------------------------------------------------------------
(* executeExperiment up to the process: settings, then the binary.         *)

\* A worker takes the task; parseVarOverrides refuses a setting without a value.
Take(r) ==
    /\ stage[r] = "queued"
    /\ IF \E i \in DOMAIN unwritten[r] : unwritten[r][i] = "malformed"
       THEN /\ Goto(r, "report")
            /\ result' = [result EXCEPT ![r].error = TRUE]
       ELSE Goto(r, "lookup") /\ UNCHANGED result
    /\ UNCHANGED <<pipes, shared, context, stopped, unwritten, binary, faults>>

\* The error branch after GetOrDownload: what the context says comes first.
PrepareVerdict(r) ==
    CASE context[r] = "canceled" -> [NotRun EXCEPT !.status = "CANCELED", !.reason = "user_canceled"]
      [] context[r] = "deadline" -> [NotRun EXCEPT !.reason = "timeout", !.error = TRUE]
      [] OTHER                   -> [NotRun EXCEPT !.error = TRUE]

\* Under the mutex, which is held to the end of GetOrDownload.
CacheHit(r) ==
    /\ stage[r] = "lookup" /\ holder = NoRun /\ Hit(cache, asked[r])
    /\ Goto(r, "handed")
    /\ UNCHANGED <<pipes, shared, context, stopped, unwritten, binary, result, faults>>

CacheMiss(r) ==
    /\ stage[r] = "lookup" /\ holder = NoRun /\ ~Hit(cache, asked[r])
    /\ holder' = r
    /\ Goto(r, "fetch")
    /\ UNCHANGED <<pipes, asked, object, cache, context, stopped, unwritten, binary, result, faults>>

Fetched(r) ==
    /\ stage[r] = "fetch" /\ Matches(object, asked[r])
    /\ cache' = Downloaded(cache, object)
    /\ Goto(r, "chmod")
    /\ UNCHANGED <<pipes, asked, object, holder, context, stopped, unwritten, binary, result, faults>>

\* Fault: an early return that does not unlock.
Unlock_Forgotten == holder' = holder

Unlock == holder' = NoRun

NotPrepared(r) ==
    /\ Unlock
    /\ result' = [result EXCEPT ![r] = PrepareVerdict(r)]
    /\ Goto(r, "report")
    /\ UNCHANGED <<pipes, asked, object, cache, context, stopped, unwritten, binary>>

\* Stat, Get or the copy fails, the context is done, or the digest is another.
FetchFails(r) ==
    /\ stage[r] = "fetch"
    /\ NotPrepared(r)
    /\ \/ Fault("store_error")
       \/ (context[r] # "live" \/ ~Matches(object, asked[r])) /\ UNCHANGED faults

\* The entry is in the map before the file can be executed.
ChmodFails(r) ==
    /\ stage[r] = "chmod"
    /\ NotPrepared(r)
    /\ Fault("disk_error")

MakeExecutable(r) ==
    /\ stage[r] = "chmod"
    /\ cache' = MadeExecutable(cache)
    /\ holder' = NoRun
    /\ Goto(r, "handed")
    /\ UNCHANGED <<pipes, asked, object, context, stopped, unwritten, binary, result, faults>>

-----------------------------------------------------------------------------
(* The process: trace file, cgroup and exec, then the handshake.           *)

AfterRun(r) == IF r \in Traced THEN "close" ELSE "report"

TraceFails(r) ==
    /\ stage[r] = "handed" /\ r \in Traced
    /\ Fault("disk_error")
    /\ result' = [result EXCEPT ![r].error = TRUE]
    /\ Goto(r, "report")
    /\ UNCHANGED <<pipes, shared, context, stopped, unwritten, binary>>

\* cmd.Start gives up at once when the context is done, and the file may be
\* one that another run has just replaced and not yet made executable.
StartFails(r) ==
    /\ stage[r] = "handed"
    /\ \/ (context[r] # "live" \/ ~cache.executable) /\ UNCHANGED faults
       \/ Fault("start_error")
    /\ result' = [result EXCEPT ![r].error = TRUE]
    /\ Goto(r, AfterRun(r))
    /\ UNCHANGED <<pipes, shared, context, stopped, unwritten, binary>>

CanStart(r) == stage[r] = "handed" /\ context[r] = "live" /\ cache.executable

StartProcess(r) ==
    /\ CanStart(r)
    /\ process' = [process EXCEPT ![r] = Booting]
    /\ binary' = [binary EXCEPT ![r] = cache.file]
    /\ unwritten' = [unwritten EXCEPT ![r] = Append(@, "START")]
    /\ Goto(r, "hello")
    /\ UNCHANGED <<stdin, stdout, shared, context, stopped, result, faults>>

\* AddProcess fails: the process was started outside its cgroup and is killed.
NotConfined(r) ==
    /\ CanStart(r) /\ Fault("start_error")
    /\ process' = [process EXCEPT ![r] = [Booting EXCEPT !.at = "exited", !.exit = "failed"]]
    /\ binary' = [binary EXCEPT ![r] = cache.file]
    /\ result' = [result EXCEPT ![r].error = TRUE]
    /\ Goto(r, "wait")
    /\ UNCHANGED <<stdin, stdout, shared, context, stopped, unwritten>>

\* fail, and the waitProcess and return after it: whatever the context says,
\* the run has failed.
Abandon(r) ==
    /\ process' = IF Alive(r)
                  THEN [process EXCEPT ![r].at = "exited", ![r].exit = "failed"]
                  ELSE process
    /\ Goto(r, "wait")
    /\ UNCHANGED <<stdin, stdout, shared, context, stopped, unwritten, binary>>

Failed(r) == result' = [result EXCEPT ![r].error = TRUE]

\* Scan blocks while the pipe is empty and open; what a program has written
\* before it died is still read.
Readable(r) == stdout[r] # <<>>
AtEnd(r) == stdout[r] = <<>> /\ ~Alive(r)

NextLine(r, lines) ==
    /\ Readable(r) /\ Head(stdout[r]) \in lines
    /\ stdout' = [stdout EXCEPT ![r] = Tail(@)]
    /\ UNCHANGED <<process, stdin, shared, context, stopped, unwritten, binary>>

ReadHello(r) ==
    /\ stage[r] = "hello"
    /\ NextLine(r, {"HELLO"})
    /\ Goto(r, "config")
    /\ UNCHANGED <<result, faults>>

NoHello(r) ==
    /\ stage[r] = "hello"
    /\ AtEnd(r) \/ (Readable(r) /\ Head(stdout[r]) # "HELLO")
    /\ Failed(r) /\ Abandon(r)
    /\ UNCHANGED faults

\* writeModelConfig and Flush, then stdin is closed.  Nothing is read meanwhile.
WriteCommand(r) ==
    /\ stage[r] = "config" /\ Alive(r) /\ HasRoom(stdin[r])
    /\ stdin' = [stdin EXCEPT ![r] = Append(@, Head(unwritten[r]))]
    /\ unwritten' = [unwritten EXCEPT ![r] = Tail(@)]
    /\ IF Len(unwritten[r]) = 1 THEN Goto(r, "ready") ELSE UNCHANGED stage
    /\ UNCHANGED <<process, stdout, shared, context, stopped, binary, result, faults>>

WriteFails(r) ==
    /\ stage[r] = "config" /\ ~Alive(r)
    /\ Failed(r) /\ Abandon(r)
    /\ UNCHANGED faults

ReadReady(r) ==
    /\ stage[r] = "ready"
    /\ NextLine(r, {"READY"})
    /\ Goto(r, "lines")
    /\ UNCHANGED <<result, faults>>

RefusesToStart(r) == AtEnd(r) \/ (Readable(r) /\ Head(stdout[r]) # "READY")

\* waitReady: any other line, an ERR above all, ends the run.
NotReady(r) ==
    /\ stage[r] = "ready" /\ RefusesToStart(r)
    /\ Failed(r) /\ Abandon(r)
    /\ UNCHANGED faults

-----------------------------------------------------------------------------
(* The lines of the simulation.                                            *)

ReadStat(r) ==
    /\ stage[r] = "lines"
    /\ NextLine(r, {"STAT"})
    /\ result' = [result EXCEPT ![r].stats = @ + 1,
                                ![r].rows = IF r \in Traced THEN @ + 1 ELSE @]
    /\ UNCHANGED <<stage, faults>>

\* WriteStat fails: the line is counted, the row is not.
RowNotWritten(r) ==
    /\ stage[r] = "lines" /\ r \in Traced /\ Readable(r) /\ Head(stdout[r]) = "STAT"
    /\ Fault("disk_error")
    /\ result' = [result EXCEPT ![r].stats = @ + 1, ![r].error = TRUE]
    /\ process' = IF Alive(r)
                  THEN [process EXCEPT ![r].at = "exited", ![r].exit = "failed"]
                  ELSE process
    /\ stdout' = [stdout EXCEPT ![r] = Tail(@)]
    /\ Goto(r, "wait")
    /\ UNCHANGED <<stdin, shared, context, stopped, unwritten, binary>>

ReadEnd(r) ==
    /\ stage[r] = "lines"
    /\ NextLine(r, {"END", "END error"})
    /\ result' = [result EXCEPT ![r].ended = TRUE,
                    ![r].reason = IF Head(stdout[r]) = "END" THEN "end" ELSE "error"]
    /\ Goto(r, "wait")
    /\ UNCHANGED faults

BadLine(r) ==
    /\ stage[r] = "lines" /\ Readable(r)
    /\ Head(stdout[r]) \notin {"STAT", "END", "END error"}
    /\ Failed(r) /\ Abandon(r)
    /\ UNCHANGED faults

EndOfLines(r) ==
    /\ stage[r] = "lines" /\ AtEnd(r)
    /\ Goto(r, "wait")
    /\ UNCHANGED <<pipes, shared, context, stopped, unwritten, binary, result, faults>>

-----------------------------------------------------------------------------
(* The end of a run.                                                       *)

\* What RunModelProcess makes of a run it has not abandoned.
Verdict(r) ==
    LET v == result[r] IN
    IF v.error THEN v
    ELSE CASE context[r] = "canceled" -> [v EXCEPT !.status = "CANCELED", !.reason = "user_canceled"]
           [] context[r] = "deadline" -> [v EXCEPT !.reason = "timeout", !.error = TRUE]
           [] OTHER -> IF process[r].exit = "failed" \/ ~v.ended \/ v.reason = "error"
                       THEN [v EXCEPT !.error = TRUE]
                       ELSE [v EXCEPT !.status = "FINISHED"]

\* Fault: the cgroup is asked only about runs that failed without a reason.
AfterOom_OnlyUnexplained(v, oom) ==
    IF oom /\ ~v.error
    THEN [v EXCEPT !.status = "FAILED", !.reason = "memory_limit_exceeded", !.error = TRUE]
    ELSE v

\* finishRunResult: memory.events of the cgroup has the last word.
AfterOom(v, oom) ==
    IF oom /\ v.status # "CANCELED" /\ v.reason # "timeout"
    THEN [v EXCEPT !.status = "FAILED", !.reason = "memory_limit_exceeded", !.error = TRUE]
    ELSE v

\* Fault: the result is made up before the program has exited.
Waited_TooEarly(r) ==
    /\ stage[r] = "wait"
    /\ result' = [result EXCEPT ![r] = AfterOom(Verdict(r), process[r].oom)]
    /\ Goto(r, AfterRun(r))
    /\ UNCHANGED <<pipes, shared, context, stopped, unwritten, binary, faults>>

\* cmd.Wait returns when the program has exited, and closes the pipes.
Waited(r) ==
    /\ stage[r] = "wait" /\ ~Alive(r)
    /\ stdin' = [stdin EXCEPT ![r] = <<>>] /\ stdout' = [stdout EXCEPT ![r] = <<>>]
    /\ result' = [result EXCEPT ![r] = AfterOom(Verdict(r), process[r].oom)]
    /\ Goto(r, AfterRun(r))
    /\ UNCHANGED <<process, shared, context, stopped, unwritten, binary, faults>>

\* The upload has a context of its own: a stop or a timeout does not end it.
Upload(r) ==
    /\ stage[r] = "close"
    /\ result' = [result EXCEPT ![r].stored = TRUE]
    /\ Goto(r, "report")
    /\ UNCHANGED <<pipes, shared, context, stopped, unwritten, binary, faults>>

\* Fault: a metrics file that is not stored is only an error message.
AppendResultError_StatusKept(v) == [v EXCEPT !.error = TRUE]

AppendResultError(v) ==
    [v EXCEPT !.error = TRUE, !.status = IF @ = "CANCELED" THEN @ ELSE "FAILED"]

\* Closing the trace or storing it fails.
UploadFails(r) ==
    /\ stage[r] = "close" /\ Fault("upload_error")
    /\ result' = [result EXCEPT ![r] = AppendResultError(@)]
    /\ Goto(r, "report")
    /\ UNCHANGED <<pipes, shared, context, stopped, unwritten, binary>>

\* Registry.Finish: a requested stop overrides every outcome but FINISHED.
Report(r) ==
    /\ stage[r] = "report"
    /\ result' = IF r \in stopped /\ result[r].status # "FINISHED"
                 THEN [result EXCEPT ![r].status = "CANCELED", ![r].reason = "user_canceled"]
                 ELSE result
    /\ Goto(r, "done")
    /\ UNCHANGED <<pipes, shared, context, stopped, unwritten, binary, faults>>

-----------------------------------------------------------------------------
(* What happens around a run.                                              *)

runnerVars == <<shared, stage, unwritten, binary, result>>

\* Registry.Cancel, while the record is active.
Stop(r) ==
    /\ r \in Stoppable \ stopped /\ stage[r] # "done"
    /\ stopped' = stopped \cup {r}
    /\ context' = [context EXCEPT ![r] = IF @ = "live" THEN "canceled" ELSE @]
    /\ UNCHANGED <<pipes, runnerVars, faults>>

Timeout(r) ==
    /\ r \in Limited /\ stage[r] # "done" /\ context[r] = "live"
    /\ context' = [context EXCEPT ![r] = "deadline"]
    /\ UNCHANGED <<pipes, runnerVars, stopped, faults>>

\* exec.CommandContext: some time after the context is done the program is killed.
KillOnDone(r) ==
    /\ context[r] # "live"
    /\ Dies(r, FALSE)
    /\ UNCHANGED <<runnerVars, context, stopped, faults>>

Crash(r) ==
    /\ Fault("crash") /\ Dies(r, FALSE)
    /\ UNCHANGED <<runnerVars, context, stopped>>

OomKill(r) ==
    /\ Fault("oom") /\ Dies(r, TRUE)
    /\ UNCHANGED <<runnerVars, context, stopped>>

Simulates(r) == ProcessStep(r) /\ UNCHANGED <<runnerVars, context, stopped, faults>>

\* Another build of the model replaces the binary under its key.
Rebuild ==
    /\ object' \in Digests \ {object}
    /\ UNCHANGED <<pipes, asked, cache, holder, stage, unwritten, binary, result, context, stopped, faults>>

\* What the worker does when nothing goes wrong by itself.
WorkerStep(r) ==
    \/ Take(r) \/ CacheHit(r) \/ CacheMiss(r) \/ Fetched(r) \/ FetchFails(r) \/ MakeExecutable(r)
    \/ StartFails(r) \/ StartProcess(r)
    \/ ReadHello(r) \/ NoHello(r) \/ WriteCommand(r) \/ WriteFails(r) \/ ReadReady(r) \/ NotReady(r)
    \/ ReadStat(r) \/ ReadEnd(r) \/ BadLine(r) \/ EndOfLines(r)
    \/ Waited(r) \/ Upload(r) \/ Report(r)

WorkerFault(r) ==
    ChmodFails(r) \/ TraceFails(r) \/ NotConfined(r) \/ RowNotWritten(r) \/ UploadFails(r)

Around(r) == Simulates(r) \/ Stop(r) \/ Timeout(r) \/ KillOnDone(r) \/ Crash(r) \/ OomKill(r)

Next ==
    \/ \E r \in Runs : WorkerStep(r) \/ WorkerFault(r) \/ Around(r)
    \/ Rebuild

Spec == Init /\ [][Next]_vars

\* Workers are scheduled, calls to the store and the disk return, timers fire
\* and a kill arrives.  The program is free to do nothing.
Fairness ==
    \A r \in Runs : WF_vars(WorkerStep(r)) /\ WF_vars(Timeout(r)) /\ WF_vars(KillOnDone(r))

FairSpec == Spec /\ Fairness

-----------------------------------------------------------------------------
Done(r) == stage[r] = "done"

\* A run is reported FINISHED only if it is the experiment that was asked for,
\* all of it: the program accepted every setting, ended by itself with END and
\* another reason than "error", inside its memory limit, and every STAT line it
\* wrote was counted and, with store_metrics, is a row of the file in the
\* object store (RunModelProcess, executeExperiment).
FinishedMeansComplete ==
    \A r \in Runs : Done(r) /\ result[r].status = "FINISHED" =>
        /\ ~process[r].rejected /\ process[r].exit = "ok" /\ ~process[r].oom
        /\ result[r].ended /\ result[r].reason = "end"
        /\ result[r].stats = process[r].wrote
        /\ r \in Traced => result[r].stored /\ result[r].rows = process[r].wrote

\* The outcome names its cause, whichever of several return paths, kills and
\* races produced it: CANCELED and user_canceled stand for a stop, and a run
\* with a stop is CANCELED or had already finished; timeout for the deadline;
\* memory_limit_exceeded for an OOM kill, and an OOM kill goes unmentioned only
\* if a stop or the deadline is mentioned instead (finishRunResult, Finish).
OutcomeNamesItsCause ==
    \A r \in Runs : Done(r) =>
        LET v == result[r] IN
        /\ v.status = "CANCELED" <=> r \in stopped /\ v.status # "FINISHED"
        /\ v.status = "CANCELED" <=> v.reason = "user_canceled"
        /\ v.reason = "timeout" => context[r] = "deadline"
        /\ v.reason = "memory_limit_exceeded" => process[r].oom
        /\ process[r].oom => v.reason \in {"memory_limit_exceeded", "user_canceled", "timeout"}

\* The cache and the file system tell the same story, and what runs is what was
\* asked for.  While no download is under way the entry has the digest of the
\* file.  The path given out names one file for all builds of the model, so a
\* run may execute another build than it asked for - but only one that another
\* run asked for and downloaded in between; without that, never
\* (ModelCache.GetOrDownload, GetFile).
RunsWhatWasAsked ==
    /\ holder = NoRun => cache.entry = cache.file
    /\ \A r \in Runs : binary[r] \notin {NoDigest, asked[r]} /\ asked[r] # NoDigest =>
          \E q \in Runs \ {r} : asked[q] \in {NoDigest, binary[r]} /\ stage[q] \notin {"queued", "lookup"}

\* Every run with a timeout comes to a result, although the program may hang,
\* fill its pipe or stop reading: the timeout kills the program, which closes
\* the pipes.  And although it shares the cache with a run that never ends: the
\* mutex is held for a download, not for a run (GetOrDownload, RunModelProcess).
EveryRunEnds == \A r \in Limited : <>Done(r)
=============================================================================
