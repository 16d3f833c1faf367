----------------------------- MODULE Dispatcher -----------------------------
(***************************************************************************)
(* One dispatcher process (dispatcher/server.go and the shutdown sequence  *)
(* of dispatcher/serve.go): StartExperiment handlers, StopExperiment, the  *)
(* worker pool behind the unbuffered task channel, run contexts, and the   *)
(* drain on SIGTERM.  A run is one StartExperiment call; several runs may  *)
(* carry the same key, as when a caller starts a canceled experiment again *)
(* before its worker has let go of it.                                     *)
(*                                                                         *)
(* What the model process does between RUNNING and its outcome is in       *)
(* RunOutcomes; what the reporter does with a result is in Reporter.tla.   *)
(***************************************************************************)
EXTENDS DispatcherRegistry, FiniteSetsExt

CONSTANTS
    Workers,        \* cfg.Slots worker goroutines
    KeyOf,          \* KeyOf[run]: the experiment it starts
    LimitOf,        \* LimitOf[run]: the memory_limit_bytes of its request, 0 for none
    TimedRuns,      \* the runs with run_timeout_ms > 0
    MemoryBytes     \* cfg.MemoryBytes, 0 for unlimited

ASSUME DispatcherAssumption ==
    /\ IsFiniteSet(Workers) /\ Workers # {}
    /\ IsFiniteSet(Runs)
    /\ KeyOf \in [Runs -> Keys]
    /\ LimitOf \in [Runs -> Nat]
    /\ TimedRuns \subseteq Runs
    /\ MemoryBytes \in Nat

VARIABLES
    registry,       \* the Registry
    handler,        \* handler[run]: how far its StartExperiment call is
    context,        \* context[run]: live, canceled or expired
    worker,         \* worker[w]: the goroutine's step, its run, the run's status
    submitted,      \* submitted[run]: the status handed to Reporter.Submit
    phase           \* where runServe is

vars == <<registry, handler, context, worker, submitted, phase>>

Slots == Cardinality(Workers)

Limit(run) == LimitOf[run]

HandlerStep == {"new", "admitted", "offering", "accepted", "rejected"}
WorkerStep == {"idle", "received", "running", "executed", "finished", "stopped"}
Phase == {"serving", "draining", "served", "forced", "stopped"}

TypeOK ==
    /\ registry \in Registry
    /\ registry.totalSlots = Slots /\ registry.totalMemoryBytes = MemoryBytes
    /\ handler \in [Runs -> HandlerStep]
    /\ context \in [Runs -> {"live", "canceled", "expired"}]
    /\ worker \in [Workers -> [at : WorkerStep, run : Runs \cup {NoRun},
                               status : Terminal \cup {"none"}]]
    /\ submitted \in [Runs -> Terminal \cup {"none"}]
    /\ phase \in Phase

IdleWorker == [at |-> "idle", run |-> NoRun, status |-> "none"]

Init ==
    /\ registry = NewRegistry(Slots, MemoryBytes)
    /\ handler = [run \in Runs |-> "new"]
    /\ context = [run \in Runs |-> "live"]
    /\ worker = [w \in Workers |-> IdleWorker]
    /\ submitted = [run \in Runs |-> "none"]
    /\ phase = "serving"

-----------------------------------------------------------------------------
(* StartExperiment.  The server accepts calls until GracefulStop begins.   *)

StartRefused(run) ==
    /\ phase = "serving" /\ handler[run] = "new"
    /\ Refusal(registry, KeyOf[run], Limit(run)) # "none"
    /\ handler' = [handler EXCEPT ![run] = "rejected"]
    /\ UNCHANGED <<registry, context, worker, submitted, phase>>

StartAdmitted(run) ==
    /\ phase = "serving" /\ handler[run] = "new"
    /\ Refusal(registry, KeyOf[run], Limit(run)) = "none"
    /\ registry' = TryStart(registry, KeyOf[run], Limit(run))
    /\ handler' = [handler EXCEPT ![run] = "admitted"]
    /\ UNCHANGED <<context, worker, submitted, phase>>

\* The run context exists only from here on: a Cancel that came earlier
\* found a nil cancel function.
InstallCancel(run) ==
    /\ handler[run] = "admitted"
    /\ registry' = SetCancel(registry, KeyOf[run], run)
    /\ handler' = [handler EXCEPT ![run] = "offering"]
    /\ UNCHANGED <<context, worker, submitted, phase>>

HandOff(run, w) ==
    /\ handler[run] = "offering" /\ worker[w].at = "idle"
    /\ handler' = [handler EXCEPT ![run] = "accepted"]
    /\ worker' = [worker EXCEPT ![w] = [at |-> "received", run |-> run, status |-> "none"]]
    /\ UNCHANGED <<registry, context, submitted, phase>>

\* The caller's own context ends first: the admission is undone.
RequestCanceled(run) ==
    /\ handler[run] = "offering"
    /\ registry' = Finish(registry, KeyOf[run], "FAILED")
    /\ handler' = [handler EXCEPT ![run] = "rejected"]
    /\ UNCHANGED <<context, worker, submitted, phase>>

-----------------------------------------------------------------------------
(* StopExperiment, and the run_timeout_ms deadline of a run context. *)

CutShort(runs) ==
    context' = [run \in Runs |-> IF run \in runs /\ context[run] = "live"
                                 THEN "canceled" ELSE context[run]]

StopExperiment(key) ==
    /\ phase = "serving" /\ CanCancel(registry, key)
    /\ registry' = Cancel(registry, key)
    /\ CutShort(Canceled(registry, {key}))
    /\ UNCHANGED <<handler, worker, submitted, phase>>

RunTimeout(run) ==
    /\ run \in TimedRuns /\ handler[run] \in {"offering", "accepted"}
    /\ submitted[run] = "none"
    /\ context[run] = "live"
    /\ context' = [context EXCEPT ![run] = "expired"]
    /\ UNCHANGED <<registry, handler, worker, submitted, phase>>

-----------------------------------------------------------------------------
(* The worker loop: receive, SetStatus(RUNNING), executeExperiment,        *)
(* Finish, Submit.                                                         *)

\* Fault: a task canceled before it started is dropped on the floor.
SetRunning_DropsCanceled(w) ==
    /\ worker[w].at = "received"
    /\ IF CanCancel(registry, KeyOf[worker[w].run])
       THEN /\ registry' = SetStatus(registry, KeyOf[worker[w].run], "RUNNING")
            /\ worker' = [worker EXCEPT ![w].at = "running"]
       ELSE worker' = [worker EXCEPT ![w] = IdleWorker] /\ UNCHANGED registry
    /\ UNCHANGED <<handler, context, submitted, phase>>

SetRunning(w) ==
    /\ worker[w].at = "received"
    /\ registry' = SetStatus(registry, KeyOf[worker[w].run], "RUNNING")
    /\ worker' = [worker EXCEPT ![w].at = "running"]
    /\ UNCHANGED <<handler, context, submitted, phase>>

\* Fault: a run that hits its deadline returns without a status.
RunOutcomes_DeadlineUnset(run) ==
    CASE context[run] = "live"     -> {"FINISHED", "FAILED"}
      [] context[run] = "canceled" -> {"CANCELED", "FAILED"}
      [] context[run] = "expired"  -> {"none"}

\* What executeExperiment returns.  A failure before the model has answered
\* READY is FAILED whatever the context says.
RunOutcomes(run) ==
    CASE context[run] = "live"     -> {"FINISHED", "FAILED"}
      [] context[run] = "canceled" -> {"CANCELED", "FAILED"}
      [] context[run] = "expired"  -> {"FAILED"}

Execute(w) ==
    /\ worker[w].at = "running"
    /\ \E status \in RunOutcomes(worker[w].run) :
          worker' = [worker EXCEPT ![w].at = "executed", ![w].status = status]
    /\ UNCHANGED <<registry, handler, context, submitted, phase>>

\* The context ended, so the model process has been killed.
RunCutShort(w) ==
    /\ worker[w].at = "running" /\ context[worker[w].run] # "live"
    /\ Execute(w)

FinishTask(w) ==
    LET key == KeyOf[worker[w].run] IN
    /\ worker[w].at = "executed"
    /\ registry' = Finish(registry, key, worker[w].status)
    /\ worker' = [worker EXCEPT ![w].at = "finished",
                                ![w].status = FinalStatus(registry, key, @)]
    /\ UNCHANGED <<handler, context, submitted, phase>>

SubmitResult(w) ==
    /\ worker[w].at = "finished"
    /\ submitted' = [submitted EXCEPT ![worker[w].run] = worker[w].status]
    /\ worker' = [worker EXCEPT ![w] = IdleWorker]
    /\ UNCHANGED <<registry, handler, context, phase>>

-----------------------------------------------------------------------------
(* Shutdown: SIGTERM cancels the server context, GracefulStop waits for    *)
(* the handlers, then the workers are awaited for DrainTimeout and after   *)
(* that everything active is canceled.                                     *)

Shutdown ==
    /\ phase = "serving" /\ phase' = "draining"
    /\ UNCHANGED <<registry, handler, context, worker, submitted>>

WorkerExit(w) ==
    /\ phase # "serving" /\ worker[w].at = "idle"
    /\ worker' = [worker EXCEPT ![w].at = "stopped"]
    /\ UNCHANGED <<registry, handler, context, submitted, phase>>

Answering == {run \in Runs : handler[run] \in {"admitted", "offering"}}

ServeReturns ==
    /\ phase = "draining" /\ Answering = {}
    /\ phase' = "served"
    /\ UNCHANGED <<registry, handler, context, worker, submitted>>

\* Fault: the records are marked and the contexts left alone.
DrainTimeout_ContextsKept ==
    /\ phase = "served" /\ \A w \in Workers : worker[w].at # "received"
    /\ registry' = CancelAll(registry)
    /\ phase' = "forced"
    /\ UNCHANGED <<handler, context, worker, submitted>>

\* Timing assumption: a worker that has received a task sets RUNNING before
\* the drain timeout, which is counted in seconds, is over.
DrainTimeout ==
    /\ phase = "served" /\ \A w \in Workers : worker[w].at # "received"
    /\ registry' = CancelAll(registry)
    /\ CutShort(Canceled(registry, ActiveKeys(registry)))
    /\ phase' = "forced"
    /\ UNCHANGED <<handler, worker, submitted>>

WorkersDone ==
    /\ phase \in {"served", "forced"} /\ \A w \in Workers : worker[w].at = "stopped"
    /\ phase' = "stopped"
    /\ UNCHANGED <<registry, handler, context, worker, submitted>>

-----------------------------------------------------------------------------
Handler(run) ==
    \/ StartRefused(run) \/ StartAdmitted(run) \/ InstallCancel(run)
    \/ RequestCanceled(run) \/ RunTimeout(run)
    \/ \E w \in Workers : HandOff(run, w)

Worker(w) ==
    \/ SetRunning(w) \/ Execute(w) \/ FinishTask(w) \/ SubmitResult(w) \/ WorkerExit(w)

Next ==
    \/ \E run \in Runs : Handler(run)
    \/ \E w \in Workers : Worker(w)
    \/ \E key \in Keys : StopExperiment(key)
    \/ Shutdown \/ ServeReturns \/ DrainTimeout \/ WorkersDone

Spec == Init /\ [][Next]_vars

\* Goroutines that can run do run: handlers and workers always take their next
\* step, except that a model process left alone may never end.  A caller's
\* context does end (the control plane puts a deadline on every call), which
\* matters only once the workers are leaving.
Fairness ==
    /\ \A run \in Runs :
          /\ WF_vars(InstallCancel(run))
          /\ WF_vars(\E w \in Workers : HandOff(run, w))
          /\ WF_vars(phase # "serving" /\ RequestCanceled(run))
    /\ \A w \in Workers :
          /\ WF_vars(SetRunning(w) \/ FinishTask(w) \/ SubmitResult(w) \/ WorkerExit(w))
          /\ WF_vars(RunCutShort(w))
    /\ WF_vars(ServeReturns) /\ WF_vars(DrainTimeout) /\ WF_vars(WorkersDone)

FairSpec == Spec /\ Fairness

-----------------------------------------------------------------------------
(* Properties *)

Busy == {w \in Workers : worker[w].at \in {"received", "running", "executed"}}

\* The runs that have been admitted and not yet finished.
SlotHolders == Answering \cup {worker[w].run : w \in Busy}

Reserved(runs) == MapThenSumSet(Limit, runs)

\* usedSlots counts exactly the admitted, unfinished runs, whichever way a run
\* ends (its worker, a caller that gave up) and even when several runs share a
\* key and the later record has replaced the earlier one.
SlotAccounting == registry.usedSlots = Cardinality(SlotHolders)

\* No more runs are admitted and unfinished than there are workers, so an
\* admitted run never queues behind another run's model process.
NeverOversubscribed == Cardinality(SlotHolders) <= Slots

\* Every request for an experiment asks for the same memory.  The control plane
\* sends the limit of the experiment's row, or else of its batch, and writes there
\* only the limit a run of it reports; the dispatcher takes what each request says.
OneLimitPerKey == \A r, q \in Runs : KeyOf[r] = KeyOf[q] => LimitOf[r] = LimitOf[q]

\* As long as an experiment asks for the same memory each time it is started, the
\* limits of the admitted, unfinished runs fit into the node's memory, also when
\* it is started again while its canceled run still unwinds.  Without the
\* condition this is false of the code: the first of two runs of a key to finish
\* gives back what the key's record holds, which is the limit of the later one.
MemoryNeverOvercommitted ==
    OneLimitPerKey /\ MemoryBytes > 0 => Reserved(SlotHolders) <= MemoryBytes

\* When no key is started twice, the reserved memory is exactly the sum of the
\* limits of the runs in progress: nothing leaks, nothing is given back twice.
MemoryAccounting == registry.reservedMemoryBytes = Reserved(SlotHolders)

\* A run whose stop was acknowledged ends CANCELED, or FINISHED when it beat the
\* stop; it is never reported as FAILED.
CancelHonoured ==
    \A run \in Runs :
        registry.experiments[KeyOf[run]].cancelRequested =>
            submitted[run] \in {"none", "CANCELED", "FINISHED"}

\* While the server runs, the StartExperiment calls that were admitted are all
\* answered without help from their callers' deadlines and even if every model
\* process on the node hangs.  (A run is started once and there are finitely
\* many, so one that waits forever would keep Answering from being empty.)
EveryStartAnswered == (Answering # {}) ~> (Answering = {} \/ phase # "serving")

\* The accepted runs whose context has ended and which were not reported yet.
CutShortRuns ==
    {run \in Runs : handler[run] = "accepted" /\ context[run] # "live" /\ submitted[run] = "none"}

\* A run that was accepted and whose context ended is reported.
CutShortRunsAreReported == (CutShortRuns # {}) ~> (CutShortRuns = {})

\* A shutdown ends, although the models in progress may never end by themselves:
\* no handler is left without an answer and no worker without a cancellation.
ShutdownCompletes == (phase = "draining") ~> (phase = "stopped")

\* What the answer of StopExperiment says ("experiment cancellation requested"):
\* once it is given, a model process in progress has its context canceled.
StopCutsTheRunShort ==
    \A w \in Workers :
        (worker[w].at = "running" /\ registry.experiments[KeyOf[worker[w].run]].cancelRequested)
            => context[worker[w].run] # "live"

=============================================================================
