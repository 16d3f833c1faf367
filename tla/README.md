# Verification of go-cloud-des

go-cloud-des runs discrete-event simulation experiments on a small cloud: a user
submits a model in a DSL together with a batch of experiments, the model is
compiled once, and each experiment runs on one of several dispatcher nodes.
This directory holds a TLA+ model of the parts that have to get concurrency and
failure right, the TLC runs that check them on small instances, and theorems
proved with TLAPS for instances of any size.

## 1. The system

| component | source | state it keeps | operations |
|---|---|---|---|
| web API | `webapi/` | none | HTTP to control plane calls |
| control plane handlers | `controlplane/server.go`, `submit.go` | none of their own | SubmitExperimentBatch, CancelExperiment, ReportExperimentResult, RegisterNode, SendHeartbeat, read API |
| repository | `controlplane/repository.go`, `schema.sql` | PostgreSQL: batches, experiments, model artifacts | one statement (or transaction) per method |
| scheduler | `controlplane/scheduler.go` | its place in RunOnce | RunOnce and ReconcileLostNodes, alternating on one goroutine |
| pending queue | `controlplane/pending_queue.go` | list and index of queued records, in memory | Enqueue, EnqueueMany, PopBatch, Remove |
| node registry | `controlplane/node_registry.go` | per node: last report, last seen, reservations, consecutive failures; in memory | Register, Heartbeat, PickAndReserve, ReleaseReservation, MarkNodeFailed, MarkNodeSucceeded, ActiveNodeIDs, Get |
| build client | `controlplane/codegen_client.go` | a subscription for each call | BuildModel: subscribe, publish, wait for the reply or the deadline |
| codegen worker | `codegen/cmd/codegen`, `codegen/builder` | tokens of the free workers, tasks in hand; outside: JetStream work queue, artifacts in S3 | fetch, build, store, reply, acknowledge |
| dispatcher registry | `dispatcher/registry.go` | record per experiment, used slots, reserved memory | TryStart, SetCancel, SetStatus, Cancel, CancelAll, Finish |
| dispatcher server, workers | `dispatcher/server.go`, `run.go`, `serve.go` | unbuffered task channel, one goroutine per slot, a context per run | StartExperiment, StopExperiment, the worker loop, drain on SIGTERM |
| model runner, cgroups, traces | `dispatcher/run.go`, `model_process.go`, `protocol.go`, ... | child process with its pipes, the result under construction | one run of a model |
| model cache | `dispatcher/model_cache.go`, `store_s3.go` | an entry per model hash, a file | GetOrDownload under one mutex |
| reporter | `dispatcher/reporter.go` | journal directory, one-place signal | Submit, flush loop |
| DSL compiler | `codegen/generator` | none | parse, validate, emit Go |
| generated runtime | `codegen/container`, `codegen/rand`, code emitted by `emit_*.go`; `codegen/example` keeps two programs | event heap, entity pools, blocks, resources | the simulation loop, the line protocol |

How they interact.  Submission writes the batch, asks codegen over NATS for the
binary, and puts the batch's PENDING experiments into the queue.  Once a second
the scheduler pops everything, reserves a node for each record, moves the row from
PENDING to STARTING with a conditional UPDATE, and calls StartExperiment on the
node.  Accepted: the row stays STARTING until the node reports.  Rejected for a
transient reason: reservation released, row back to PENDING, record queued again.
Rejected for good: FAILED.  No answer: the row is left STARTING, because the node
may be running it.  The dispatcher admits the call in its registry, hands it to a
worker over an unbuffered channel, and answers when a worker has it.  The worker
runs the model, settles the record and persists the result in the journal; the
reporter sends journal files until the control plane acknowledges them, and the
control plane overwrites the row and releases the reservation.  Nodes send
heartbeats; one not heard from for NodeTTL is gone, and its STARTING
experiments become FAILED (node_lost) after a grace period.

Before that, a submission finds the artifact row of its model READY, or marks it
BUILDING and posts a task to the work queue, listening on a reply subject of its own.
A codegen worker fetches the task, generates and compiles the model, stores the binary
under a key made of the model hash and the platform, replies, and acknowledges.  A
dispatcher's worker looks the binary up in the cache all runs share, or downloads it,
starts it, sends it the experiment's settings over stdin and reads STAT lines until END.
Inside that process a generated event loop moves entities through blocks that call one
another directly, so a refusal travels back up the calls it came down.

What is hard here: the database, the queue and the node registry are updated by
separate steps of concurrent handlers and one scheduler; every call between
services can be lost in either direction; both kinds of process crash, one with
all its state in memory; timeouts race late answers; a dispatcher must account
for slots and memory while records are replaced under it; and a drain has to end.
The hazards are listed one by one, at their lines, in `PROJECT.json`.

What makes each part correct:

- the platform: an experiment is executed at most once; a confirmed cancellation
  is final; nothing PENDING is forgotten; every result arrives; every experiment
  settles if its run ends;
- dispatcher: slots and memory counted exactly, never overcommitted; a stop
  honoured; every admitted start answered; the drain ends;
- reporter: a persisted result is neither lost nor left lying;
- builds: an answer names what was stored, nothing is acknowledged unanswered, READY
  stands for a binary that is there, an accepted batch is queued, and a batch does not
  say it has ended too early;
- a run: FINISHED means complete, the outcome names its cause, the binary is one that some run
  of the model asked for, and a timeout always ends it;
- runtime: events in time order, an entity in one place, counters and resources that
  balance, nobody waiting for what is free.

## 2. Modules

| module | models | used by |
|---|---|---|
| `DispatcherRegistry` | `dispatcher/registry.go`: each method, a critical section of one mutex, as a function of the registry | `Dispatcher`, `ExperimentLifecycle` |
| `Dispatcher` | `dispatcher/server.go` and the shutdown in `serve.go` | `MCDispatcher`, `DispatcherProofs` |
| `DispatcherProofs` | lemmas on the registry operators, theorems on the dispatcher | |
| `ReporterProofs`, `CodegenWorkerProofs`, `BuildPipelineProofs`, `ModelRunnerProofs` | theorems on the module each is named after | |
| `SimulationProofs` | theorems on the heap of `EventQueue`, and on `Simulation` for every accepted text | `SimulationBalanceProofs` |
| `SimulationBalanceProofs` | theorems on where the entities of `Simulation` are, for the accepted texts without re-entry | |
| `ExperimentLifecycleProofs` | lemmas on queue, node registry and dispatcher registry; theorems on the lifecycle and its contract | |
| `PendingQueue` | `controlplane/pending_queue.go`, as functions of the queue | `ExperimentLifecycle` |
| `NodeRegistry` | `controlplane/node_registry.go`, as functions of the node map | `ExperimentLifecycle` |
| `ExperimentContract` | abstract: what the platform promises for an experiment | `ExperimentLifecycle` |
| `ExperimentLifecycle` | scheduler, handlers, experiments table, dispatchers and journals composed, with faults | `MCExperimentLifecycle`, `ExperimentLifecycleProofs` |
| `Reporter` | `dispatcher/reporter.go` and the file system it writes to | `MCReporter` |
| `BuildService` | abstract: what the control plane may expect of a posted build request | `CodegenWorker` (implements it), `BuildPipeline` (uses it) |
| `CodegenWorker` | the codegen server between the work queue and the artifact store | `MCCodegenWorker` |
| `BuildPipeline` | SubmitExperimentBatch, `codegen_client.go`, batch and artifact rows | `MCBuildPipeline` |
| `ModelProcess` | the program of a run as its two pipes show it (`emit_transport.go`) | `ModelRunner` |
| `ModelCache` | `dispatcher/model_cache.go` for one model, as functions of the cache | `ModelRunner` |
| `ModelRunner` | `dispatcher/run.go`, `model_process.go`, cgroup and trace as far as they decide | `MCModelRunner` |
| `EventQueue` | `codegen/container`: heap and pool, as functions | `Simulation`, `SimulationProofs` |
| `ModelDsl` | Parse and ValidateAndLink: which texts are accepted, and what the emitter gets | `Simulation`, `ExampleModels` |
| `ExampleModels` | the programs of `codegen/example` as model texts | `MCSimulation` |
| `Simulation` | the emitted blocks and the event loop | `MCSimulation`, `SimulationProofs` |
| `MC...` | instances for TLC | |

Names follow the source: an action is named after the method, handler or branch it
stands for, and `PROJECT.json` gives the lines of every definition.  An operator
whose name ends in `_Something` after that of another and whose comment starts
with `Fault:` is a broken variant of the definition below it; no
specification uses it.  Each property is shown to notice one of them.

### Dispatcher

A *run* is one StartExperiment call; `KeyOf` says which experiment it starts, and
several runs may share a key.  `registry` is the Go registry, `handler[run]` the
step of the call (admitted = after TryStart, offering = after SetCancel, in the
select), `context[run]` the run context, `worker[w]` the goroutine,
`phase` the position of runServe.  Each critical section, each channel operation and
each cancellation is a step; the two critical sections of StartExperiment are two
actions, as are SetStatus, executeExperiment, Finish and Submit of the worker.
executeExperiment is reduced to the statuses it can return, given the state of the
run's context when it looks (`RunOutcomes`).

A canceled experiment is not active, so its key may be admitted again while its
worker still unwinds.  The new record replaces the old one, and the old run's Finish
then settles the new record.  Slots survive this: they are counted, not named.
Memory does not always.  TryStart takes the limit from each request (`LimitOf[run]`),
and Finish gives back what the key's record holds, which is the limit of the later run.
When the runs of a key ask for the same memory (`OneLimitPerKey`) too little may be given
back, never too much, and `MemoryNeverOvercommitted` holds under this condition.
Without it the code overcommits: on a node with memory 3, start k with limit 1,
stop it, start k again with limit 2; the first Finish gives back 2, one unit is left
reserved, and another run of 2 is admitted, 4 in all.  The control plane does not do this:
it sends the limit of the experiment's row, or else of its batch, and writes into the row
only the limit that a run of it reported.  Nor does the scheduler restart an experiment
that it has canceled; other callers of the dispatcher API may do both.
`MemoryAccounting` (reserved is exactly the sum of the limits) is stated for runs with
keys of their own.

One timing assumption: a worker that has received a task has set RUNNING before
the drain timeout, which is counted in seconds, is over.

### ExperimentLifecycle

Variables fall into the database (`status`, `nodeOf`), the control plane's memory
(lost in a crash), the dispatchers (registry and runs lost in a crash, the
journal kept) and calls in flight.  The scheduler is one process (`sched`):
records it has popped, the one in hand, the node reserved for it, the outcome of
the call.  `cancel[e]` is the CancelExperiment handler of e, one call for each
experiment.  `run` is history: what became of the execution of e.

Here TryStart and SetCancel are one step, the hand-off includes SetStatus(RUNNING),
and the end of a run includes Finish and a successful Submit; `Dispatcher` and
`Reporter` have these step by step.  The snapshot in a heartbeat is taken when it
is handled.  The grace period is left open: when reconciliation looks, each
orphaned row may or may not have outlived it.  A control plane crash aborts the
reports it was handling.  Batch rows are not here.

Faults are actions with a budget (`MaxFaults`) and a kind: control plane crash, node
crash, a call that gets no answer (lost, or answered after its deadline), a lost
reply to a report, a live node's TTL running out, and a failing SQL statement.
One that fails may have been executed all the same: `ClaimFails`, `RollbackFails` and
`CancelFails` have both outcomes for their UPDATE, and `SubmitFails` is the query of a
submission that fails after its rows are there.

Bootstrap lists at most `BootstrapLimit` rows (10000 in `serve.go`; the oldest first), and
what it leaves out waits for another restart.  `LifecycleFaults` has the limit 1, which its two
rows exceed.  `stranded` is history: the PENDING rows that the control plane has let
go of.  A row joins it in one of four ways, each a place where the code returns
or continues without queueing: the submission's query fails; the UPDATE that rolls a
refused start back is executed but reported as failed, so that RunOnce continues without Enqueue; the
UPDATE of a cancellation fails after the record has left the queue; bootstrap had more
rows than its limit.  It stays there until the control plane is started again.  Bootstrap also looks
at the batch and the artifact of a row; here the batch counts as READY, and
`BuildPipeline` has those rows.

`ExperimentContract` is the promise: PENDING to STARTING and back only while the
experiment has never run, at most one run, CANCELED only for what has never run,
FAILED revisable only by the outcome of the run.  `ExperimentLifecycle` implements
it with the identity as refinement mapping on `status` and `run`.

### Reporter

`submit[x]` is the step of Submit(x); `tmp` and `journal` are the files `f.json.tmp` and
`f.json` of each experiment (`FileOf`); `loop` is the goroutine: scanning, at the next
file, sending, removing, in select.  Cancelling the reporter's context, crash and
start are actions; what has been renamed survives.  `latest` and `tried` are history.

### BuildService, CodegenWorker, BuildPipeline

`BuildService` is the seam: a request is posted once, may be built any number of times,
each good build replaces the stored binary, an answer names a binary that a build of this
very request has stored (or says that it failed), and a request is settled only when
an answer has been sent.  A digest stands for the bytes of a binary: `go build` runs in a
fresh directory without `-trimpath`, so two builds of a model may differ.

`CodegenWorker` has the goroutines: `fetcher` is fetchLoop with the message in hand,
`available` the number of tokens in the channel of that name, `worker[w]` a serveWorker and
the step of its task, `stream[t]` a message of the JetStream work queue
(queued, delivered, acknowledged).  Publishing the reply and acknowledging are two steps, so a
crash may come between them.  `KeepsContract` is the refinement: `request` is mapped from
`stream`, the other variables to themselves.

`BuildPipeline` EXTENDS the contract and adds the callers.  `handler[s]` is the step of a
SubmitExperimentBatch call, one step for each SQL statement or message, with what it holds
of the build's result; `batch`, `artifact` and `experiment` are rows, `queue` the pending queue
with the digest each record carries.  `refresh[e]` is RefreshBatchStatus between its count and
its UPDATE; `polled` a GetExperimentBatch between reading the batch row and listing the
experiments.  What a dispatcher does with an experiment is reduced to STARTING and an end, and
CancelExperiment to one step (`ExperimentLifecycle` has its statements).  A reply that says OK but
names no binary, which SaveCodegenResult turns into a failure, does not occur: `BuildService` sends none.

A submission that finds the artifact READY reuses it, but the row is looked at again when the
batch's experiments are listed, and another submission of the model may have taken it back in between.
`overtaken` is history: the submissions that this has happened to.  A call is overtaken
while it relies on the row (`Relying`: it has seen it READY and has not listed yet); it is no longer
when a good build writes the row READY before it lists; and a bootstrap, which lists
for everybody, decides anew.  `beyondLimit` are the experiments that the last bootstrap left out because of
its limit.  Both are as small as the code allows: a reuse that nobody disturbs is in neither, so
`AcceptedIsQueued` speaks of it.

### ModelProcess, ModelCache, ModelRunner

`stage[r]` is where the worker of run r is in GetOrDownload, RunModelProcess and
executeExperiment; `context[r]` the run's context, `stopped` the records with a stop request,
`unwritten[r]` the commands still to be written, `result[r]` the ExperimentResult as it is
filled in.  `process[r]`, `stdin[r]` and `stdout[r]` are the program and its pipes, which
block when full.  `cache` is an entry and a file: the path is made of the model hash
alone, so there is one file however many builds there have been, and `Rebuild` may replace
the object in the store at any time.  exec.CommandContext's goroutine is the action
`KillOnDone`.  Every early return of RunModelProcess is an action (NoHello, WriteFails, NotReady,
BadLine, EndOfLines ...) and leads through `Waited`, which is finishRunResult with its
order of precedence.

### EventQueue, ModelDsl, ExampleModels, Simulation

A model text is a record of sections already cut into words; `ModelDsl` says which texts are
accepted (`Accepted`) and yields the parsed model, which `program` holds.  `Simulation` starts from an accepted text
and runs the process the emitter would write.  An emitted block function is an
operator `Enter...` from the globals `s` of the process to the set of results
`[ok, s]` it may return with: Go's synchronous calls become nested operators, the rollback of a
refused SEIZE or ASSIGN is part of the caller's operator as it is part of the emitted
function, and each random draw contributes one member of the set.  One action (`Step`) is
one round of run(): pop the earliest event, handle it, sample, apply the stop rule.

The emitted functions call each other, and a text may have them call in circles.  So a block function
takes the function `call` that answers the calls it makes, and `Call` closes the circle level by
level: calls that nest deeper than `MaxDepth` have no answer.  In the run `MaxDepth` is 12, which
leaves out nothing: the run has the same states as with the blocks calling each other without a bound.

## 3. Runs

| run | instance | shows |
|---|---|---|
| `Dispatcher` | 3 runs with keys of their own, memory limits 1, 2 and none on a node with 3, one with a timeout; 2 workers | `MemoryAccounting`, `CancelHonoured`, `NeverOversubscribed`; with fairness `EveryStartAnswered`, `CutShortRunsAreReported`, `ShutdownCompletes` |
| `DispatcherRestart` | 3 runs, two of one key with limit 1 each, the third with 2; memory 2; 2 workers | `SlotAccounting`, `MemoryNeverOvercommitted` |
| `DispatcherStop` | 1 run | the code violates `StopCutsTheRunShort` |
| `LifecycleFaults` | 2 experiments (one malformed), 2 nodes of 1 slot, any 2 faults of all kinds, a bootstrap that lists 1 row | `CancelAnswerIsFinal`, `NoPendingForgotten`, `ContractSpec` |
| `LifecycleDelivery` | 1 experiment, 2 nodes, any 2 faults, fairness | `EveryResultArrives`, `LostNodesAreReconciled` |
| `LifecycleSettles` | 2 experiments, 1 node of 1 slot, lost replies and expiry, fairness | `ReservationsCoverLoad`, `EveryExperimentSettles` |
| `Reporter` | 3 results, 3 files, 2 stops or crashes, fairness | `LatestResultKept`, `NoLostWakeup`, `EveryResultIsDelivered` |
| `ReporterRestart` | 2 results of one file | the code violates `LatestResultKept` |
| `CodegenWorker` | 2 requests, one for a model that does not build; 2 workers, 2 digests, any 3 faults of 8 kinds, fairness | `TokensMatchWorkers`, `KeepsContract`, `EveryTaskSettles` |
| `BuildPipeline` | 2 submissions of one model, batches of 2 and 1 experiments, a failing publish or a crash, a bootstrap that lists 2 of the 3 rows | `ReadyIsBacked`, `AcceptedIsQueued`, `EndedBatchHasEnded` |
| `Simulation` | 9 model texts (two are rejected), draws of 1 to 4 time units, horizon 6, sampling every 2 | `EntityInOnePlace`, `CountersBalance`, `NoLostWake`, `ClockMonotone`, `SampledOncePerStep` |
| `ModelRunner` | 2 runs of one model, the same build or two; pipes of 1 line, at most 2 STAT lines, one fault of 6 kinds, fairness | `FinishedMeansComplete`, `OutcomeNamesItsCause`, `RunsWhatWasAsked`, `EveryRunEnds` |

Why these bounds are enough to be interesting.  Three runs on two workers reach a full
node and a start waiting for a worker; in
`Dispatcher` memory would let all three in, in `DispatcherRestart` it refuses.
Two runs of a key are what record replacement takes, and the third run sees its effect
on the counters.  Two experiments on one slot compete for it; two nodes allow an
experiment to be retried elsewhere while the first call is still under way.  Two
faults allow a fault during the recovery from another (a crash after a lost call, an
expiry after a lost reply).  With three results, two Submits can meet a full signal
channel while the loop has a third file in hand.

In `CodegenWorker` three faults are a redelivery while the first delivery is still in
hand, a crash during the second build, and one call failing on top; two workers may build
one task at once.  In `BuildPipeline` two submissions of one model meet at its artifact row, one
digest is enough because what is compared is presence and origin; the batch of two
has two RefreshBatchStatus calls that can overlap.  In `ModelRunner` a pipe of one line fills up at
once, so both sides block; two runs are what sharing a path takes, and the second has no
timeout, so it may hold on for ever.  In `Simulation` the texts are chosen for what each
reaches: `mm1` and `pm` are the repository's own examples (`pm` has rework into a
queue, with one round of rework instead of three), `workshop` queue timeouts,
overflow and batches, `docks` one resource behind two queues, `unlisted` the same with a SEIZE
the resource does not list (rejected), `walkin` rollback of SEIZE and ASSIGN in
front of a delay that may be full, `strict` and `tandem` the ways a run stops by itself, among them an
expression that reads an entity of another type, `twice` a parameter
given twice (rejected).  The delays of `walkin` and `strict` have a capacity that comes to 1 or 2, the queue
of `tandem` one that comes to 0 or 2, so each may be found to hold more than its capacity now is;
the batch of `strict` comes to 1 or 2, and `tandem` assigns one of two values.  A horizon of 6 lets the heap hold four events and more and the
clock pass two sample points in one step.  Every action of each module fires in one of the runs.

### Fairness

- `Dispatcher`: runnable goroutines run.  A model left alone need not end; one whose
  context ended has been killed and returns.  A caller's context ends: the control plane
  puts a deadline on every call.  The latter is used only after SIGTERM;
  `EveryStartAnswered` does not need it.
- `ExperimentLifecycle`: the scheduler takes its steps, and Go's select chooses at random among
  its tickers, so neither pass starves (strong fairness of PopBatch and
  ReadActiveNodes).  The grace period of an orphan runs out.  A crashed control plane is
  restarted (`restart: unless-stopped` in `docker-compose.yaml`); a crashed dispatcher
  need not be.  Heartbeats and reports are sent while both sides are up.  Runs are not
  assumed to end; `EveryExperimentSettles` has that as its premise.
- `Reporter`: select is fair among its channels, a send ends (it has a timeout), a stopped
  process is started again, and a result sent again and again is answered in the end.
- `CodegenWorker`: the fetch loop, the workers and the end of a drain run, and Go's select lets a
  done context win in the end (strong fairness of LeaveLoop).  JetStream delivers an
  unacknowledged message again when nobody has it in hand (AckWait).  A crashed server is restarted
  by its container; one that was stopped need not be, which is why
  `EveryTaskSettles` excepts it.
- `ModelRunner`: workers are scheduled, calls to store and disk return, timers fire and a kill
  arrives.  The program is not fair at all: it may hang, stop reading, or never end.
- `BuildPipeline` and `Simulation` state no fairness and no liveness.

### Where the code disagrees with what it says

`DispatcherStop`: a stop acknowledged with "experiment cancellation requested" between
TryStart and SetCancel finds no cancel function; RUNNING then overwrites CANCELED
and the model runs on.  `CancelHonoured` still holds (whatever the run comes to is
reported as CANCELED unless it FINISHED), and so does `ShutdownCompletes`, because the
drain cancels it a second time.

`ReporterRestart`: the journal is called persistent, but a file is removed by name after
what was read from it has been sent; a newer result of the same experiment renamed onto
it meanwhile is removed unsent.  With keys of their own, results are safe (`Reporter`).

Left to the code as it is, and named in the hazards: rows that stay STARTING on a live
node (a control plane crash between the UPDATE and the call, a lost call, a failed
rollback, a dispatcher that restarts within its TTL), reservations kept by calls that
never arrived, and a stop acknowledged for a start that is then given up and queued again.
The properties say precisely what is promised instead: `LostNodesAreReconciled` speaks
of nodes that stay away, and `EveryExperimentSettles` is checked for the faults that
the code recovers from.

## 4. Proofs

Eight of the modules are proofs.  Each theorem holds for every value of the constants that the
named assumptions allow: any finite sets of runs, workers, tasks, results, files and
experiments, any pipe size, limits, settings and bounds on faults.  Each main module has one
inductive invariant `IInv`, a theorem `Invariance` that it holds, lemmas that take it
through the actions one by one, and the properties as consequences.  Every invariant was
first checked by TLC on the instance of its run.

**Dispatcher** (`DispatcherProofs`).  `TypeCorrect`; `SlotsAreAccounted`:
usedSlots is the number of admitted, unfinished runs; `NeverTooManyRuns`: never more of them than
workers; `MemoryIsNeverOvercommitted`: when the runs of a key ask for the same memory (`OneLimitPerKey`),
the limits of the runs in progress fit into the node's memory; `MemoryIsAccounted` and `StopsAreHonoured` for runs that do not share a key
(`StartedOnce`, what the scheduler guarantees; with shared keys both are false, see above).
`SlotAccounting` is not inductive.  Finish takes one slot off, but never below zero, and it
does so only for a record that exists; and when a worker finishes its run the set of
slot holders must really shrink, so no other worker and no handler may hold the same run.
`IInv` therefore adds that a busy worker has a run whose call was accepted, that no two busy
workers share a run, that what was reported was accepted, and that slots stay below their
bound.  Its first half says what each registry operator does to the
counters, to other records and to types, so that no step of the main proof opens the registry.
The memory theorems need in addition that each holder's record still has its reservation;
the sum of the limits of a set is taken apart by induction over finite sets.
For `CancelHonoured`, `StopsAreKept` says that the record of a run that has been finished or
reported can no longer be canceled, and that a stop on it goes with CANCELED or FINISHED; it is
inductive because, when no key is started twice, no step touches the record of a run that is
done (`DoneRecordsStay`).

**Reporter** (`ReporterProofs`).  `TypeCorrect`; `NoWakeupIsLost`: while the goroutine sleeps, a
result in the journal that it has never sent has its signal pending; `LatestIsKept`: the latest
result of an experiment is in the journal until the control plane has it, for results with
files of their own (`OneFileEach`; two results of one experiment replace each other's file).
`NoLostWakeup` speaks of the sleeping goroutine only, so it is not inductive: `NothingOverlooked`
says for every step that such a result has its signal pending, or a scan about to begin, or its
file on the list of the scan under way.  `FilesAreNamed`, `ScanIsGood` and `HandIsGood` say what
the files, the list and the goroutine's hand hold while submitters rename files under it.

**Codegen worker** (`CodegenWorkerProofs`).  `TypeCorrect`; `TokensAreExact`: the free tokens and the
one in the fetcher's hand are the idle workers; `ServerKeepsContract`: every step of the server is
a step or a stutter of `BuildService`, the specification `BuildPipeline` relies on.  The
invariant says that what the fetcher and the workers hold are requests, and what each step of
a worker has from the steps before it: the binary it announces is stored, and the request it
acknowledges is answered; without it an acknowledgement might settle a request whose answer
was never sent.

**Build pipeline** (`BuildPipelineProofs`).  `TypeCorrect`; `ReadyMeansBuilt`: a READY artifact row has
a binary behind it; `AcceptedAreQueued`: the experiments of an accepted batch are in the queue or
further, whether it built the model or reused it, but for the `overtaken` calls and the rows `beyondLimit`
of bootstrap; `EndedBatchesHaveEnded`: a batch row that has ended has only ended experiments.
The three are proved together: each call is related to what it has already written (its batch
row, its rows of experiments, the artifact row it read), no two calls work on one batch,
and a batch status computed from counts is written at a time when the counts can no longer
grow back.  One assumption was added for it, `NotQueued \notin Digests`: the mark for
"not in the queue" is no digest (a digest is 64 hexadecimal digits).

**Model runner** (`ModelRunnerProofs`).  `TypeCorrect`; `FinishedIsComplete`: a FINISHED result is the
whole experiment, every setting accepted, every line counted and stored; `OutcomesNameTheirCause`;
`RunsAreAsAsked`: the binary that runs was asked for.  The invariant is a predicate of one
run's values (`Good`): where its program can be at each stage of its worker, what is in the two
pipes, and that the STAT lines counted and the STAT lines in the pipe add up to those written.
The key to `FinishedIsComplete` is `InStep`: after a command that was rejected the next line the
worker finds is the ERR, although the program goes on and answers READY; and after the END only
a torn line can follow.  Since `Good` mentions one run only, a step of a run is proved from
lemmas without variables about the values it changes, and the other runs by one frame lemma.

**Experiment lifecycle** (`ExperimentLifecycleProofs`).  Five results for any
experiments, nodes, slots and numbers of faults of all kinds:

- `ContractIsKept`: the scheduler, the table, the dispatchers and the calls between them, with
  everything that may fail, implement `ExperimentContract`, so an experiment is executed at most once;
- `CancellationsAreFinal` and `TypeCorrect`;
- `NothingPendingIsForgotten`: a PENDING row is queued, popped or with its cancellation, unless it was let
  go of in one of the four ways listed above (`stranded`);
- `LoadIsCovered`: while nothing has failed, the promises made by PickAndReserve cover the slots in
  use on each dispatcher, and no start is refused for want of one.

None of the properties is inductive, since each speaks of one component and is kept by
another.  That a row goes back to PENDING only for what has never run depends on the call
that was refused being the only one; that it was depends on the row, which only the scheduler
claims.  `IInv` says so from each side:

| part of `IInv` | says | needed because |
|---|---|---|
| `OnePlace` | an experiment is in one call, or with one handler, or has been launched once, and a journal holds what came of that | a second call under way would run it twice; the result of a report is the outcome of the run |
| `RowsAreGood` | a PENDING row has been asked of nobody; the row of one that has is STARTING, FAILED, or the outcome of its run | a claim, a cancellation and a revision by a late result each look at the row alone |
| `SchedIsGood` | what the scheduler has in hand has the row it claimed, and no other node has been asked | `MarkExperimentPending` and `MarkExperimentFailedToStart` write the row long after it was claimed |
| `ReportsAreGood` | a reporter has in hand what its journal holds | a crash of the control plane, or of the node, comes between sending and removing |
| `StopsAreGood` | a stop goes to a node | the row is read one step earlier |
| `CancelAnswerIsFinal`, `NoPendingForgotten` | the properties | |

The contract follows from `IInv` with the identity as refinement mapping: the rows and runs change in
ten kinds of steps, and a lemma for each kind (`SchedulerKeepsPromise`, `CancelKeepsPromise`,
`RunsKeepPromise`, `ResultSettles`, `NodesKeepPromise`) names the action of the contract it is.

`LoadIsCovered` has a second invariant on top of it, `LoadInv`.  `RegistriesAreGood` counts, whether or
not there are faults: the used slots of a dispatcher are the experiments its handlers and workers hold.
`NothingLost` says that before the first fault everyone is up and known (`Alive`), the call the
scheduler waits for is the only one (`OneCall`), and the promises of a node are at least what it
is asked to run, is running, or has in its journal (`Covered`).  Between PickAndReserve and the
claim a promise belongs to no row (`Claiming`), and it outlives the run until the report is
acknowledged, which the count of used slots does not show.

The lemmas say what these proofs need of the operators: that Enqueue, EnqueueMany,
PopBatch and Remove keep the index the set of the items (`GoodQueue`), and what each does to that
set; what picking, reserving, releasing, expiry and eviction do to a node's record; and the same for
the dispatcher's registry.  EnqueueMany and Remove
are written with `FoldLeft`, which the library defines by a function on the sets of places of a sequence;
the lemmas show that there is one such function and follow it place by place.

**Simulation** (`SimulationProofs`), for every text the front end accepts, every horizon and sampling step, and
calls that nest to any depth:

- `PushFacts`, `PoppedFacts`, `HeadIsEarliest`: Push and Pop of the 4-ary heap of `event_queue.go`, whose
  siftDown looks at a family of up to four children, keep the heap, add or take off the one event,
  lose and duplicate none, and the head is the earliest;
- `TypeCorrect`: the globals of the process have their types at all times; every index in a queue, on a free list or
  in an event is one of the pool; what a queue or delay holds fits a value that its capacity may come to
  (the capacity itself where that is a literal), and no resource is used past its capacity;
- `ClockNeverBack` and `SampledOnce`: model time never runs backwards, and a STAT line is written
  once for every step in which a sample point is reached.

The invariant is `Good`, a predicate of the globals.  What the proof needs is that it holds again
whenever a block function returns, and `Same` what a call may not change at all.  The functions call
each other in any order, so this is an induction on how deep the calls nest: `BlockKeeps` says that a block function
keeps the invariant if every call it makes does, for the seven kinds of blocks one by one, and
`CallAnswers` closes the circle.  A block function looks at its globals again after a call it made has changed
them, and nothing but `Good` is known of them then.

`ClockNeverBack` and `SampledOnce` are for texts that satisfy `Forward`: no time they draw is negative.  The
front end does not reject a negative duration; such an event is earlier than the clock, and one at
-1 ends the run (`NoTime`).  All texts of the run satisfy it.

**Where the entities are** (`SimulationBalanceProofs`).  `OnePlaceEach` (the invariant `EntityInOnePlace`) and
`BooksBalance` (`CountersBalance`) are for accepted texts that satisfy `NoReentry`: no queue is advanced again
while its head is on its way to the next block.  `Entered(b)` is the set of blocks that may be entered before
the function of block b returns, the least one that contains b and is closed under the calls of the emitted
functions, the wakes of a RELEASE among them; `NoReentry` says that no queue is in `Entered` of its
own next block.  It is a condition on the text alone, and all accepted texts of the run satisfy it.
Without it both invariants fail, for the code as for the model: a head is deleted from its queue only after
its next block has taken it, so where the wake in a RELEASE reaches the queue whose head is on its way
through that RELEASE (QUEUE, SEIZE that waits in this queue, RELEASE, and a block that takes entities at
once), the same head is sent on a second time.

The invariant is `BalInv`: on top of `Good`, a run that goes on is `Settled` between two handlers.  Settled
means that every entity of a pool is in one place (`Places`: the slots, the services and the free list together),
and that the books of every block and resource differ by nothing (`Debt`, `Unheld`, `UseDebt`).  Within a handler
none of this holds: a block function is called with an entity that is in no place, and every step of it
moves one place or one counter.  So the proof keeps account of differences.  `Ledger(s, t, ref, n)` says that
from s to t entity ref has come to n more places and all else is even, `Steady` that nobody has moved.
`Moved` is what a call that leaves the run going does: it takes its entity to one more place and answers yes, or moves
nobody and answers no, and it touches only the queues in `Entered`.  As before this is proved of each kind of
block under the assumption that it holds of the calls (`Advances`), and then by induction on their depth.
`NoReentry` is needed at one point: after the next block has taken the head of a queue, that head is still at
the front, and what is deleted is what was sent on (`DeletedLedger`).  A handler starts with its entity one place
short (`Off`) and settles it.  When a call stops the run nothing more is claimed, as in the code, where the state
is not looked at again.

Only model-checked: all liveness properties (the prover has neither fairness nor `ENABLED`), and
`NoLostWake` of `Simulation` (nobody waits in a queue for a block that has room, whatever its
capacity comes to).  That one does not hold of every accepted text: with a unit free, the head of a queue
may still be refused by a full delay behind the SEIZE it waits for.

## 5. Not modelled

- Random numbers: floating point; a draw is a choice among the outcomes that matter.
- Expressions: typing, literals, casts and the arithmetic that `emit_expr.go` emits.  An expression
  (an interval, a batch, a capacity, a duration, a timeout, an assigned value, one side of a condition)
  is the set of values it may come to and the entity type it reads.  The emitted code evaluates it anew at each
  call, and it may read variables, metrics or draws; in the model each call takes any member of the set.
  This covers every expression: the set may hold all values that it takes in a run, whatever an
  ASSIGN does in between, also those of a capacity that falls below what its block holds.
  What follows from two evaluations agreeing is not claimed.  The emitter refuses an assignment whose target
  and value belong to two entity types; the model accepts it and skips it when it is reached.
- The text level of the DSL: scanning, spelling, the hash, line numbers of errors.
- The web API (a stateless translation), the provisioner (a log line), the read calls of
  the control plane, generated protobuf code.
- Which variable or metric a SET or METRIC command may name; a command is accepted, rejected
  or not understood.
- Power failures and disk errors in the reporter.  Integer widths: slots and bytes stay far
  from 2^63, which the database's signed columns enforce.
- Several CancelExperiment calls for one experiment, and several model hashes in one cache
  (the entries are independent but for the mutex, and `Unlock` is modelled).

Named in the hazards but left to the code as it is: a batch may stay RUNNING after its last
experiment has ended, when the RefreshBatchStatus that counted first writes last; a
submission may take the artifact row of a model back to BUILDING or FAILED under another one that has
just found it READY, whose experiments are then not queued until a restart finds the row READY
(`overtaken`); rows that a bootstrap leaves out, and rows let go of by a failing statement, wait for
another restart (`beyondLimit`, `stranded`).  `AcceptedIsQueued` and `NoPendingForgotten` except these
cases and no others.  The fetch loop of the codegen server would also leave on a fetch that fails with a
context error; fetchOne has no context, and a stop makes the loop leave in the model.

## 6. Plan

What the project has left, in this order:

1. `NoLostWake` of `Simulation` as a theorem, for the texts in which a SEIZE is followed by blocks that
   always take the entity.
2. Liveness of submissions: every SubmitExperimentBatch is answered within its deadline.
