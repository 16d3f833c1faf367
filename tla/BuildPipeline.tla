---------------------------- MODULE BuildPipeline ----------------------------
(***************************************************************************)
(* From a submitted batch to queued experiments: the SubmitExperimentBatch *)
(* handler (controlplane/submit.go), the build request it sends            *)
(* (codegen_client.go) and the rows it writes (repository.go).  The queue  *)
(* and the server that answer the request are what BuildService promises,  *)
(* and CodegenWorker is checked to keep.                                   *)
(*                                                                         *)
(* A submission is one call of the handler and, when it needs a build, one *)
(* request to codegen; handlers run concurrently, a step is one SQL        *)
(* statement or transaction, or one message.  What happens to an           *)
(* experiment in the queue is ExperimentLifecycle; here it is started, it  *)
(* ends or it is canceled, and each of the latter two refreshes its batch. *)
(***************************************************************************)
EXTENDS BuildService

Submissions == Tasks

CONSTANTS
    Batches,
    BatchOf,        \* BatchOf[s]: the batch_id of a submission (a client may send one twice)
    Experiments,
    Batch,          \* Batch[e]: the batch of an experiment
    BootstrapLimit, \* how many rows bootstrap lists at most (10000 in runServe)
    Faults,         \* the kinds of fault that may happen
    MaxFaults       \* bound: how many of them happen

Of(b) == {e \in Experiments : Batch[e] = b}

NotQueued == "not queued"

ASSUME PipelineAssumption ==
    /\ BatchOf \in [Submissions -> Batches]
    /\ Batch \in [Experiments -> Batches] /\ \A b \in Batches : Of(b) # {}
    /\ BootstrapLimit \in Nat \ {0}
    /\ Faults \subseteq {"publish_error", "control_plane_crash"} /\ MaxFaults \in Nat
    /\ \A s, t \in Submissions : BatchOf[s] = BatchOf[t] => ModelOf[s] = ModelOf[t]
    /\ NotQueued \notin Digests

VARIABLES
    cpUp,
    handler,        \* handler[s]: the step of the call, and the build result it holds
    queue,          \* queue[e]: the digest in the queued record of e
    polled,         \* the GetExperimentBatch calls that have read the row of an ended batch
    refresh,        \* refresh[e]: RefreshBatchStatus after e changed
    batch,          \* PostgreSQL: the status of each batch,
    artifact,       \* ... the artifact row of each model,
    experiment,     \* ... and the status of each experiment
    overtaken,      \* history: the submissions whose READY row another one has taken back,
    beyondLimit,    \* ... and the experiments that the last bootstrap has left out
    faults

db == <<batch, artifact, experiment>>
history == <<overtaken, beyondLimit>>
controlPlane == <<cpUp, handler, queue, polled, refresh, history>>
vars == <<service, faults, controlPlane, db>>

NoStatus == "none"
Ended == {"FINISHED", "FAILED", "CANCELED"}
BatchStatuses == {"SUBMITTED", "BUILDING", "READY", "RUNNING"} \cup Ended

\* The steps of a call, and what it comes to.
Steps == {"create", "check", "mark", "building", "request", "await", "requestFailed", "save",
          "failed", "built", "ready", "list"}
Outcomes == {"accepted", "notAccepted", "error"}

NoArtifact == [status |-> NoStatus, binary |-> NoDigest]

TypeOK ==
    /\ ServiceTypeOK /\ faults \in 0..MaxFaults
    /\ cpUp \in BOOLEAN
    /\ handler \in [Submissions -> [at : {"new"} \cup Steps \cup Outcomes, result : Results]]
    /\ polled \subseteq Batches
    /\ overtaken \subseteq Submissions /\ beyondLimit \subseteq Experiments
    /\ queue \in [Experiments -> Digests \cup {NotQueued}]
    /\ refresh \in [Experiments -> BatchStatuses \cup {"none", "count"}]
    /\ batch \in [Batches -> BatchStatuses \cup {NoStatus}]
    /\ artifact \in [Models -> [status : {NoStatus, "BUILDING", "READY", "FAILED"},
                                binary : Digests \cup {NoDigest}]]
    /\ experiment \in [Experiments -> {NoStatus, "PENDING", "STARTING"} \cup Ended]

Init ==
    /\ ServiceInit /\ faults = 0
    /\ cpUp = TRUE
    /\ handler = [s \in Submissions |-> [at |-> "new", result |-> NoResult]]
    /\ polled = {} /\ overtaken = {} /\ beyondLimit = {}
    /\ queue = [e \in Experiments |-> NotQueued]
    /\ refresh = [e \in Experiments |-> "none"]
    /\ batch = [b \in Batches |-> NoStatus]
    /\ artifact = [m \in Models |-> NoArtifact]
    /\ experiment = [e \in Experiments |-> NoStatus]

-----------------------------------------------------------------------------
(* The handler. *)

At(s, step) == cpUp /\ handler[s].at = step

Goto(s, step) == handler' = [handler EXCEPT ![s].at = step]

Fault(kind) == kind \in Faults /\ faults < MaxFaults /\ faults' = faults + 1

CallOnly == UNCHANGED <<faults, cpUp, polled, refresh>>
HandlerOnly == CallOnly /\ UNCHANGED history
\* The build request as it was: posted or not, answered or not.
NoAnswer == UNCHANGED <<request, made, object, answered>>

\* normalizeSubmitRequest, which may refuse the request
Receive(s) ==
    /\ At(s, "new")
    /\ Goto(s, "create") \/ Goto(s, "error")
    /\ HandlerOnly /\ UNCHANGED <<service, queue, db>>

\* One transaction: the batch, SUBMITTED, and its experiments, PENDING.  A batch_id that
\* exists violates the primary key and rolls it back.
CreateExperimentBatch(s) == LET b == BatchOf[s] IN
    /\ At(s, "create")
    /\ IF batch[b] # NoStatus
       THEN Goto(s, "error") /\ UNCHANGED <<batch, experiment>>
       ELSE /\ Goto(s, "check")
            /\ batch' = [batch EXCEPT ![b] = "SUBMITTED"]
            /\ experiment' = [e \in Experiments |-> IF e \in Of(b) THEN "PENDING" ELSE experiment[e]]
    /\ HandlerOnly /\ UNCHANGED <<service, queue, artifact>>

IsReady(m) == artifact[m].status = "READY" /\ artifact[m].binary # NoDigest

GetReadyModelArtifact(s) ==
    /\ At(s, "check")
    /\ Goto(s, IF IsReady(ModelOf[s]) THEN "ready" ELSE "mark")
    /\ HandlerOnly /\ UNCHANGED <<service, queue, db>>

\* The calls that have seen the row of m READY and have not listed their experiments yet.
Relying(m) == {s \in Submissions : ModelOf[s] = m /\ handler[s].at \in {"ready", "built", "list"}}

\* The upsert takes the row to BUILDING whatever it says, and keeps its keys.
MarkModelArtifactBuilding(s) ==
    /\ At(s, "mark")
    /\ artifact' = [artifact EXCEPT ![ModelOf[s]].status = "BUILDING"]
    /\ Goto(s, "building")
    /\ overtaken' = overtaken \cup Relying(ModelOf[s])
    /\ CallOnly /\ UNCHANGED <<service, queue, beyondLimit, batch, experiment>>

UpdateBatchStatus(s, from, status, to) ==
    /\ At(s, from)
    /\ batch' = [batch EXCEPT ![BatchOf[s]] = status]
    /\ Goto(s, to)
    /\ HandlerOnly /\ UNCHANGED <<service, queue, artifact, experiment>>

-----------------------------------------------------------------------------
(* BuildModel: subscribe, publish the task, wait for the reply or the deadline. *)

\* A publish that fails may have reached the stream.
Request(s) ==
    /\ At(s, "request")
    /\ \/ Post(s) /\ Subscribe(s) /\ Goto(s, "await") /\ UNCHANGED faults
       \/ /\ Fault("publish_error")
          /\ (Post(s) /\ UNCHANGED subscribed) \/ UNCHANGED service
          /\ Goto(s, "requestFailed")
    /\ UNCHANGED <<cpUp, queue, polled, refresh, history, db>>

ReceiveReply(s) ==
    /\ At(s, "await") /\ inbox[s] # NoResult
    /\ handler' = [handler EXCEPT ![s] = [at |-> "save", result |-> inbox[s]]]
    /\ Unsubscribe(s) /\ NoAnswer
    /\ HandlerOnly /\ UNCHANGED <<queue, db>>

\* The request timeout (180 seconds by default) is over.
RequestTimeout(s) ==
    /\ At(s, "await")
    /\ Goto(s, "requestFailed")
    /\ Unsubscribe(s) /\ NoAnswer
    /\ HandlerOnly /\ UNCHANGED <<queue, db>>

-----------------------------------------------------------------------------
(* buildModelArtifact after the reply, and the queue. *)

\* A result that is not READY takes the row back from the calls that rely on it, one that
\* is gives it back.
Overtake(s, ok) == LET relying == Relying(ModelOf[s]) IN
    overtaken' = IF ok THEN overtaken \ relying ELSE overtaken \cup relying

\* Fault: the row is READY whether or not the build succeeded.
SaveCodegenResult_AlwaysReady(s) == LET r == handler[s].result IN
    /\ At(s, "save")
    /\ artifact' = [artifact EXCEPT ![ModelOf[s]] = [status |-> "READY", binary |-> r.binary]]
    /\ handler' = [handler EXCEPT ![s] = [at |-> "built", result |-> NoResult]]
    /\ Overtake(s, TRUE)
    /\ CallOnly /\ UNCHANGED <<service, queue, beyondLimit, batch, experiment>>

\* The upsert overwrites the row, keys included, by what this build came to.  (A result
\* that is OK has a binary, by BuildService: one without would leave the row READY and
\* without keys, and take the batch to FAILED.)
SaveCodegenResult(s) == LET r == handler[s].result IN
    /\ At(s, "save")
    /\ artifact' = [artifact EXCEPT ![ModelOf[s]] =
                      [status |-> IF r.ok THEN "READY" ELSE "FAILED", binary |-> r.binary]]
    /\ handler' = [handler EXCEPT ![s] = [at |-> IF r.ok THEN "built" ELSE "failed",
                                         result |-> NoResult]]
    /\ Overtake(s, r.ok)
    /\ CallOnly /\ UNCHANGED <<service, queue, beyondLimit, batch, experiment>>

MarkBuilding(s) == UpdateBatchStatus(s, "building", "BUILDING", "request")
RequestFailed(s) == UpdateBatchStatus(s, "requestFailed", "FAILED", "notAccepted")
BuildFailed(s) == UpdateBatchStatus(s, "failed", "FAILED", "notAccepted")

Schedulable(b) ==
    IF batch[b] \in {"READY", "RUNNING"}
    THEN {e \in Of(b) : experiment[e] = "PENDING"
                        /\ \A s \in Submissions : BatchOf[s] = b => IsReady(ModelOf[s])}
    ELSE {}

BinaryOf(e) ==
    LET s == CHOOSE x \in Submissions : BatchOf[x] = Batch[e] IN artifact[ModelOf[s]].binary

\* A key that is queued already stays as it is.
Enqueue(records) ==
    queue' = [e \in Experiments |->
                IF e \in records /\ queue[e] = NotQueued THEN BinaryOf(e) ELSE queue[e]]

BuildReady(s) == UpdateBatchStatus(s, "built", "READY", "list")

\* Fault: the experiments are listed and queued before the batch row says READY.
ReuseArtifact_ListedFirst(s) ==
    /\ At(s, "ready")
    /\ Enqueue(Schedulable(BatchOf[s]))
    /\ batch' = [batch EXCEPT ![BatchOf[s]] = "READY"]
    /\ Goto(s, "accepted")
    /\ HandlerOnly /\ UNCHANGED <<service, artifact, experiment>>

ReuseArtifact(s) == UpdateBatchStatus(s, "ready", "READY", "list")

ListAndEnqueue(s) ==
    /\ At(s, "list")
    /\ Enqueue(Schedulable(BatchOf[s]))
    /\ Goto(s, "accepted")
    /\ HandlerOnly /\ UNCHANGED <<service, db>>

\* The caller hangs up, for the web API after 10 seconds by default: every call made with
\* its context fails from here on, the statement that would mark the batch FAILED too.
CallerGone(s) ==
    /\ cpUp /\ handler[s].at \in Steps
    /\ handler' = [handler EXCEPT ![s] = [at |-> "error", result |-> NoResult]]
    /\ Unsubscribe(s) /\ NoAnswer
    /\ HandlerOnly /\ UNCHANGED <<queue, db>>

Handler(s) ==
    \/ Receive(s) \/ CreateExperimentBatch(s) \/ GetReadyModelArtifact(s)
    \/ MarkModelArtifactBuilding(s) \/ MarkBuilding(s) \/ Request(s) \/ ReceiveReply(s)
    \/ RequestTimeout(s) \/ RequestFailed(s) \/ SaveCodegenResult(s) \/ BuildFailed(s)
    \/ BuildReady(s) \/ ReuseArtifact(s) \/ ListAndEnqueue(s)

-----------------------------------------------------------------------------
(* The experiments: started from the queue, ended by a report, or canceled. *)

ExperimentsOnly == UNCHANGED <<service, faults, cpUp, handler, polled, history, artifact>>

StartExperiment(e) ==
    /\ cpUp /\ queue[e] # NotQueued
    /\ queue' = [queue EXCEPT ![e] = NotQueued]
    /\ experiment' = [experiment EXCEPT ![e] = IF @ = "PENDING" THEN "STARTING" ELSE @]
    /\ ExperimentsOnly /\ UNCHANGED <<refresh, batch>>

EndExperiment(e) ==
    /\ cpUp /\ experiment[e] = "STARTING" /\ refresh[e] = "none"
    /\ \E status \in Ended : experiment' = [experiment EXCEPT ![e] = status]
    /\ refresh' = [refresh EXCEPT ![e] = "count"]
    /\ ExperimentsOnly /\ UNCHANGED <<queue, batch>>

\* As one step: ExperimentLifecycle has its statements one by one, and those that fail.
CancelExperiment(e) ==
    /\ cpUp /\ experiment[e] = "PENDING" /\ refresh[e] = "none"
    /\ experiment' = [experiment EXCEPT ![e] = "CANCELED"]
    /\ queue' = [queue EXCEPT ![e] = NotQueued]
    /\ refresh' = [refresh EXCEPT ![e] = "count"]
    /\ ExperimentsOnly /\ UNCHANGED batch

\* Fault: the batch takes the status of an experiment.
CountedStatus_OfOne(b) == experiment[CHOOSE e \in Of(b) : experiment[e] \notin {NoStatus}]

\* Fault: STARTING experiments are not counted as pending, and nothing compares with the total.
CountedStatus_StartingMissed(b) ==
    LET has(status) == \E e \in Of(b) : experiment[e] = status
    IN IF has("PENDING") THEN "RUNNING"
       ELSE IF has("FAILED") THEN "FAILED"
       ELSE IF has("CANCELED") THEN "CANCELED" ELSE "FINISHED"

CountedStatus(b) ==
    LET has(status) == \E e \in Of(b) : experiment[e] = status
    IN IF \E e \in Of(b) : experiment[e] \notin Ended THEN "RUNNING"
       ELSE IF has("FAILED") THEN "FAILED"
       ELSE IF has("CANCELED") THEN "CANCELED" ELSE "FINISHED"

\* RefreshBatchStatus: one statement counts, a second one writes.
RefreshCount(e) ==
    /\ cpUp /\ refresh[e] = "count"
    /\ refresh' = [refresh EXCEPT ![e] = CountedStatus(Batch[e])]
    /\ ExperimentsOnly /\ UNCHANGED <<queue, batch, experiment>>

RefreshWrite(e) ==
    /\ cpUp /\ refresh[e] \in BatchStatuses
    /\ batch' = [batch EXCEPT ![Batch[e]] = refresh[e]]
    /\ refresh' = [refresh EXCEPT ![e] = "none"]
    /\ ExperimentsOnly /\ UNCHANGED <<queue, experiment>>

Experiment(e) == EndExperiment(e) \/ CancelExperiment(e) \/ RefreshCount(e) \/ RefreshWrite(e)

-----------------------------------------------------------------------------
(* GetExperimentBatch: a statement reads the row, the next one the experiments.  An answer
   that says SUBMITTED, READY or RUNNING promises nothing and is not followed. *)

PollOnly == UNCHANGED <<service, faults, cpUp, handler, queue, refresh, history, db>>

ReadBatchRow(b) ==
    /\ cpUp /\ batch[b] \in {"FINISHED", "CANCELED"}
    /\ polled' = polled \cup {b} /\ PollOnly

ListExperimentsByBatch(b) == b \in polled /\ polled' = polled \ {b} /\ PollOnly

GetExperimentBatch(b) == ReadBatchRow(b) \/ ListExperimentsByBatch(b)

-----------------------------------------------------------------------------
(* The control plane crashes; bootstrap queues what is schedulable. *)

ControlPlaneCrash ==
    /\ cpUp /\ Fault("control_plane_crash")
    /\ cpUp' = FALSE
    /\ handler' = [s \in Submissions |->
                     IF handler[s].at \in Steps THEN [at |-> "error", result |-> NoResult]
                     ELSE handler[s]]
    /\ queue' = [e \in Experiments |-> NotQueued]
    /\ refresh' = [e \in Experiments |-> "none"] /\ polled' = {}
    /\ subscribed' = {} /\ inbox' = [s \in Submissions |-> NoResult]
    /\ overtaken' = {} /\ beyondLimit' = {}
    /\ NoAnswer /\ UNCHANGED db

\* What bootstrap may list: all that is schedulable, or BootstrapLimit of it (the oldest,
\* which is left open).
Listings(all) == {listed \in SUBSET all : IF Cardinality(all) <= BootstrapLimit
                                          THEN listed = all
                                          ELSE Cardinality(listed) = BootstrapLimit}

ControlPlaneStart == LET all == UNION {Schedulable(b) : b \in Batches} IN
    /\ ~cpUp /\ cpUp' = TRUE
    /\ \E listed \in Listings(all) : Enqueue(listed) /\ beyondLimit' = all \ listed
    /\ overtaken' = {s \in Submissions : handler[s].at = "accepted" /\ ~IsReady(ModelOf[s])}
    /\ UNCHANGED <<service, faults, handler, polled, refresh, db>>

\* What the control plane can tell of BuildService: when a request is settled makes no
\* difference to it.
Codegen(t) == Produce(t) \/ (Answer(t) /\ UNCHANGED answered)

Next ==
    \/ \E t \in Tasks : Codegen(t) /\ UNCHANGED <<faults, controlPlane, db>>
    \/ \E s \in Submissions : Handler(s) \/ CallerGone(s)
    \/ \E e \in Experiments : StartExperiment(e) \/ Experiment(e)
    \/ \E b \in Batches : GetExperimentBatch(b)
    \/ ControlPlaneCrash \/ ControlPlaneStart

Spec == Init /\ [][Next]_vars

-----------------------------------------------------------------------------
(* A row or a batch that says READY stands for a binary that is there: the digest of the
   row is one that a build of this model has stored, and a batch is READY only when there
   is an object under the key (SaveCodegenResult after processTask, whatever fails, is
   built twice or comes late).  After two builds that differ, row and object may. *)
ReadyIsBacked ==
    /\ \A m \in Models :
          artifact[m].status = "READY" =>
            \E t \in Tasks : ModelOf[t] = m /\ artifact[m].binary \in made[t]
    /\ \A s \in Submissions : batch[BatchOf[s]] = "READY" => object[ModelOf[s]] # NoDigest

(* A batch that was answered READY has its experiments in the queue (ListAndEnqueue, and
   bootstrap after a crash), whether it built the model or reused it, except in two cases.
   Another submission took the artifact row back (to BUILDING, or to FAILED by a build of
   its own) after this one had seen it READY, and the list of this one, or the bootstrap
   of a later start, found it so; or that bootstrap listed BootstrapLimit other rows. *)
AcceptedIsQueued ==
    cpUp => \A s \in Submissions \ overtaken :
        handler[s].at = "accepted" =>
            \A e \in Of(BatchOf[s]) \ beyondLimit : experiment[e] = "PENDING" => queue[e] # NotQueued

(* A batch that says FINISHED or CANCELED has no experiment left to end, although
   RefreshBatchStatus may write a count that is old; and the answer of GetExperimentBatch,
   which reads the row first, lists none that has not ended. *)
EndedBatchHasEnded ==
    \A b \in Batches :
        batch[b] \in {"FINISHED", "CANCELED"} \/ b \in polled
          => \A e \in Of(b) : experiment[e] \in Ended
=============================================================================
