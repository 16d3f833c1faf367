------------------------ MODULE ExperimentLifecycle ------------------------
(***************************************************************************)
(* The life of submitted experiments across the control plane and its      *)
(* dispatchers: the experiments table (controlplane/repository.go), the    *)
(* scheduler goroutine (scheduler.go), the CancelExperiment, SendHeartbeat *)
(* and ReportExperimentResult handlers (server.go), bootstrap after a      *)
(* restart (serve.go), and on each node the StartExperiment handler, the   *)
(* run and the reporter with its durable journal (dispatcher/).            *)
(*                                                                         *)
(* The scheduler goroutine, every handler and every node take their steps  *)
(* independently; a step is one SQL statement, one method of a locked      *)
(* structure or one message.  Each fault (a crash, a lost call, a TTL that *)
(* runs out on a live node, a failing SQL statement) takes one from the    *)
(* budget MaxFaults, which bounds the model.                               *)
(*                                                                         *)
(* Batch rows are not here: RefreshBatchStatus only reads the experiments  *)
(* table and writes the batch row, which nothing below looks at.           *)
(***************************************************************************)
EXTENDS Naturals, Sequences, SequencesExt, FiniteSetsExt

CONSTANTS
    Experiments,    \* the experiments of one READY batch
    BatchOrder,     \* the order ListSchedulableExperiments returns them in
    BootstrapLimit, \* how many rows bootstrap lists at most (10000 in runServe)
    Malformed,      \* those whose start request a dispatcher calls bad_request
    Nodes,          \* dispatcher node ids
    Slots,          \* cfg.Slots of every dispatcher
    MaxNodeFailures,
    NoExperiment, NoNode,
    Faults,         \* the kinds of fault that may happen
    MaxFaults       \* how many of them may happen

FaultKinds == {"control_plane_crash", "node_crash", "lost_call", "lost_reply", "expiry", "sql_error"}

ASSUME LifecycleAssumption ==
    /\ IsFiniteSet(Experiments) /\ IsFiniteSet(Nodes)
    /\ BatchOrder \in Seq(Experiments) /\ ToSet(BatchOrder) = Experiments
    /\ Len(BatchOrder) = Cardinality(Experiments)
    /\ BootstrapLimit \in Nat \ {0}
    /\ Malformed \subseteq Experiments
    /\ Slots \in Nat \ {0} /\ MaxNodeFailures \in Nat \ {0}
    /\ NoExperiment \notin Experiments /\ NoNode \notin Nodes
    /\ Faults \subseteq FaultKinds /\ MaxFaults \in Nat

VARIABLES
    \* PostgreSQL: the experiments table
    status, nodeOf,
    \* control plane memory
    cpUp, queue, nodes, sched, cancel,
    enqueued,           \* SubmitExperimentBatch is over
    stranded,           \* history: PENDING rows that the control plane has let go of
    \* dispatchers
    up, registry, answering, running,
    journal,            \* journal[n][e]: on disk
    reporter,           \* reporter[n]: its loop, and the handler it calls
    \* the network: StartExperiment calls sent and not yet arrived
    calls,
    faults,
    run                 \* history: the execution of each experiment

db == <<status, nodeOf>>
cp == <<cpUp, enqueued, stranded, queue, nodes, sched, cancel>>
dispatchers == <<up, registry, answering, running, journal, reporter>>
vars == <<db, cp, dispatchers, calls, faults, run>>

Q == INSTANCE PendingQueue WITH Items <- Experiments
R == INSTANCE NodeRegistry WITH Platforms <- {"any"}
D == INSTANCE DispatcherRegistry WITH
        Keys <- Experiments, Runs <- Experiments, NoRun <- NoExperiment

Terminal == {"FINISHED", "FAILED", "CANCELED"}

IdleSched == [at |-> "idle", rest |-> <<>>, exp |-> NoExperiment, node |-> NoNode,
              outcome |-> "none", active |-> {}]

SchedStep == {"idle", "next", "claim", "call", "waiting", "decided", "requeue", "reconcile"}

Outcomes == {"none", "accepted", "retryable", "fatal", "already_running", "ambiguous"}

CancelStep == {"idle", "pending", "removed", "stop", "canceled", "already_canceled",
               "refused", "failed"}

TypeOK ==
    /\ status \in [Experiments -> {"PENDING", "STARTING"} \cup Terminal]
    /\ nodeOf \in [Experiments -> Nodes \cup {NoNode}]
    /\ cpUp \in BOOLEAN /\ enqueued \in BOOLEAN /\ stranded \subseteq Experiments
    /\ queue.items \in Seq(Experiments) /\ queue.index = ToSet(queue.items)
    /\ nodes \in R!NodeMap
    /\ sched.at \in SchedStep /\ sched.rest \in Seq(Experiments)
    /\ sched.exp \in Experiments \cup {NoExperiment} /\ sched.node \in Nodes \cup {NoNode}
    /\ sched.outcome \in Outcomes /\ sched.active \subseteq Nodes
    /\ cancel \in [Experiments -> [at : CancelStep, node : Nodes \cup {NoNode}]]
    /\ up \in [Nodes -> BOOLEAN]
    /\ registry \in [Nodes -> D!Registry]
    /\ answering \in [Nodes -> SUBSET Experiments]
    /\ running \in [Nodes -> SUBSET Experiments]
    /\ journal \in [Nodes -> [Experiments -> Terminal \cup {"none"}]]
    /\ reporter \in [Nodes -> [at : {"idle", "sent", "stored"}, exp : Experiments \cup {NoExperiment}]]
    /\ calls \subseteq Experiments \X Nodes
    /\ faults \in 0..MaxFaults
    /\ run \in [Experiments -> {"never", "running", "lost"} \cup Terminal]

EmptyRegistry == D!NewRegistry(Slots, 0)

CancelAt(at) == [at |-> at, node |-> NoNode]

NoReport == [at |-> "idle", exp |-> NoExperiment]

\* The batch is READY and its rows are PENDING; the dispatchers have
\* registered; SubmitExperimentBatch is about to enqueue what it listed.
Init ==
    /\ status = [e \in Experiments |-> "PENDING"]
    /\ nodeOf = [e \in Experiments |-> NoNode]
    /\ cpUp = TRUE /\ enqueued = FALSE /\ stranded = {}
    /\ queue = Q!EmptyQueue
    /\ nodes = [n \in Nodes |-> R!NewRecord([platform |-> "any", totalSlots |-> Slots,
                    usedSlots |-> 0, totalMemory |-> 0, reservedMemory |-> 0])]
    /\ sched = IdleSched
    /\ cancel = [e \in Experiments |-> CancelAt("idle")]
    /\ up = [n \in Nodes |-> TRUE]
    /\ registry = [n \in Nodes |-> EmptyRegistry]
    /\ answering = [n \in Nodes |-> {}]
    /\ running = [n \in Nodes |-> {}]
    /\ journal = [n \in Nodes |-> [e \in Experiments |-> "none"]]
    /\ reporter = [n \in Nodes |-> NoReport]
    /\ calls = {}
    /\ faults = 0
    /\ run = [e \in Experiments |-> "never"]

Fault(kind) == kind \in Faults /\ faults < MaxFaults /\ faults' = faults + 1

NoFault == UNCHANGED faults

SetStatus(e, s) == status' = [status EXCEPT ![e] = s]

-----------------------------------------------------------------------------
(* Submission and bootstrap *)

Schedulable == Q!Filter(BatchOrder, {e \in Experiments : status[e] = "PENDING"})

SubmitEnqueues ==
    /\ cpUp /\ ~enqueued
    /\ enqueued' = TRUE
    /\ queue' = Q!EnqueueMany(queue, Schedulable) /\ stranded' = {}
    /\ UNCHANGED <<db, cpUp, nodes, sched, cancel, dispatchers, calls, run>> /\ NoFault

\* Its query fails, and so does the call: the rows stay, in no queue.
SubmitFails ==
    /\ cpUp /\ ~enqueued /\ Fault("sql_error")
    /\ enqueued' = TRUE
    /\ stranded' = ToSet(Schedulable)
    /\ UNCHANGED <<db, cpUp, queue, nodes, sched, cancel, dispatchers, calls, run>>

\* Memory goes; what a handler had in hand goes with it.
ControlPlaneCrash ==
    /\ cpUp /\ Fault("control_plane_crash")
    /\ cpUp' = FALSE /\ enqueued' = TRUE /\ stranded' = {}
    /\ queue' = Q!EmptyQueue /\ nodes' = R!NoNodes /\ sched' = IdleSched
    /\ cancel' = [e \in Experiments |->
                    IF cancel[e].at \in {"pending", "removed", "stop"}
                    THEN CancelAt("refused") ELSE cancel[e]]
    /\ reporter' = [n \in Nodes |-> NoReport]
    /\ UNCHANGED <<db, up, registry, answering, running, journal, calls, run>>

\* The rows that bootstrap lists; the others wait for another restart.
Listed == SubSeq(Schedulable, 1, IF Len(Schedulable) < BootstrapLimit
                                 THEN Len(Schedulable) ELSE BootstrapLimit)

ControlPlaneStart ==
    /\ ~cpUp
    /\ cpUp' = TRUE
    /\ queue' = Q!EnqueueMany(Q!EmptyQueue, Listed)
    /\ stranded' = ToSet(Schedulable) \ ToSet(Listed)
    /\ UNCHANGED <<db, enqueued, nodes, sched, cancel, dispatchers, calls, run>> /\ NoFault

-----------------------------------------------------------------------------
(* Scheduler.RunOnce, one record after the other. *)

Scheduling(at) == cpUp /\ sched.at = at

Continue == [IdleSched EXCEPT !.rest = sched.rest,
                              !.at = IF sched.rest = <<>> THEN "idle" ELSE "next"]

PopBatch ==
    /\ Scheduling("idle") /\ queue.items # <<>>
    /\ sched' = [IdleSched EXCEPT !.at = "next", !.rest = Q!PopBatch(queue, Len(queue.items))]
    /\ queue' = Q!AfterPop(queue, Len(queue.items))
    /\ UNCHANGED <<db, cpUp, enqueued, stranded, nodes, cancel, dispatchers, calls, run>> /\ NoFault

PickAndReserve(n) ==
    /\ Scheduling("next") /\ n \in R!Candidates(nodes, "any", 0)
    /\ nodes' \in R!Picks(nodes, n, 0)
    /\ sched' = [sched EXCEPT !.at = "claim", !.rest = Tail(@), !.exp = Head(sched.rest), !.node = n]
    /\ UNCHANGED <<db, cpUp, enqueued, stranded, queue, cancel, dispatchers, calls, run>> /\ NoFault

\* Fault: a record that fits nowhere is dropped.
NoNodeFits_Dropped ==
    /\ Scheduling("next") /\ R!Candidates(nodes, "any", 0) = {}
    /\ sched' = [IdleSched EXCEPT !.rest = Tail(sched.rest),
                                  !.at = IF Len(sched.rest) = 1 THEN "idle" ELSE "next"]
    /\ UNCHANGED <<db, cpUp, enqueued, stranded, queue, nodes, cancel, dispatchers, calls, run>> /\ NoFault

NoNodeFits ==
    /\ Scheduling("next") /\ R!Candidates(nodes, "any", 0) = {}
    /\ nodes' = R!Evict(nodes, R!Expired(nodes))
    /\ queue' = Q!Enqueue(queue, Head(sched.rest))
    /\ sched' = [IdleSched EXCEPT !.rest = Tail(sched.rest),
                                  !.at = IF Len(sched.rest) = 1 THEN "idle" ELSE "next"]
    /\ UNCHANGED <<db, cpUp, enqueued, stranded, cancel, dispatchers, calls, run>> /\ NoFault

\* UPDATE ... SET STARTING WHERE status = PENDING.
TryMarkExperimentStarting ==
    /\ Scheduling("claim") /\ status[sched.exp] = "PENDING"
    /\ SetStatus(sched.exp, "STARTING")
    /\ nodeOf' = [nodeOf EXCEPT ![sched.exp] = sched.node]
    /\ sched' = [sched EXCEPT !.at = "call"]
    /\ UNCHANGED <<cpUp, enqueued, stranded, queue, nodes, cancel, dispatchers, calls, run>> /\ NoFault

NoLongerPending ==
    /\ Scheduling("claim") /\ status[sched.exp] # "PENDING"
    /\ nodes' = R!ReleaseReservation(nodes, sched.node, 0)
    /\ sched' = Continue
    /\ UNCHANGED <<db, cpUp, enqueued, stranded, queue, cancel, dispatchers, calls, run>> /\ NoFault

\* The statement fails; the row may have been written all the same.
ClaimFails ==
    /\ Scheduling("claim") /\ Fault("sql_error")
    /\ \/ UNCHANGED db
       \/ /\ status[sched.exp] = "PENDING" /\ SetStatus(sched.exp, "STARTING")
          /\ nodeOf' = [nodeOf EXCEPT ![sched.exp] = sched.node]
    /\ nodes' = R!ReleaseReservation(nodes, sched.node, 0)
    /\ queue' = Q!Enqueue(queue, sched.exp)
    /\ sched' = Continue
    /\ UNCHANGED <<cpUp, enqueued, stranded, cancel, dispatchers, calls, run>>

StartExperiment ==
    /\ Scheduling("call")
    /\ calls' = calls \cup {<<sched.exp, sched.node>>}
    /\ sched' = [sched EXCEPT !.at = "waiting"]
    /\ UNCHANGED <<db, cpUp, enqueued, stranded, queue, nodes, cancel, dispatchers, run>> /\ NoFault

\* The dispatcher may still answer the call the scheduler waits for.
Answerable ==
    /\ up[sched.node]
    /\ <<sched.exp, sched.node>> \in calls \/ sched.exp \in answering[sched.node]

\* Fault: no answer is taken for a refusal that may be retried.
NoAnswer_Retried ==
    /\ Scheduling("waiting")
    /\ IF Answerable THEN Fault("lost_call") ELSE NoFault
    /\ calls' \in {calls, calls \ {<<sched.exp, sched.node>>}}
    /\ ~up[sched.node] => <<sched.exp, sched.node>> \notin calls'
    /\ sched' = [sched EXCEPT !.at = "decided", !.outcome = "retryable"]
    /\ UNCHANGED <<db, cpUp, enqueued, stranded, queue, nodes, cancel, dispatchers, run>>

\* No answer: refused by a dead node, or the deadline passes.  The request may
\* be lost, or arrive later than its caller waits for it.
NoAnswer ==
    /\ Scheduling("waiting")
    /\ IF Answerable THEN Fault("lost_call") ELSE NoFault
    /\ calls' \in {calls, calls \ {<<sched.exp, sched.node>>}}
    /\ ~up[sched.node] => <<sched.exp, sched.node>> \notin calls'
    /\ sched' = [sched EXCEPT !.at = "decided", !.outcome = "ambiguous"]
    /\ UNCHANGED <<db, cpUp, enqueued, stranded, queue, nodes, cancel, dispatchers, run>>

Decided(outcome) == Scheduling("decided") /\ sched.outcome = outcome

\* Accepted and already running: the reservation is kept for the run.
KeepStarting ==
    /\ Scheduling("decided") /\ sched.outcome \in {"accepted", "already_running"}
    /\ nodes' = R!MarkNodeSucceeded(nodes, sched.node)
    /\ sched' = Continue
    /\ UNCHANGED <<db, cpUp, enqueued, stranded, queue, cancel, dispatchers, calls, run>> /\ NoFault

Rollback == R!MarkNodeSucceeded(R!ReleaseReservation(nodes, sched.node, 0), sched.node)

RowPending == SetStatus(sched.exp, "PENDING") /\ nodeOf' = [nodeOf EXCEPT ![sched.exp] = NoNode]

RowFailed == SetStatus(sched.exp, "FAILED") /\ UNCHANGED nodeOf

MarkExperimentPending ==
    /\ Decided("retryable")
    /\ nodes' = Rollback
    /\ RowPending
    /\ sched' = [sched EXCEPT !.at = "requeue"]
    /\ UNCHANGED <<cpUp, enqueued, stranded, queue, cancel, dispatchers, calls, run>> /\ NoFault

Requeue ==
    /\ Scheduling("requeue")
    /\ queue' = Q!Enqueue(queue, sched.exp)
    /\ sched' = Continue
    /\ UNCHANGED <<db, cpUp, enqueued, stranded, nodes, cancel, dispatchers, calls, run>> /\ NoFault

MarkExperimentFailedToStart ==
    /\ Decided("fatal")
    /\ nodes' = Rollback
    /\ RowFailed
    /\ sched' = Continue
    /\ UNCHANGED <<cpUp, enqueued, stranded, queue, cancel, dispatchers, calls, run>> /\ NoFault

\* Either statement fails and the record is dropped: the row stays STARTING, or
\* it has been written all the same, and a PENDING one is then in no queue.
RollbackFails ==
    /\ Scheduling("decided") /\ Fault("sql_error")
    /\ \/ sched.outcome \in {"retryable", "fatal"} /\ UNCHANGED <<db, stranded>>
       \/ sched.outcome = "retryable" /\ RowPending /\ stranded' = stranded \cup {sched.exp}
       \/ sched.outcome = "fatal" /\ RowFailed /\ UNCHANGED stranded
    /\ nodes' = Rollback
    /\ sched' = Continue
    /\ UNCHANGED <<cpUp, enqueued, queue, cancel, dispatchers, calls, run>>

\* Left STARTING: the node may or may not be running it.
LeaveStarting ==
    /\ Decided("ambiguous")
    /\ nodes' = R!MarkNodeFailed(nodes, sched.node, MaxNodeFailures)
    /\ sched' = Continue
    /\ UNCHANGED <<db, cpUp, enqueued, stranded, queue, cancel, dispatchers, calls, run>> /\ NoFault

-----------------------------------------------------------------------------
(* ReconcileLostNodes: the registry is read, then the table is updated.    *)
(* How long ago a row was updated is left open: each orphan may or may not *)
(* have outlived the grace period.                                         *)

Orphans(active) == {e \in Experiments : status[e] = "STARTING" /\ nodeOf[e] \notin active}

ReadActiveNodes ==
    /\ Scheduling("idle") /\ Orphans(R!ActiveNodeIDs(nodes)) # {}
    /\ sched' = [sched EXCEPT !.at = "reconcile", !.active = R!ActiveNodeIDs(nodes)]
    /\ UNCHANGED <<db, cpUp, enqueued, stranded, queue, nodes, cancel, dispatchers, calls, run>> /\ NoFault

MarkOrphanedExperimentsFailed(es) ==
    /\ Scheduling("reconcile")
    /\ status' = [e \in Experiments |-> IF e \in es THEN "FAILED" ELSE status[e]]
    /\ sched' = IdleSched
    /\ UNCHANGED <<nodeOf, cpUp, enqueued, stranded, queue, nodes, cancel, dispatchers, calls, run>> /\ NoFault

Reconcile == \E es \in SUBSET Orphans(sched.active) : MarkOrphanedExperimentsFailed(es)

-----------------------------------------------------------------------------
(* CancelExperiment, one call for each experiment. *)

Canceling(e, at) == cpUp /\ cancel[e].at = at

CancelTo(e, at) == cancel' = [cancel EXCEPT ![e] = CancelAt(at)]

\* The row is read, and with a dispatcher assigned the registry too.
GetExperimentForCancel(e) ==
    /\ Canceling(e, "idle")
    /\ CASE status[e] = "PENDING" -> CancelTo(e, "pending")
         [] status[e] = "STARTING" /\ R!Fresh(nodes, nodeOf[e]) ->
              cancel' = [cancel EXCEPT ![e] = [at |-> "stop", node |-> nodeOf[e]]]
         [] status[e] = "CANCELED" -> CancelTo(e, "already_canceled")
         [] OTHER -> CancelTo(e, "refused")
    /\ nodes' = IF status[e] = "STARTING" THEN R!AfterGet(nodes, nodeOf[e]) ELSE nodes
    /\ UNCHANGED <<db, cpUp, enqueued, stranded, queue, sched, dispatchers, calls, run>> /\ NoFault

RemoveFromQueue(e) ==
    /\ Canceling(e, "pending")
    /\ queue' = Q!RemoveKey(queue, e)
    /\ CancelTo(e, "removed")
    /\ UNCHANGED <<db, cpUp, enqueued, stranded, nodes, sched, dispatchers, calls, run>> /\ NoFault

\* Fault: the row is canceled whatever has become of it.
MarkPendingExperimentCanceled_Unconditional(e) ==
    /\ Canceling(e, "removed")
    /\ SetStatus(e, "CANCELED") /\ CancelTo(e, "canceled")
    /\ UNCHANGED <<nodeOf, cpUp, enqueued, stranded, queue, nodes, sched, dispatchers, calls, run>> /\ NoFault

\* UPDATE ... SET CANCELED WHERE status = PENDING.
MarkPendingExperimentCanceled(e) ==
    /\ Canceling(e, "removed")
    /\ IF status[e] = "PENDING"
       THEN SetStatus(e, "CANCELED") /\ CancelTo(e, "canceled")
       ELSE UNCHANGED status /\ CancelTo(e, "refused")
    /\ UNCHANGED <<nodeOf, cpUp, enqueued, stranded, queue, nodes, sched, dispatchers, calls, run>> /\ NoFault

\* Queued, or popped by the scheduler.
Attended(e) == e \in ToSet(queue.items) \/ e \in ToSet(sched.rest) \/ e = sched.exp

\* The statement fails after the record has left the queue, or the batch refresh
\* after it does; the row may have been written all the same.
CancelFails(e) ==
    /\ Canceling(e, "removed") /\ Fault("sql_error")
    /\ \/ /\ UNCHANGED status
          /\ stranded' = IF status[e] = "PENDING" /\ ~Attended(e) THEN stranded \cup {e} ELSE stranded
       \/ status[e] = "PENDING" /\ SetStatus(e, "CANCELED") /\ UNCHANGED stranded
    /\ CancelTo(e, "failed")
    /\ UNCHANGED <<nodeOf, cpUp, enqueued, queue, nodes, sched, dispatchers, calls, run>>

\* StopExperiment on the node that had it when the row was read; a node that
\* is down answers nothing.
StopExperiment(e) == LET n == cancel[e].node IN
    /\ Canceling(e, "stop")
    /\ registry' = IF up[n] /\ D!CanCancel(registry[n], e)
                   THEN [registry EXCEPT ![n] = D!Cancel(@, e)] ELSE registry
    /\ CancelTo(e, "refused")
    /\ UNCHANGED <<db, cpUp, enqueued, stranded, queue, nodes, sched,
                   up, answering, running, journal, reporter, calls, run>> /\ NoFault

-----------------------------------------------------------------------------
(* The dispatcher's StartExperiment handler.  Dispatcher.tla has its steps *)
(* one by one; here they are the arrival (TryStart, SetCancel), the        *)
(* hand-off to a worker (with SetStatus RUNNING), and giving up.           *)

\* The answer reaches the scheduler only while it waits for it.
Reply(e, n, outcome) ==
    sched' = IF Scheduling("waiting") /\ sched.exp = e /\ sched.node = n
             THEN [sched EXCEPT !.at = "decided", !.outcome = outcome] ELSE sched

OutcomeOf(code) == IF code = "experiment_already_running" THEN "already_running" ELSE "retryable"

CallRefused(e, n) ==
    /\ <<e, n>> \in calls /\ up[n]
    /\ LET code == D!Refusal(registry[n], e, 0) IN
       \/ e \in Malformed /\ Reply(e, n, "fatal")
       \/ e \notin Malformed /\ code # "none" /\ Reply(e, n, OutcomeOf(code))
    /\ calls' = calls \ {<<e, n>>}
    /\ UNCHANGED <<db, cpUp, enqueued, stranded, queue, nodes, cancel, dispatchers, run>> /\ NoFault

CallAdmitted(e, n) ==
    /\ <<e, n>> \in calls /\ up[n]
    /\ e \notin Malformed /\ D!Refusal(registry[n], e, 0) = "none"
    /\ registry' = [registry EXCEPT ![n] = D!SetCancel(D!TryStart(@, e, 0), e, e)]
    /\ answering' = [answering EXCEPT ![n] = @ \cup {e}]
    /\ calls' = calls \ {<<e, n>>}
    /\ UNCHANGED <<db, cp, up, running, journal, reporter, run>> /\ NoFault

HandOff(e, n) ==
    /\ e \in answering[n] /\ Cardinality(running[n]) < Slots
    /\ answering' = [answering EXCEPT ![n] = @ \ {e}]
    /\ running' = [running EXCEPT ![n] = @ \cup {e}]
    /\ registry' = [registry EXCEPT ![n] = D!SetStatus(@, e, "RUNNING")]
    /\ run' = [run EXCEPT ![e] = "running"]
    /\ Reply(e, n, "accepted")
    /\ UNCHANGED <<db, cpUp, enqueued, stranded, queue, nodes, cancel, up, journal, reporter, calls>> /\ NoFault

\* The request's context ends before a worker takes the task.  When the
\* scheduler still waits, "request_canceled" outran its own deadline.
RequestCanceled(e, n) ==
    /\ e \in answering[n]
    /\ IF Scheduling("waiting") /\ sched.exp = e THEN Fault("lost_call") ELSE NoFault
    /\ answering' = [answering EXCEPT ![n] = @ \ {e}]
    /\ registry' = [registry EXCEPT ![n] = D!Finish(@, e, "FAILED")]
    /\ Reply(e, n, "retryable")
    /\ UNCHANGED <<db, cpUp, enqueued, stranded, queue, nodes, cancel, up, running, journal, reporter, calls, run>>

\* executeExperiment returns, Finish settles its status, Submit persists it.
RunEnds(e, n) ==
    /\ e \in running[n]
    /\ \E result \in IF registry[n].experiments[e].cancelRequested
                      THEN Terminal ELSE {"FINISHED", "FAILED"} :
          LET final == D!FinalStatus(registry[n], e, result) IN
          /\ registry' = [registry EXCEPT ![n] = D!Finish(@, e, result)]
          /\ journal' = [journal EXCEPT ![n][e] = final]
          /\ run' = [run EXCEPT ![e] = final]
    /\ running' = [running EXCEPT ![n] = @ \ {e}]
    /\ UNCHANGED <<db, cp, up, answering, reporter, calls>> /\ NoFault

-----------------------------------------------------------------------------
(* Reporter.flush, file by file, and the ReportExperimentResult handler.   *)

ReportTo(n, at, e) == reporter' = [reporter EXCEPT ![n] = [at |-> at, exp |-> e]]

ReportSent(e, n) ==
    /\ up[n] /\ cpUp /\ reporter[n].at = "idle" /\ journal[n][e] # "none"
    /\ ReportTo(n, "sent", e)
    /\ UNCHANGED <<db, cp, up, registry, answering, running, journal, calls, run>> /\ NoFault

UpdateExperimentResult(n) == LET e == reporter[n].exp IN
    /\ cpUp /\ reporter[n].at = "sent"
    /\ SetStatus(e, journal[n][e])
    /\ nodeOf' = [nodeOf EXCEPT ![e] = n]
    /\ ReportTo(n, "stored", e)
    /\ UNCHANGED <<cp, up, registry, answering, running, journal, calls, run>> /\ NoFault

\* Fault: the journal file goes although the answer was not ok.
UpdateFails_FileRemoved(n) ==
    /\ cpUp /\ reporter[n].at = "sent" /\ Fault("sql_error")
    /\ ReportTo(n, "idle", NoExperiment)
    /\ journal' = [journal EXCEPT ![n][reporter[n].exp] = "none"]
    /\ UNCHANGED <<db, cp, up, registry, answering, running, calls, run>>

\* It fails, or it succeeds and the batch refresh after it fails: the answer
\* is not ok and the reservation is kept.
UpdateFails(n) == LET e == reporter[n].exp IN
    /\ cpUp /\ reporter[n].at = "sent" /\ Fault("sql_error")
    /\ \/ UNCHANGED db
       \/ SetStatus(e, journal[n][e]) /\ nodeOf' = [nodeOf EXCEPT ![e] = n]
    /\ ReportTo(n, "idle", NoExperiment)
    /\ UNCHANGED <<cp, up, registry, answering, running, journal, calls, run>>

ReportAnswered(n) ==
    /\ cpUp /\ reporter[n].at = "stored"
    /\ nodes' = R!ReleaseReservation(nodes, n, 0)
    /\ ReportTo(n, "idle", NoExperiment)
    /\ UNCHANGED <<db, cpUp, enqueued, stranded, queue, sched, cancel,
                   up, registry, answering, running, calls, run>>

ReportAcknowledged(n) ==
    /\ ReportAnswered(n) /\ NoFault
    /\ journal' = [journal EXCEPT ![n][reporter[n].exp] = "none"]

\* The file stays, and the result will be sent again.
ReportReplyLost(n) == ReportAnswered(n) /\ Fault("lost_reply") /\ UNCHANGED journal

-----------------------------------------------------------------------------
(* Nodes come and go; the journal directory survives.  Register and        *)
(* Heartbeat take the load as it is when they are handled.                 *)

HeardFrom(n, load) ==
    nodes' = R!Heartbeat(nodes, n, [platform |-> "any", totalSlots |-> Slots,
                usedSlots |-> load, totalMemory |-> 0, reservedMemory |-> 0])

Heartbeat(n) ==
    /\ up[n] /\ cpUp
    /\ HeardFrom(n, registry[n].usedSlots)
    /\ UNCHANGED <<db, cpUp, enqueued, stranded, queue, sched, cancel, dispatchers, calls, run>> /\ NoFault

\* NodeTTL passes without a heartbeat.
Expire(n) ==
    /\ cpUp /\ R!Fresh(nodes, n)
    /\ IF up[n] THEN Fault("expiry") ELSE NoFault
    /\ nodes' = [nodes EXCEPT ![n].fresh = FALSE]
    /\ UNCHANGED <<db, cpUp, enqueued, stranded, queue, sched, cancel, dispatchers, calls, run>>

NodeCrash(n) ==
    /\ up[n] /\ Fault("node_crash")
    /\ up' = [up EXCEPT ![n] = FALSE]
    /\ registry' = [registry EXCEPT ![n] = EmptyRegistry]
    /\ answering' = [answering EXCEPT ![n] = {}]
    /\ running' = [running EXCEPT ![n] = {}]
    /\ run' = [e \in Experiments |-> IF e \in running[n] THEN "lost" ELSE run[e]]
    /\ reporter' = [reporter EXCEPT ![n] = NoReport]
    /\ calls' = {c \in calls : c[2] # n}
    /\ UNCHANGED <<db, cp, journal>>

NodeStart(n) ==
    /\ ~up[n] /\ cpUp
    /\ up' = [up EXCEPT ![n] = TRUE]
    /\ HeardFrom(n, 0)
    /\ UNCHANGED <<db, cpUp, enqueued, stranded, queue, sched, cancel,
                   registry, answering, running, journal, reporter, calls, run>> /\ NoFault

-----------------------------------------------------------------------------
SchedulerStep ==
    \/ PopBatch \/ (\E n \in Nodes : PickAndReserve(n)) \/ NoNodeFits
    \/ TryMarkExperimentStarting \/ NoLongerPending \/ ClaimFails
    \/ StartExperiment \/ NoAnswer
    \/ KeepStarting \/ MarkExperimentPending \/ Requeue
    \/ MarkExperimentFailedToStart \/ RollbackFails \/ LeaveStarting
    \/ ReadActiveNodes \/ Reconcile

CancelHandler(e) ==
    \/ GetExperimentForCancel(e) \/ RemoveFromQueue(e)
    \/ MarkPendingExperimentCanceled(e) \/ CancelFails(e) \/ StopExperiment(e)

ExperimentAt(e, n) ==
    \/ CallRefused(e, n) \/ CallAdmitted(e, n) \/ HandOff(e, n) \/ RequestCanceled(e, n)
    \/ RunEnds(e, n) \/ ReportSent(e, n)

Node(n) ==
    \/ UpdateExperimentResult(n) \/ UpdateFails(n)
    \/ ReportAcknowledged(n) \/ ReportReplyLost(n)
    \/ Heartbeat(n) \/ Expire(n) \/ NodeCrash(n) \/ NodeStart(n)

Next ==
    \/ SubmitEnqueues \/ SubmitFails \/ ControlPlaneCrash \/ ControlPlaneStart
    \/ SchedulerStep
    \/ \E e \in Experiments : CancelHandler(e)
    \/ \E e \in Experiments, n \in Nodes : ExperimentAt(e, n)
    \/ \E n \in Nodes : Node(n)

Spec == Init /\ [][Next]_vars

\* The scheduler loop chooses among its tickers at random, so each of its two
\* passes gets its turn, and the grace period of a row runs out.  A crashed
\* control plane is restarted (docker-compose.yaml), a crashed dispatcher need
\* not be.  Models are not assumed to end.
Fairness ==
    /\ WF_vars(SubmitEnqueues) /\ WF_vars(ControlPlaneStart)
    /\ SF_vars(PopBatch) /\ SF_vars(ReadActiveNodes)
    /\ SF_vars(MarkOrphanedExperimentsFailed(Orphans(sched.active)))
    /\ WF_vars(\/ \E n \in Nodes : PickAndReserve(n)
               \/ NoNodeFits \/ TryMarkExperimentStarting \/ NoLongerPending
               \/ StartExperiment \/ KeepStarting \/ MarkExperimentPending \/ Requeue
               \/ MarkExperimentFailedToStart \/ LeaveStarting
               \/ Scheduling("waiting") /\ ~Answerable /\ NoAnswer)
    /\ \A e \in Experiments :
          WF_vars(RemoveFromQueue(e) \/ MarkPendingExperimentCanceled(e))
    /\ \A n \in Nodes :
          /\ WF_vars(Heartbeat(n)) /\ WF_vars(~up[n] /\ Expire(n))
          /\ WF_vars(UpdateExperimentResult(n)) /\ WF_vars(ReportAcknowledged(n))
          /\ \A e \in Experiments :
                /\ WF_vars(CallRefused(e, n) \/ CallAdmitted(e, n))
                /\ WF_vars(HandOff(e, n))
                /\ SF_vars(ReportSent(e, n))

FairSpec == Spec /\ Fairness

-----------------------------------------------------------------------------
(* Properties *)

\* The platform implements its contract: an experiment is executed at most once
\* whatever is lost or crashes, although rejected starts are retried; one whose
\* status is terminal is never scheduled again; only a FAILED row can still
\* change, to what its run came to.
Contract == INSTANCE ExperimentContract
ContractSpec == Contract!Spec

\* CancelExperiment's answer canceled = true is final: the experiment never
\* runs, although the scheduler may hold it outside the queue meanwhile.
CancelAnswerIsFinal ==
    \A e \in Experiments :
        cancel[e].at = "canceled" => status[e] = "CANCELED" /\ run[e] = "never"

\* A PENDING experiment is always in somebody's hands: queued, popped by the
\* scheduler, or withdrawn from the queue by a cancellation about to settle it.
\* It is lost, until the control plane is restarted, in four ways: the query of
\* the submission fails, the UPDATE of its cancellation fails, the UPDATE that
\* rolls a refused start back is executed and reported as failed, or bootstrap
\* has more rows to list than its limit.
NoPendingForgotten ==
    \A e \in Experiments :
        cpUp /\ enqueued /\ status[e] = "PENDING" =>
            Attended(e) \/ cancel[e].at = "removed" \/ e \in stranded

\* While nothing has failed, the scheduler's promises cover each dispatcher's
\* load, including starts under way and runs whose report is under way, so a
\* start is never refused for want of a slot.
ReservationsCoverLoad ==
    faults = 0 =>
        /\ \A n \in Nodes : registry[n].usedSlots <= nodes[n].promisedSlots
        /\ sched.outcome # "retryable"

\* The journal delivers: a run that ended on a dispatcher that is not gone for
\* good has its outcome in the table in the end, through lost replies and
\* crashes and restarts of either side.
EveryResultArrives ==
    \A e \in Experiments, n \in Nodes :
        (journal[n][e] # "none" /\ []<>up[n]) ~> (status[e] = run[e] /\ journal[n][e] = "none")

\* The experiments of a dispatcher that stays away do not stay STARTING.
LostNodesAreReconciled ==
    \A e \in Experiments, n \in Nodes :
        <>[](~up[n]) => []<>~(status[e] = "STARTING" /\ nodeOf[e] = n)

\* If runs end, every experiment of the batch reaches a terminal status.
EveryExperimentSettles ==
    (\A e \in Experiments : []<>(run[e] # "running")) =>
        \A e \in Experiments : <>(status[e] \in Terminal)
=============================================================================
