------------------------- MODULE BuildPipelineProofs -------------------------
(***************************************************************************)
(* Theorems of BuildPipeline for any submissions, batches, experiments and *)
(* models: its type invariant; what a READY row stands for; that a batch   *)
(* answered READY has its experiments in the queue; and that a batch which *)
(* says it has ended has no experiment left.                               *)
(***************************************************************************)
EXTENDS BuildPipeline, TLAPS

Calls == [Submissions -> [at : {"new"} \cup Steps \cup Outcomes, result : Results]]

\* The steps of a call that has created its batch, and those of one that has seen the
\* row of its model READY and has not listed its experiments yet.
Created == (Steps \ {"create"}) \cup {"accepted", "notAccepted"}
Relies == {"ready", "built", "list"}

USE DEF history, Relies

AllEnded(b) == \A e \in Of(b) : experiment[e] \in Ended

\* What each step of a call has from the steps before, whatever the others have done since.
CallIsGood(s) ==
    /\ handler[s].at \in Created => batch[BatchOf[s]] # NoStatus
    /\ handler[s].at = "save" /\ handler[s].result.ok => handler[s].result.binary \in made[s]
    /\ handler[s].at \in {"ready", "built"} => object[ModelOf[s]] # NoDigest
    /\ handler[s].at \in Relies => cpUp /\ (s \in overtaken <=> ~IsReady(ModelOf[s]))
    /\ s \in overtaken => handler[s].at \in Relies \cup {"accepted", "error"}
    /\ handler[s].at \in {"list", "accepted"} =>
          batch[BatchOf[s]] \in {"READY", "RUNNING"} \/ AllEnded(BatchOf[s])

CallsAreGood == \A s \in Submissions : CallIsGood(s)

\* The primary key lets one of two calls with the same batch_id through.
OneCallPerBatch ==
    \A s, t \in Submissions :
        BatchOf[s] = BatchOf[t] /\ handler[s].at \in Created /\ handler[t].at \in Created => s = t

\* An answer names a binary that its build has stored, and what was stored is there.
BuildsAreGood ==
    \A t \in Tasks : /\ inbox[t].ok => inbox[t].binary \in made[t]
                     /\ made[t] # {} => object[ModelOf[t]] # NoDigest

\* A batch row comes from a submission, and an experiment row from a batch.
RowsAreGood ==
    /\ \A b \in Batches : batch[b] # NoStatus => \E s \in Submissions : BatchOf[s] = b
    /\ \A e \in Experiments : experiment[e] # NoStatus => batch[Batch[e]] # NoStatus

\* A count is old when it is written, but one that says that all have ended stays true.
RefreshesAreGood ==
    \A e \in Experiments :
        /\ refresh[e] \in {"none", "count", "RUNNING"} \cup Ended
        /\ refresh[e] # "none" => experiment[e] \in Ended
        /\ refresh[e] \in Ended => AllEnded(Batch[e])

IInv == /\ TypeOK
        /\ CallsAreGood /\ OneCallPerBatch /\ BuildsAreGood /\ RowsAreGood /\ RefreshesAreGood
        /\ ReadyIsBacked /\ AcceptedIsQueued /\ EndedBatchHasEnded

-----------------------------------------------------------------------------
(* Constants and the queue. *)

\* The submissions and experiments of the instance.
LEMMA Constants ==
    /\ \A s \in Submissions : BatchOf[s] \in Batches /\ ModelOf[s] \in Models
    /\ \A e \in Experiments : Batch[e] \in Batches /\ e \in Of(Batch[e])
    /\ \A b \in Batches : Of(b) \subseteq Experiments /\ Of(b) # {}
    /\ \A b \in Batches : \A e \in Of(b) : Batch[e] = b
    /\ \A s, t \in Submissions : BatchOf[s] = BatchOf[t] => ModelOf[s] = ModelOf[t]
    /\ NoDigest \notin Digests /\ NotQueued \notin Digests
    /\ MaxFaults \in Nat
  BY PipelineAssumption, BuildAssumption DEF Of, Submissions

\* What may be queued has a binary.
LEMMA SchedulableHasBinary ==
    ASSUME IInv, NEW b \in Batches, NEW e \in Schedulable(b)
    PROVE  e \in Of(b) /\ BinaryOf(e) \in Digests
<1>1. /\ e \in Of(b) /\ batch[b] \in {"READY", "RUNNING"}
      /\ \A s \in Submissions : BatchOf[s] = b => IsReady(ModelOf[s])
  BY DEF Schedulable
<1>2. Batch[e] = b /\ \E s \in Submissions : BatchOf[s] = b
  BY <1>1, Constants DEF IInv, RowsAreGood, NoStatus
<1> DEFINE x == CHOOSE s \in Submissions : BatchOf[s] = Batch[e]
<1>3. x \in Submissions /\ BatchOf[x] = b
  BY <1>2
<1>4. artifact[ModelOf[x]].binary \in Digests
  BY <1>1, <1>3, Constants DEF IsReady, IInv, TypeOK
<1> QED
  BY <1>1, <1>4 DEF BinaryOf

\* Enqueue keeps what is queued, and queues what it is given.
LEMMA EnqueueKeeps ==
    ASSUME IInv, NEW R \in SUBSET Experiments,
           \A e \in R : \E b \in Batches : e \in Schedulable(b), Enqueue(R)
    PROVE  /\ queue' \in [Experiments -> Digests \cup {NotQueued}]
           /\ \A e \in Experiments : queue[e] # NotQueued => queue'[e] = queue[e]
           /\ \A e \in R : queue'[e] # NotQueued
<1>1. \A e \in R : BinaryOf(e) \in Digests
  BY SchedulableHasBinary
<1> QED
  BY <1>1, Constants DEF Enqueue, IInv, TypeOK

\* While the row of the model is READY, all that is pending may be queued.
LEMMA PendingIsSchedulable ==
    ASSUME IInv, NEW s \in Submissions, handler[s].at \in {"list", "accepted"}, IsReady(ModelOf[s]),
           NEW e \in Of(BatchOf[s]), experiment[e] = "PENDING"
    PROVE  e \in Schedulable(BatchOf[s])
<1>1. IsReady(ModelOf[s]) /\ batch[BatchOf[s]] \in {"READY", "RUNNING"}
  BY DEF IInv, CallsAreGood, CallIsGood, AllEnded, Ended
<1> QED
  BY <1>1, Constants DEF Schedulable

\* A row that is READY has an object behind it.
LEMMA ReadyRowHasObject ==
    ASSUME IInv, NEW m \in Models, IsReady(m) PROVE object[m] # NoDigest
  BY DEF IInv, ReadyIsBacked, BuildsAreGood, IsReady

-----------------------------------------------------------------------------
\* Nothing has been asked for.
LEMMA InitIInv == Init => IInv
<1> SUFFICES ASSUME Init PROVE IInv
  OBVIOUS
<1> USE Constants DEF Init, ServiceInit, Submissions
<1>0. cpUp \in BOOLEAN
  OBVIOUS
<1>1. ServiceTypeOK
  BY DEF ServiceTypeOK, Results, NoResult
<1>2. NoResult \in Results /\ ~NoResult.ok
  BY DEF Results, NoResult
<1>3. TypeOK
  BY <1>0, <1>1, <1>2 DEF TypeOK, NoStatus, NoArtifact
<1>4. \A s \in Submissions : handler[s].at = "new"
  OBVIOUS
<1>5. CallsAreGood /\ OneCallPerBatch
  BY <1>4 DEF CallsAreGood, CallIsGood, OneCallPerBatch, Created, Steps
<1>6. BuildsAreGood /\ RowsAreGood /\ RefreshesAreGood
  BY <1>2 DEF BuildsAreGood, RowsAreGood, RefreshesAreGood, Ended
<1>7. ReadyIsBacked /\ AcceptedIsQueued /\ EndedBatchHasEnded
  BY <1>4 DEF ReadyIsBacked, AcceptedIsQueued, EndedBatchHasEnded, NoArtifact, NoStatus
<1> QED
  BY <1>3, <1>5, <1>6, <1>7 DEF IInv

-----------------------------------------------------------------------------
(* Steps of a call that write nothing but what is its own: its own state, and its
   reply channel. *)

\* A step of a call that is not accepted yet: all there is to show is that this
\* call is still good.
LEMMA CallPreserves ==
    ASSUME IInv, NEW s \in Submissions,
           handler' \in Calls, \A t \in Submissions \ {s} : handler'[t] = handler[t],
           UNCHANGED <<made, object, cpUp, queue, polled, refresh, history, batch, artifact, experiment>>,
           ServiceTypeOK', faults' \in 0..MaxFaults,
           \A t \in Tasks : inbox'[t] \in {inbox[t], NoResult},
           CallIsGood(s)', handler'[s].at # "accepted",
           handler'[s].at \in Created => handler[s].at \in Created
    PROVE  IInv'
<1> USE Constants DEF IInv
<1>1. TypeOK'
  BY DEF TypeOK, Calls
<1>2. CallsAreGood'
  BY DEF CallsAreGood, CallIsGood, AllEnded, IsReady
<1>3. OneCallPerBatch'
  BY DEF OneCallPerBatch
<1>4. BuildsAreGood'
  BY DEF BuildsAreGood, NoResult
<1>5. RowsAreGood' /\ RefreshesAreGood'
  BY DEF RowsAreGood, RefreshesAreGood, AllEnded
<1>6. ReadyIsBacked' /\ AcceptedIsQueued' /\ EndedBatchHasEnded'
  BY DEF ReadyIsBacked, AcceptedIsQueued, EndedBatchHasEnded
<1> QED
  BY <1>1, <1>2, <1>3, <1>4, <1>5, <1>6

\* A call goes on to another step.
LEMMA Moves ==
    ASSUME TypeOK, NEW s \in Submissions, NEW step \in {"new"} \cup Steps \cup Outcomes,
           NEW r \in Results,
           \/ handler' = [handler EXCEPT ![s] = [at |-> step, result |-> r]]
           \/ handler' = [handler EXCEPT ![s].at = step] /\ r = handler[s].result
    PROVE  /\ handler' \in Calls /\ handler'[s].at = step /\ handler'[s].result = r
           /\ \A t \in Submissions \ {s} : handler'[t] = handler[t]
<1>1. handler \in Calls /\ handler[s] \in [at : {"new"} \cup Steps \cup Outcomes, result : Results]
  BY DEF TypeOK, Calls
<1> DEFINE new == [at |-> step, result |-> r]
<1>2. handler' = [handler EXCEPT ![s] = new]
  BY <1>1 DEF Calls
<1>3. new \in [at : {"new"} \cup Steps \cup Outcomes, result : Results]
  OBVIOUS
<1>4. new.at = step /\ new.result = r
  OBVIOUS
<1> HIDE DEF new
<1> QED
  BY <1>1, <1>2, <1>3, <1>4 DEF Calls

\* A call that goes on to its next step keeps what it was answered.
LEMMA GoesTo ==
    ASSUME TypeOK, NEW s \in Submissions, NEW step \in {"new"} \cup Steps \cup Outcomes,
           handler' = [handler EXCEPT ![s].at = step]
    PROVE  /\ handler' \in Calls /\ handler'[s].at = step /\ handler'[s].result = handler[s].result
           /\ \A t \in Submissions \ {s} : handler'[t] = handler[t]
<1>1. handler[s].result \in Results
  BY DEF TypeOK
<1> QED
  BY <1>1, Moves

\* Each action of a call.
LEMMA CallStepPreserves ==
    ASSUME IInv, NEW s \in Submissions,
           \/ Receive(s) \/ GetReadyModelArtifact(s) \/ Request(s) \/ ReceiveReply(s)
           \/ RequestTimeout(s) \/ CallerGone(s)
    PROVE  IInv'
<1> USE Constants DEF At, HandlerOnly, CallOnly, NoAnswer, db, service
<1>0. /\ handler[s].at \in {"new"} \cup Steps \cup Outcomes /\ handler[s].result \in Results
      /\ NoResult \in Results /\ inbox[s] \in Results
      /\ ServiceTypeOK /\ TypeOK /\ CallIsGood(s)
  BY DEF IInv, TypeOK, ServiceTypeOK, Results, CallsAreGood, Submissions
<1>1. CASE Receive(s)
  <2>1. PICK step \in {"create", "error"} : handler' = [handler EXCEPT ![s].at = step]
    BY <1>1 DEF Receive, Goto
  <2>2. /\ handler' \in Calls /\ handler'[s].at = step
        /\ \A t \in Submissions \ {s} : handler'[t] = handler[t]
    <3>1. step \in {"new"} \cup Steps \cup Outcomes
      BY <2>1 DEF Steps, Outcomes
    <3> QED
      BY <1>0, <2>1, <3>1, GoesTo
  <2>3. UNCHANGED <<service, faults, cpUp, queue, polled, refresh, history, db>>
    BY <1>1 DEF Receive
  <2>4. ServiceTypeOK' /\ faults' \in 0..MaxFaults
    BY <1>0, <2>3 DEF ServiceTypeOK, TypeOK
  <2>5. handler'[s].at \notin Created \cup {"save", "ready", "built", "list", "accepted"}
    BY <2>2 DEF Created, Steps
  <2>6. s \notin overtaken'
    BY <1>0, <1>1, <2>3 DEF CallIsGood, Receive
  <2>7. CallIsGood(s)'
    BY <2>5, <2>6 DEF CallIsGood
  <2> QED
    BY <2>2, <2>3, <2>4, <2>5, <2>7, CallPreserves
<1>2. CASE GetReadyModelArtifact(s)
  <2>1. PICK step \in {"ready", "mark"} :
          /\ handler[s].at = "check" /\ handler' = [handler EXCEPT ![s].at = step]
          /\ step = "ready" => IsReady(ModelOf[s])
    BY <1>2 DEF GetReadyModelArtifact, Goto
  <2>2. /\ handler' \in Calls /\ handler'[s].at = step
        /\ \A t \in Submissions \ {s} : handler'[t] = handler[t]
    BY <1>0, <2>1, Moves DEF Steps, Outcomes
  <2>3. UNCHANGED <<service, faults, cpUp, queue, polled, refresh, history, db>>
    BY <1>2 DEF GetReadyModelArtifact
  <2>4. ServiceTypeOK' /\ faults' \in 0..MaxFaults
    BY <1>0, <2>3 DEF ServiceTypeOK, TypeOK
  <2>5. handler[s].at \in Created /\ handler'[s].at \notin {"save", "built", "list", "accepted"}
    BY <2>1, <2>2 DEF Created, Steps
  <2>6. handler'[s].at = "ready" => IsReady(ModelOf[s]) /\ object[ModelOf[s]] # NoDigest
    BY <2>1, <2>2, ReadyRowHasObject
  <2>7. s \notin overtaken' /\ cpUp'
    BY <1>0, <1>2, <2>1, <2>3 DEF CallIsGood, GetReadyModelArtifact
  <2>8. CallIsGood(s)'
    BY <1>0, <2>2, <2>3, <2>5, <2>6, <2>7 DEF CallIsGood, IsReady
  <2> QED
    BY <2>2, <2>3, <2>4, <2>5, <2>8, CallPreserves
<1>3. CASE Request(s)
  <2>1. PICK step \in {"await", "requestFailed"} : handler' = [handler EXCEPT ![s].at = step]
    BY <1>3 DEF Request, Goto
  <2>2. /\ handler' \in Calls /\ handler'[s].at = step
        /\ \A t \in Submissions \ {s} : handler'[t] = handler[t]
    BY <1>0, <2>1, Moves DEF Steps, Outcomes
  <2>3. /\ UNCHANGED <<made, object, inbox, answered, cpUp, queue, polled, refresh, history, db>>
        /\ handler[s].at = "request"
    BY <1>3 DEF Request, Post
  <2>4. /\ request' \in [Tasks -> {"none", "posted", "settled"}]
        /\ subscribed' \subseteq Tasks
    BY <1>0, <1>3 DEF Request, Post, Subscribe, ServiceTypeOK, Submissions
  <2>5. faults' \in 0..MaxFaults
    BY <1>0, <1>3 DEF Request, Fault, TypeOK
  <2>6. ServiceTypeOK'
    BY <1>0, <2>3, <2>4 DEF ServiceTypeOK
  <2>7. /\ handler[s].at \in Created
        /\ handler'[s].at \notin {"save", "ready", "built", "list", "accepted"}
    BY <2>2, <2>3 DEF Created, Steps
  <2>8. CallIsGood(s)'
    BY <1>0, <2>3, <2>7 DEF CallIsGood
  <2> QED
    BY <2>2, <2>3, <2>5, <2>6, <2>7, <2>8, CallPreserves
<1>4. ASSUME NEW step \in {"save", "requestFailed", "error"}, NEW r \in Results,
             \/ handler' = [handler EXCEPT ![s] = [at |-> step, result |-> r]]
             \/ handler' = [handler EXCEPT ![s].at = step] /\ r = handler[s].result,
             step # "error" => handler[s].at = "await",
             step = "save" => r = inbox[s],
             Unsubscribe(s), NoAnswer, HandlerOnly, UNCHANGED <<queue, db>>
      PROVE  IInv'
  <2>1. /\ handler' \in Calls /\ handler'[s].at = step /\ handler'[s].result = r
        /\ \A t \in Submissions \ {s} : handler'[t] = handler[t]
    BY <1>0, <1>4, Moves DEF Steps, Outcomes
  <2>2. /\ subscribed' \subseteq Tasks /\ inbox' \in [Tasks -> Results]
        /\ \A t \in Tasks : inbox'[t] \in {inbox[t], NoResult}
    BY <1>0, <1>4 DEF Unsubscribe, ServiceTypeOK
  <2>3. ServiceTypeOK' /\ faults' \in 0..MaxFaults
    BY <1>0, <1>4, <2>2 DEF ServiceTypeOK, TypeOK
  <2>4. /\ handler'[s].at \in Created => handler[s].at \in Created
        /\ handler'[s].at \notin {"ready", "built", "list", "accepted"}
    BY <1>4, <2>1 DEF Created, Steps
  <2>5. r.ok /\ step = "save" => r.binary \in made[s]
    BY <1>4 DEF IInv, BuildsAreGood, Submissions
  <2>6. CallIsGood(s)'
    BY <1>0, <1>4, <2>1, <2>4, <2>5 DEF CallIsGood
  <2> QED
    BY <1>4, <2>1, <2>2, <2>3, <2>4, <2>6, CallPreserves
<1>5. CASE ReceiveReply(s)
  BY <1>0, <1>4, <1>5 DEF ReceiveReply
<1>6. CASE RequestTimeout(s)
  BY <1>0, <1>4, <1>6 DEF RequestTimeout, Goto
<1>7. CASE CallerGone(s)
  BY <1>0, <1>4, <1>7 DEF CallerGone
<1> QED
  BY <1>1, <1>2, <1>3, <1>5, <1>6, <1>7

-----------------------------------------------------------------------------
(* Steps of a call that write a row. *)

\* The insert of the batch and its experiments, or the violation of the primary key.
LEMMA CreatePreserves ==
    ASSUME IInv, NEW s \in Submissions, CreateExperimentBatch(s) PROVE IInv'
<1> DEFINE b == BatchOf[s]
<1> USE Constants DEF IInv
<1>0. /\ handler[s].at = "create" /\ handler[s].result \in Results /\ b \in Batches
      /\ UNCHANGED <<service, faults, cpUp, polled, refresh, history, queue, artifact>>
      /\ IF batch[b] # NoStatus
         THEN handler' = [handler EXCEPT ![s].at = "error"] /\ UNCHANGED <<batch, experiment>>
         ELSE /\ handler' = [handler EXCEPT ![s].at = "check"]
              /\ batch' = [batch EXCEPT ![b] = "SUBMITTED"]
              /\ experiment' = [e \in Experiments |-> IF e \in Of(b) THEN "PENDING" ELSE experiment[e]]
  BY DEF CreateExperimentBatch, At, Goto, HandlerOnly, CallOnly, TypeOK
<1>1. CASE batch[b] # NoStatus
  <2>1. /\ handler' \in Calls /\ handler'[s].at = "error"
        /\ \A t \in Submissions \ {s} : handler'[t] = handler[t]
    <3>1. handler' = [handler EXCEPT ![s].at = "error"] /\ "error" \in Outcomes
      BY <1>0, <1>1 DEF Outcomes
    <3> QED
      BY <3>1, GoesTo
  <2>2. ServiceTypeOK' /\ faults' \in 0..MaxFaults
    BY <1>0 DEF service, ServiceTypeOK, TypeOK
  <2>3. CallIsGood(s)'
    BY <2>1 DEF CallIsGood, Created, Steps
  <2>4. handler'[s].at \notin Created
    BY <2>1 DEF Created, Steps
  <2> QED
    BY <1>0, <1>1, <2>1, <2>2, <2>3, <2>4, CallPreserves DEF service
<1>2. CASE batch[b] = NoStatus
  <2>1. /\ handler' \in Calls /\ handler'[s].at = "check"
        /\ \A t \in Submissions \ {s} : handler'[t] = handler[t]
    <3>1. handler' = [handler EXCEPT ![s].at = "check"] /\ "check" \in Steps
      BY <1>0, <1>2 DEF Steps
    <3> QED
      BY <3>1, GoesTo
  <2>2. ServiceTypeOK'
    BY <1>0 DEF service, ServiceTypeOK, TypeOK
  <2>3. /\ \A c \in Batches : batch'[c] = IF c = b THEN "SUBMITTED" ELSE batch[c]
        /\ batch' \in [Batches -> BatchStatuses \cup {NoStatus}]
        /\ experiment' \in [Experiments -> {NoStatus, "PENDING", "STARTING"} \cup Ended]
        /\ \A e \in Experiments : experiment'[e] = IF Batch[e] = b THEN "PENDING" ELSE experiment[e]
    BY <1>0, <1>2 DEF TypeOK, BatchStatuses, Of
  <2>4. TypeOK'
    BY <1>0, <2>1, <2>2, <2>3 DEF TypeOK, Calls, service
  <2>5. /\ \A t \in Submissions \ {s} : BatchOf[t] = b => handler[t].at \notin Created
        /\ \A e \in Of(b) : experiment[e] = NoStatus /\ refresh[e] = "none"
    BY <1>2 DEF CallsAreGood, CallIsGood, RowsAreGood, RefreshesAreGood, NoStatus, Ended
  <2>6. \A c \in Batches \ {b} : AllEnded(c) <=> AllEnded(c)'
    BY <2>3 DEF AllEnded
  <2>7. CallsAreGood'
    <3> SUFFICES ASSUME NEW t \in Submissions PROVE CallIsGood(t)'
      BY DEF CallsAreGood
    <3>1. CASE t = s
      <4>1. s \notin overtaken'
        BY <1>0 DEF CallsAreGood, CallIsGood
      <4> QED
        BY <2>1, <2>3, <3>1, <4>1 DEF CallIsGood, NoStatus
    <3>2. CASE t # s /\ BatchOf[t] = b
      BY <1>0, <2>1, <2>5, <3>2 DEF CallIsGood, CallsAreGood, Created, Steps
    <3>3. CASE t # s /\ BatchOf[t] # b
      <4>1. CallIsGood(t) /\ batch'[BatchOf[t]] = batch[BatchOf[t]] /\ handler'[t] = handler[t]
            /\ (AllEnded(BatchOf[t]) <=> AllEnded(BatchOf[t])')
        BY <2>1, <2>3, <2>6, <3>3 DEF CallsAreGood
      <4> QED
        BY <1>0, <4>1 DEF CallIsGood, IsReady, service
    <3> QED
      BY <3>1, <3>2, <3>3
  <2>8. OneCallPerBatch'
    BY <2>1, <2>5 DEF OneCallPerBatch
  <2>9. BuildsAreGood' /\ RowsAreGood'
    <3>1. BuildsAreGood'
      BY <1>0 DEF BuildsAreGood, service
    <3>2. RowsAreGood'
      BY <1>0, <2>3 DEF RowsAreGood, NoStatus
    <3> QED
      BY <3>1, <3>2
  <2>10. RefreshesAreGood'
    <3>1. SUFFICES ASSUME NEW e \in Experiments, refresh[e] # "none"
                   PROVE  experiment'[e] = experiment[e] /\ (AllEnded(Batch[e]) => AllEnded(Batch[e])')
      BY <1>0, <2>3, <2>5 DEF RefreshesAreGood, Ended
    <3>2. Batch[e] # b
      BY <2>5, <3>1
    <3> QED
      BY <2>3, <2>6, <3>2
  <2>11. ReadyIsBacked'
    BY <1>0, <2>3 DEF ReadyIsBacked, service
  <2>12. AcceptedIsQueued'
    <3> SUFFICES ASSUME cpUp', NEW t \in Submissions, handler'[t].at = "accepted",
                        t \notin overtaken', NEW e \in Of(BatchOf[t]) \ beyondLimit',
                        experiment'[e] = "PENDING"
                 PROVE  queue'[e] # NotQueued
      BY DEF AcceptedIsQueued
    <3>1. t # s /\ handler[t].at = "accepted"
      BY <2>1
    <3>2. BatchOf[t] # b
      BY <2>5, <3>1 DEF Created
    <3>3. experiment[e] = "PENDING"
      BY <2>3, <3>2
    <3> QED
      BY <1>0, <3>1, <3>3 DEF AcceptedIsQueued
  <2>13. EndedBatchHasEnded'
    <3>1. \A c \in Batches : EndedBatchHasEnded =>
            (batch[c] \in {"FINISHED", "CANCELED"} \/ c \in polled => AllEnded(c))
      BY DEF EndedBatchHasEnded, AllEnded
    <3>2. b \notin polled
      BY <2>5, <3>1 DEF AllEnded, Ended, NoStatus
    <3>3. \A c \in Batches : batch'[c] \in {"FINISHED", "CANCELED"} \/ c \in polled' => AllEnded(c)'
      BY <1>0, <2>3, <2>6, <3>1, <3>2
    <3> QED
      BY <3>3 DEF EndedBatchHasEnded, AllEnded
  <2> QED
    BY <2>4, <2>7, <2>8, <2>9, <2>10, <2>11, <2>12, <2>13
<1> QED
  BY <1>1, <1>2

\* The call writes what its build came to into the row of its batch.
LEMMA StatusPreserves ==
    ASSUME IInv, NEW s \in Submissions, NEW from, NEW status, NEW to,
           \/ from = "building" /\ status = "BUILDING" /\ to = "request"
           \/ from \in {"requestFailed", "failed"} /\ status = "FAILED" /\ to = "notAccepted"
           \/ from \in {"ready", "built"} /\ status = "READY" /\ to = "list",
           UpdateBatchStatus(s, from, status, to)
    PROVE  IInv'
<1> DEFINE b == BatchOf[s]
<1> USE Constants DEF IInv
<1>0. /\ handler[s].at = from /\ handler[s].result \in Results /\ b \in Batches
      /\ from \in Created /\ to \in {"request", "notAccepted", "list"}
      /\ to \in Created /\ to \notin {"save", "ready", "built", "accepted"}
      /\ (to = "list" => from \in Relies) /\ cpUp
      /\ UNCHANGED <<service, faults, cpUp, polled, refresh, history, queue, artifact, experiment>>
  BY DEF UpdateBatchStatus, At, HandlerOnly, CallOnly, TypeOK, Created, Steps
<1>1. /\ handler' \in Calls /\ handler'[s].at = to
      /\ \A t \in Submissions \ {s} : handler'[t] = handler[t]
  BY <1>0, Moves DEF Steps, Outcomes, UpdateBatchStatus, Goto
<1>2. /\ status \in {"BUILDING", "FAILED", "READY"}
      /\ batch' \in [Batches -> BatchStatuses \cup {NoStatus}]
      /\ \A c \in Batches : batch'[c] = IF c = b THEN status ELSE batch[c]
  BY <1>0 DEF UpdateBatchStatus, TypeOK, BatchStatuses, Ended
<1>3. ServiceTypeOK'
  BY <1>0 DEF service, ServiceTypeOK, TypeOK
<1>4. TypeOK'
  BY <1>0, <1>1, <1>2, <1>3 DEF TypeOK, Calls
<1>5. \A c \in Batches : AllEnded(c) <=> AllEnded(c)'
  BY <1>0 DEF AllEnded
<1>6. OneCallPerBatch'
  BY <1>0, <1>1 DEF OneCallPerBatch
<1>7. CallsAreGood'
  <2> SUFFICES ASSUME NEW t \in Submissions PROVE CallIsGood(t)'
    BY DEF CallsAreGood
  <2>1. CASE t = s
    <3>1. batch'[b] # NoStatus /\ (to = "list" => batch'[b] = "READY")
      BY <1>0, <1>2 DEF CallsAreGood, CallIsGood, NoStatus
    <3>2. to = "list" => (s \in overtaken' <=> ~IsReady(ModelOf[s])')
      BY <1>0 DEF CallsAreGood, CallIsGood, IsReady, service
    <3>3. s \in overtaken' => to = "list"
      BY <1>0 DEF CallsAreGood, CallIsGood
    <3> QED
      BY <1>0, <1>1, <2>1, <3>1, <3>2, <3>3 DEF CallIsGood
  <2>2. CASE t # s
    <3>1. handler[t].at \in Created => BatchOf[t] # b
      BY <1>0, <2>2 DEF OneCallPerBatch
    <3>2. CallIsGood(t) /\ handler'[t] = handler[t]
      BY <1>1, <2>2 DEF CallsAreGood
    <3>3. handler[t].at \in {"list", "accepted"} => handler[t].at \in Created
      BY DEF Created, Steps
    <3>4. /\ handler[t].at \in Created => batch'[BatchOf[t]] # NoStatus
          /\ handler[t].at \in {"list", "accepted"} =>
                batch'[BatchOf[t]] \in {"READY", "RUNNING"} \/ AllEnded(BatchOf[t])'
      BY <1>2, <1>5, <3>1, <3>2, <3>3 DEF CallIsGood
    <3>5. /\ IsReady(ModelOf[t]) <=> IsReady(ModelOf[t])'
          /\ UNCHANGED <<cpUp, overtaken, made, object>>
      BY <1>0 DEF IsReady, service
    <3> QED
      BY <3>2, <3>4, <3>5 DEF CallIsGood
  <2> QED
    BY <2>1, <2>2
<1>8. BuildsAreGood' /\ RefreshesAreGood'
  BY <1>0, <1>5 DEF BuildsAreGood, RefreshesAreGood, service
<1>9. RowsAreGood'
  BY <1>0, <1>2 DEF RowsAreGood, NoStatus
<1>10. ReadyIsBacked'
  <2>1. status = "READY" => object[ModelOf[s]] # NoDigest
    BY <1>0 DEF CallsAreGood, CallIsGood
  <2> QED
    BY <1>0, <1>2, <2>1 DEF ReadyIsBacked, service
<1>11. AcceptedIsQueued'
  BY <1>0, <1>1 DEF AcceptedIsQueued
<1>12. EndedBatchHasEnded'
  BY <1>0, <1>2 DEF EndedBatchHasEnded
<1> QED
  BY <1>4, <1>6, <1>7, <1>8, <1>9, <1>10, <1>11, <1>12

\* A row that another call takes back no longer counts: those that rely on it are overtaken.
LEMMA ArtifactPreserves ==
    ASSUME IInv, NEW s \in Submissions, MarkModelArtifactBuilding(s) \/ SaveCodegenResult(s)
    PROVE  IInv'
<1> DEFINE m == ModelOf[s]  r == handler[s].result
<1> USE Constants DEF IInv
<1>0. /\ r \in Results /\ m \in Models /\ cpUp
      /\ r.ok => r.binary \in Digests
      /\ r.binary \in Digests \cup {NoDigest}
      /\ UNCHANGED <<service, faults, cpUp, polled, refresh, queue, beyondLimit, batch, experiment>>
  BY DEF MarkModelArtifactBuilding, SaveCodegenResult, HandlerOnly, CallOnly, TypeOK, Results,
         NoResult, Failure, Success, At
<1>1. PICK to \in {"building", "built", "failed"} :
        /\ handler' \in Calls /\ handler'[s].at = to
        /\ \A t \in Submissions \ {s} : handler'[t] = handler[t]
        /\ handler[s].at = IF to = "building" THEN "mark" ELSE "save"
        /\ to = "built" <=> handler[s].at = "save" /\ r.ok
        /\ \A k \in Models \ {m} : artifact'[k] = artifact[k]
        /\ artifact'[m].status = IF to = "building" THEN "BUILDING"
                                 ELSE IF r.ok THEN "READY" ELSE "FAILED"
        /\ artifact'[m].binary = IF to = "building" THEN artifact[m].binary ELSE r.binary
        /\ artifact' \in [Models -> [status : {NoStatus, "BUILDING", "READY", "FAILED"},
                                     binary : Digests \cup {NoDigest}]]
        /\ overtaken' = IF to = "built" THEN overtaken \ Relying(m) ELSE overtaken \cup Relying(m)
  <2>1. NoResult \in Results
    BY DEF Results
  <2>2. CASE MarkModelArtifactBuilding(s)
    <3>1. handler' \in Calls /\ handler'[s].at = "building"
          /\ \A t \in Submissions \ {s} : handler'[t] = handler[t]
      <4>1. handler' = [handler EXCEPT ![s].at = "building"] /\ "building" \in Steps
        BY <2>2 DEF MarkModelArtifactBuilding, Goto, Steps
      <4> QED
        BY <1>0, <4>1, GoesTo
    <3>2. handler[s].at = "mark" /\ overtaken' = overtaken \cup Relying(m)
          /\ artifact' = [artifact EXCEPT ![m].status = "BUILDING"]
      BY <2>2 DEF MarkModelArtifactBuilding, At
    <3>3. /\ \A k \in Models \ {m} : artifact'[k] = artifact[k]
          /\ artifact'[m].status = "BUILDING" /\ artifact'[m].binary = artifact[m].binary
          /\ artifact' \in [Models -> [status : {NoStatus, "BUILDING", "READY", "FAILED"},
                                       binary : Digests \cup {NoDigest}]]
      BY <1>0, <3>2 DEF TypeOK
    <3> QED
      BY <3>1, <3>2, <3>3
  <2>3. CASE SaveCodegenResult(s)
    <3> DEFINE to == IF r.ok THEN "built" ELSE "failed"
               row == [status |-> IF r.ok THEN "READY" ELSE "FAILED", binary |-> r.binary]
    <3>1. /\ handler[s].at = "save"
          /\ overtaken' = IF r.ok THEN overtaken \ Relying(m) ELSE overtaken \cup Relying(m)
          /\ handler' = [handler EXCEPT ![s] = [at |-> to, result |-> NoResult]]
          /\ artifact' = [artifact EXCEPT ![m] = row]
      BY <2>3 DEF SaveCodegenResult, At, Overtake
    <3>2. to \in Steps
      BY DEF Steps
    <3>3. /\ row \in [status : {NoStatus, "BUILDING", "READY", "FAILED"},
                      binary : Digests \cup {NoDigest}]
          /\ row.status = (IF r.ok THEN "READY" ELSE "FAILED") /\ row.binary = r.binary
      BY <1>0
    <3>4. to = "built" <=> r.ok
      OBVIOUS
    <3>5. to \in {"built", "failed"}
      OBVIOUS
    <3> HIDE DEF to, row
    <3>6. handler' \in Calls /\ handler'[s].at = to
          /\ \A t \in Submissions \ {s} : handler'[t] = handler[t]
      BY <1>0, <2>1, <3>1, <3>2, Moves
    <3>7. /\ \A k \in Models \ {m} : artifact'[k] = artifact[k] /\ artifact'[m] = row
          /\ artifact' \in [Models -> [status : {NoStatus, "BUILDING", "READY", "FAILED"},
                                       binary : Digests \cup {NoDigest}]]
      BY <1>0, <3>1, <3>3 DEF TypeOK
    <3> QED
      BY <3>1, <3>3, <3>4, <3>5, <3>6, <3>7
  <2> QED
    BY <2>2, <2>3
<1>2. ServiceTypeOK'
  BY <1>0 DEF service, ServiceTypeOK, TypeOK
<1>3. TypeOK'
  <2>1. overtaken' \subseteq Submissions
    BY <1>1 DEF TypeOK, Relying
  <2> QED
    BY <1>0, <1>1, <1>2, <2>1 DEF TypeOK, Calls
<1>4. to # "building" /\ r.ok => r.binary \in made[s]
  BY <1>1 DEF CallsAreGood, CallIsGood
<1>5. handler[s].at \in Created /\ to \in Created
  BY <1>1 DEF Created, Steps
<1>6. CallsAreGood'
  <2> SUFFICES ASSUME NEW t \in Submissions PROVE CallIsGood(t)'
    BY DEF CallsAreGood
  <2>1. CASE t = s
    <3>1. to = "built" => object[m] # NoDigest /\ IsReady(m)'
      BY <1>0, <1>1, <1>4 DEF BuildsAreGood, IsReady, Submissions
    <3>2. batch[BatchOf[s]] # NoStatus
      BY <1>5 DEF CallsAreGood, CallIsGood
    <3>3. s \notin overtaken'
      BY <1>1 DEF CallsAreGood, CallIsGood, Relying
    <3> QED
      BY <1>0, <1>1, <1>5, <2>1, <3>1, <3>2, <3>3 DEF CallIsGood, service
  <2>2. CASE t # s
    <3>1. CallIsGood(t) /\ handler'[t] = handler[t]
      BY <1>1, <2>2 DEF CallsAreGood
    <3>2. handler[t].at \in Relies => (t \in overtaken' <=> ~IsReady(ModelOf[t])')
      <4>1. CASE ModelOf[t] = m /\ handler[t].at \in Relies
        <5>1. t \in Relying(m)
          BY <4>1 DEF Relying
        <5>2. IsReady(m)' <=> to = "built"
          BY <1>0, <1>1 DEF IsReady
        <5> QED
          BY <1>1, <4>1, <5>1, <5>2
      <4>2. CASE ModelOf[t] # m /\ handler[t].at \in Relies
        <5>1. t \notin Relying(m) /\ (IsReady(ModelOf[t])' <=> IsReady(ModelOf[t]))
          BY <1>1, <4>2 DEF Relying, IsReady
        <5> QED
          BY <1>1, <3>1, <4>2, <5>1 DEF CallIsGood
      <4> QED
        BY <4>1, <4>2
    <3>3. UNCHANGED <<cpUp, batch, made, object>> /\ (AllEnded(BatchOf[t]) <=> AllEnded(BatchOf[t])')
      BY <1>0 DEF AllEnded, service
    <3>4. t \in overtaken' => t \in overtaken \/ handler[t].at \in Relies
      BY <1>1 DEF Relying
    <3> QED
      BY <1>5, <3>1, <3>2, <3>3, <3>4 DEF CallIsGood
  <2> QED
    BY <2>1, <2>2
<1>7. OneCallPerBatch'
  BY <1>1, <1>5 DEF OneCallPerBatch
<1>8. BuildsAreGood' /\ RowsAreGood' /\ RefreshesAreGood' /\ EndedBatchHasEnded'
  BY <1>0 DEF BuildsAreGood, RowsAreGood, RefreshesAreGood, AllEnded, EndedBatchHasEnded, service
<1>9. ReadyIsBacked'
  BY <1>0, <1>1, <1>4 DEF ReadyIsBacked, service, Submissions
<1>10. AcceptedIsQueued'
  <2>1. \A t \in Submissions : t \in overtaken /\ handler[t].at = "accepted" => t \in overtaken'
    BY <1>1 DEF Relying
  <2>2. \A t \in Submissions : handler'[t].at = "accepted" => t # s /\ handler[t].at = "accepted"
    BY <1>1
  <2> QED
    BY <1>0, <2>1, <2>2 DEF AcceptedIsQueued
<1> QED
  BY <1>3, <1>6, <1>7, <1>8, <1>9, <1>10

\* The batch is listed after its row says READY, so that nothing pending is missed.
LEMMA ListPreserves ==
    ASSUME IInv, NEW s \in Submissions, ListAndEnqueue(s) PROVE IInv'
<1> USE Constants DEF IInv
<1>0. /\ handler[s].at = "list" /\ handler[s].result \in Results /\ BatchOf[s] \in Batches
      /\ UNCHANGED <<service, faults, cpUp, polled, refresh, history, batch, artifact, experiment>>
      /\ Enqueue(Schedulable(BatchOf[s]))
  BY DEF ListAndEnqueue, At, HandlerOnly, CallOnly, TypeOK, db
<1>1. /\ handler' \in Calls /\ handler'[s].at = "accepted"
      /\ \A t \in Submissions \ {s} : handler'[t] = handler[t]
  BY <1>0, Moves DEF Outcomes, ListAndEnqueue, Goto
<1>2. /\ queue' \in [Experiments -> Digests \cup {NotQueued}]
      /\ \A e \in Experiments : queue[e] # NotQueued => queue'[e] = queue[e]
      /\ \A e \in Schedulable(BatchOf[s]) : queue'[e] # NotQueued
  BY <1>0, EnqueueKeeps, SchedulableHasBinary
<1>3. ServiceTypeOK'
  BY <1>0 DEF service, ServiceTypeOK, TypeOK
<1>4. TypeOK'
  BY <1>0, <1>1, <1>2, <1>3 DEF TypeOK, Calls
<1>5. CallsAreGood'
  BY <1>0, <1>1 DEF CallsAreGood, CallIsGood, Created, Steps, IsReady, AllEnded, service
<1>6. OneCallPerBatch'
  BY <1>0, <1>1 DEF OneCallPerBatch, Created, Steps
<1>7. BuildsAreGood' /\ RowsAreGood' /\ RefreshesAreGood' /\ EndedBatchHasEnded' /\ ReadyIsBacked'
  BY <1>0 DEF BuildsAreGood, RowsAreGood, RefreshesAreGood, AllEnded, EndedBatchHasEnded,
              ReadyIsBacked, service
<1>8. AcceptedIsQueued'
  <2>1. s \notin overtaken => \A e \in Of(BatchOf[s]) : experiment[e] = "PENDING" => queue'[e] # NotQueued
    <3>1. s \notin overtaken => IsReady(ModelOf[s])
      BY <1>0 DEF CallsAreGood, CallIsGood
    <3> QED
      BY <1>0, <1>2, <3>1, PendingIsSchedulable
  <2> QED
    BY <1>0, <1>1, <1>2, <2>1 DEF AcceptedIsQueued
<1> QED
  BY <1>4, <1>5, <1>6, <1>7, <1>8

-----------------------------------------------------------------------------
(* The experiments. *)

\* An experiment moves on from PENDING or STARTING; one that has ended stays as it is.
LEMMA ExperimentMoves ==
    ASSUME IInv, NEW e \in Experiments, experiment[e] # NoStatus,
           experiment' \in [Experiments -> {NoStatus, "PENDING", "STARTING"} \cup Ended],
           \A x \in Experiments \ {e} : experiment'[x] = experiment[x],
           experiment[e] \in Ended => experiment'[e] = experiment[e],
           experiment'[e] = "PENDING" => experiment[e] = "PENDING",
           queue' \in [Experiments -> Digests \cup {NotQueued}],
           \A x \in Experiments \ {e} : queue'[x] = queue[x],
           experiment'[e] = "PENDING" => queue'[e] = queue[e],
           refresh' \in [Experiments -> {"none", "count", "RUNNING"} \cup Ended],
           \A x \in Experiments \ {e} : refresh'[x] = refresh[x],
           refresh'[e] = refresh[e] \/ refresh'[e] = "count",
           refresh'[e] # "none" => experiment'[e] \in Ended,
           UNCHANGED <<service, faults, cpUp, handler, polled, history, artifact, batch>>
    PROVE  IInv'
<1> USE Constants DEF IInv
<1>1. ServiceTypeOK'
  BY DEF service, ServiceTypeOK, TypeOK
<1>2. TypeOK'
  BY <1>1 DEF TypeOK, BatchStatuses
<1>3. \A b \in Batches : AllEnded(b) => AllEnded(b)'
  BY DEF AllEnded
<1>4. CallsAreGood'
  BY <1>3 DEF CallsAreGood, CallIsGood, IsReady, service
<1>5. OneCallPerBatch' /\ BuildsAreGood' /\ ReadyIsBacked'
  BY DEF OneCallPerBatch, BuildsAreGood, ReadyIsBacked, service
<1>6. RowsAreGood'
  BY DEF RowsAreGood
<1>7. RefreshesAreGood'
  <2> SUFFICES ASSUME NEW x \in Experiments
               PROVE  /\ refresh'[x] \in {"none", "count", "RUNNING"} \cup Ended
                      /\ refresh'[x] # "none" => experiment'[x] \in Ended
                      /\ refresh'[x] \in Ended => AllEnded(Batch[x])'
    BY DEF RefreshesAreGood
  <2>1. refresh'[x] \in {"none", "count", "RUNNING"} \cup Ended
    OBVIOUS
  <2>2. refresh'[x] # "none" => experiment'[x] \in Ended
    BY DEF RefreshesAreGood
  <2>3. refresh'[x] \in Ended => refresh[x] \in Ended
    BY DEF Ended
  <2>4. refresh'[x] \in Ended => AllEnded(Batch[x])'
    BY <1>3, <2>3 DEF RefreshesAreGood
  <2> QED
    BY <2>1, <2>2, <2>4
<1>8. EndedBatchHasEnded'
  BY DEF EndedBatchHasEnded
<1>9. AcceptedIsQueued'
  BY DEF AcceptedIsQueued
<1> QED
  BY <1>2, <1>4, <1>5, <1>6, <1>7, <1>8, <1>9

\* An experiment starts, ends or is canceled.
LEMMA ExperimentPreserves ==
    ASSUME IInv, NEW e \in Experiments,
           \/ StartExperiment(e) \/ EndExperiment(e) \/ CancelExperiment(e)
    PROVE  IInv'
<1>0. /\ experiment \in [Experiments -> {NoStatus, "PENDING", "STARTING"} \cup Ended]
      /\ queue \in [Experiments -> Digests \cup {NotQueued}]
      /\ refresh \in [Experiments -> {"none", "count", "RUNNING"} \cup Ended]
      /\ refresh[e] # "none" => experiment[e] \in Ended
      /\ UNCHANGED <<service, faults, cpUp, handler, polled, history, artifact, batch>>
  BY DEF StartExperiment, EndExperiment, CancelExperiment, ExperimentsOnly, IInv, TypeOK, RefreshesAreGood
<1>1. CASE StartExperiment(e)
  <2>1. CASE experiment[e] = NoStatus
    <3>1. /\ experiment' = experiment /\ UNCHANGED refresh
          /\ queue' \in [Experiments -> Digests \cup {NotQueued}]
          /\ \A x \in Experiments \ {e} : queue'[x] = queue[x]
      BY <1>0, <1>1, <2>1 DEF StartExperiment, NoStatus
    <3>2. ServiceTypeOK'
      BY <1>0 DEF service, ServiceTypeOK, IInv, TypeOK
    <3>3. TypeOK'
      BY <1>0, <3>1, <3>2 DEF IInv, TypeOK
    <3>4. CallsAreGood' /\ OneCallPerBatch' /\ BuildsAreGood' /\ RowsAreGood'
      BY <1>0, <3>1 DEF IInv, CallsAreGood, CallIsGood, IsReady, AllEnded, OneCallPerBatch,
                        BuildsAreGood, RowsAreGood, service
    <3>5. RefreshesAreGood' /\ ReadyIsBacked' /\ EndedBatchHasEnded'
      BY <1>0, <3>1 DEF IInv, RefreshesAreGood, AllEnded, ReadyIsBacked, EndedBatchHasEnded, service
    <3>6. AcceptedIsQueued'
      BY <1>0, <2>1, <3>1, Constants DEF IInv, AcceptedIsQueued, NoStatus
    <3> QED
      BY <3>3, <3>4, <3>5, <3>6 DEF IInv
  <2>2. CASE experiment[e] # NoStatus
    <3>1. /\ experiment' \in [Experiments -> {NoStatus, "PENDING", "STARTING"} \cup Ended]
          /\ \A x \in Experiments \ {e} : experiment'[x] = experiment[x]
          /\ experiment'[e] = IF experiment[e] = "PENDING" THEN "STARTING" ELSE experiment[e]
          /\ queue' \in [Experiments -> Digests \cup {NotQueued}] /\ UNCHANGED refresh
          /\ \A x \in Experiments \ {e} : queue'[x] = queue[x]
      BY <1>0, <1>1 DEF StartExperiment
    <3>2. experiment[e] \in Ended => experiment'[e] = experiment[e] /\ experiment'[e] # "PENDING"
      BY <3>1 DEF Ended
    <3>3. experiment'[e] # "PENDING"
      BY <3>1
    <3> QED
      BY <1>0, <2>2, <3>1, <3>2, <3>3, ExperimentMoves
  <2> QED
    BY <2>1, <2>2
<1>2. ASSUME experiment[e] \in {"PENDING", "STARTING"},
             NEW status \in Ended, experiment' = [experiment EXCEPT ![e] = status],
             refresh' = [refresh EXCEPT ![e] = "count"],
             queue' = queue \/ queue' = [queue EXCEPT ![e] = NotQueued]
      PROVE  IInv'
  <2>1. /\ experiment[e] # NoStatus /\ experiment[e] \notin Ended /\ status # "PENDING"
    BY <1>2 DEF NoStatus, Ended
  <2>2. /\ experiment' \in [Experiments -> {NoStatus, "PENDING", "STARTING"} \cup Ended]
        /\ \A x \in Experiments \ {e} : experiment'[x] = experiment[x]
        /\ experiment'[e] = status
        /\ refresh' \in [Experiments -> {"none", "count", "RUNNING"} \cup Ended]
        /\ \A x \in Experiments \ {e} : refresh'[x] = refresh[x]
        /\ refresh'[e] = "count"
        /\ queue' \in [Experiments -> Digests \cup {NotQueued}]
        /\ \A x \in Experiments \ {e} : queue'[x] = queue[x]
    BY <1>0, <1>2
  <2> QED
    BY <1>0, <2>1, <2>2, ExperimentMoves
<1>3. CASE EndExperiment(e)
  BY <1>2, <1>3 DEF EndExperiment
<1>4. CASE CancelExperiment(e)
  <2>1. "CANCELED" \in Ended
    BY DEF Ended
  <2> QED
    BY <1>2, <1>4, <2>1 DEF CancelExperiment
<1> QED
  BY <1>1, <1>3, <1>4

\* RefreshBatchStatus: all that a count may say of the end of a batch is still true when
\* it is written, since an experiment that has ended never leaves that state.
LEMMA RefreshPreserves ==
    ASSUME IInv, NEW e \in Experiments, RefreshCount(e) \/ RefreshWrite(e) PROVE IInv'
<1> DEFINE b == Batch[e]
<1> USE Constants DEF IInv
<1>0. /\ UNCHANGED <<service, faults, cpUp, handler, polled, history, artifact, queue, experiment>>
      /\ refresh[e] # "none" /\ b \in Batches /\ e \in Of(b)
  BY DEF RefreshCount, RefreshWrite, ExperimentsOnly, BatchStatuses, Ended
<1>1. experiment[e] \in Ended /\ batch[b] # NoStatus
  BY <1>0 DEF RefreshesAreGood, RowsAreGood, Ended, NoStatus
<1>2. ServiceTypeOK'
  BY <1>0 DEF service, ServiceTypeOK, TypeOK
<1>3. \A c \in Batches : AllEnded(c) <=> AllEnded(c)'
  BY <1>0 DEF AllEnded
<1>4. OneCallPerBatch' /\ BuildsAreGood' /\ AcceptedIsQueued'
  BY <1>0 DEF OneCallPerBatch, BuildsAreGood, AcceptedIsQueued, service
<1>5. CASE RefreshCount(e)
  <2>1. CountedStatus(b) \in {"RUNNING"} \cup Ended /\ (CountedStatus(b) \in Ended => AllEnded(b))
    BY DEF CountedStatus, Ended, AllEnded
  <2>2. /\ UNCHANGED batch
        /\ \A x \in Experiments : refresh'[x] = IF x = e THEN CountedStatus(b) ELSE refresh[x]
        /\ refresh' \in [Experiments -> BatchStatuses \cup {"none", "count"}]
    BY <1>5, <2>1 DEF RefreshCount, TypeOK, BatchStatuses
  <2>3. TypeOK'
    BY <1>0, <1>2, <2>2 DEF TypeOK
  <2>4. CallsAreGood' /\ RowsAreGood' /\ ReadyIsBacked' /\ EndedBatchHasEnded'
    BY <1>0, <2>2 DEF CallsAreGood, CallIsGood, IsReady, AllEnded, RowsAreGood,
                      ReadyIsBacked, EndedBatchHasEnded, service
  <2>5. RefreshesAreGood'
    BY <1>0, <1>1, <1>3, <2>1, <2>2 DEF RefreshesAreGood
  <2> QED
    BY <1>4, <2>3, <2>4, <2>5
<1>6. CASE RefreshWrite(e)
  <2>1. /\ refresh[e] \in {"RUNNING"} \cup Ended /\ (refresh[e] \in Ended => AllEnded(b))
        /\ refresh[e] # NoStatus
    BY <1>6 DEF RefreshWrite, RefreshesAreGood, BatchStatuses, Ended, NoStatus
  <2>2. /\ batch' \in [Batches -> BatchStatuses \cup {NoStatus}]
        /\ \A c \in Batches : batch'[c] = IF c = b THEN refresh[e] ELSE batch[c]
        /\ \A x \in Experiments : refresh'[x] = IF x = e THEN "none" ELSE refresh[x]
        /\ refresh' \in [Experiments -> BatchStatuses \cup {"none", "count"}]
    BY <1>0, <1>6 DEF RefreshWrite, TypeOK
  <2>3. TypeOK'
    BY <1>0, <1>2, <2>2 DEF TypeOK
  <2>4. CallsAreGood'
    <3> SUFFICES ASSUME NEW t \in Submissions PROVE CallIsGood(t)'
      BY DEF CallsAreGood
    <3>1. CallIsGood(t)
      BY DEF CallsAreGood
    <3>2. /\ handler[t].at \in Created => batch'[BatchOf[t]] # NoStatus
          /\ handler[t].at \in {"list", "accepted"} =>
                batch'[BatchOf[t]] \in {"READY", "RUNNING"} \/ AllEnded(BatchOf[t])'
      BY <1>3, <2>1, <2>2, <3>1 DEF CallIsGood
    <3>3. /\ IsReady(ModelOf[t]) <=> IsReady(ModelOf[t])'
          /\ UNCHANGED <<cpUp, handler, overtaken, made, object>>
      BY <1>0 DEF IsReady, service
    <3> QED
      BY <3>1, <3>2, <3>3 DEF CallIsGood
  <2>5. RowsAreGood'
    <3>1. \A c \in Batches : batch'[c] # NoStatus <=> batch[c] # NoStatus
      BY <1>1, <2>1, <2>2
    <3> QED
      BY <1>0, <3>1 DEF RowsAreGood
  <2>6. RefreshesAreGood'
    BY <1>0, <1>3, <2>2 DEF RefreshesAreGood, Ended
  <2>7. ReadyIsBacked'
    BY <1>0, <2>1, <2>2 DEF ReadyIsBacked, Ended, service
  <2>8. EndedBatchHasEnded'
    BY <1>0, <2>1, <2>2 DEF EndedBatchHasEnded, AllEnded, Ended
  <2> QED
    BY <1>4, <2>3, <2>4, <2>5, <2>6, <2>7, <2>8
<1> QED
  BY <1>5, <1>6

-----------------------------------------------------------------------------
(* Polls, the control plane's own life, and the build service. *)

\* The poll of a batch.
LEMMA PollPreserves ==
    ASSUME IInv, NEW b \in Batches, GetExperimentBatch(b) PROVE IInv'
<1> USE DEF IInv
<1>0. /\ UNCHANGED <<service, faults, cpUp, handler, queue, refresh, history, batch, artifact, experiment>>
      /\ polled' \subseteq Batches
      /\ \A c \in polled' : c \in polled \/ batch[c] \in {"FINISHED", "CANCELED"}
  BY DEF GetExperimentBatch, ReadBatchRow, ListExperimentsByBatch, PollOnly, db, TypeOK
<1>1. ServiceTypeOK'
  BY <1>0 DEF service, ServiceTypeOK, TypeOK
<1>2. TypeOK'
  BY <1>0, <1>1 DEF TypeOK
<1>3. CallsAreGood' /\ OneCallPerBatch' /\ BuildsAreGood' /\ RowsAreGood' /\ RefreshesAreGood'
  BY <1>0 DEF CallsAreGood, CallIsGood, IsReady, AllEnded, OneCallPerBatch, BuildsAreGood,
              RowsAreGood, RefreshesAreGood, service
<1>4. ReadyIsBacked' /\ AcceptedIsQueued'
  BY <1>0 DEF ReadyIsBacked, AcceptedIsQueued, service
<1>5. EndedBatchHasEnded'
  BY <1>0 DEF EndedBatchHasEnded
<1> QED
  BY <1>2, <1>3, <1>4, <1>5

\* The control plane stops, and forgets its calls.
LEMMA CrashPreserves ==
    ASSUME IInv, ControlPlaneCrash PROVE IInv'
<1> USE Constants DEF IInv
<1>0. /\ UNCHANGED <<request, made, object, answered, batch, artifact, experiment>>
      /\ cpUp' = FALSE /\ subscribed' = {} /\ polled' = {} /\ overtaken' = {} /\ beyondLimit' = {}
      /\ faults < MaxFaults /\ faults' = faults + 1
  BY DEF ControlPlaneCrash, NoAnswer, db, Fault
<1>1. /\ \A s \in Submissions : handler'[s] = IF handler[s].at \in Steps
                                              THEN [at |-> "error", result |-> NoResult] ELSE handler[s]
      /\ inbox' = [s \in Submissions |-> NoResult]
      /\ queue' = [e \in Experiments |-> NotQueued] /\ refresh' = [e \in Experiments |-> "none"]
  BY DEF ControlPlaneCrash
<1>2. NoResult \in Results /\ ~NoResult.ok
  BY DEF Results, NoResult
<1>3. ServiceTypeOK'
  BY <1>0, <1>1, <1>2 DEF ServiceTypeOK, TypeOK, Submissions
<1>4. handler' \in Calls
  BY <1>2 DEF ControlPlaneCrash, TypeOK, Calls, Outcomes
<1>5. faults' \in 0..MaxFaults
  BY <1>0 DEF TypeOK
<1>6. TypeOK'
  BY <1>0, <1>1, <1>3, <1>4, <1>5 DEF TypeOK, Calls
<1>7. \A s \in Submissions : \/ handler'[s].at = "error"
                             \/ handler'[s] = handler[s] /\ handler[s].at \notin Steps
  BY <1>1
<1>8. CallsAreGood'
  BY <1>0, <1>7 DEF CallsAreGood, CallIsGood, Created, Steps, IsReady, AllEnded
<1>9. OneCallPerBatch'
  BY <1>7 DEF OneCallPerBatch, Created, Steps
<1>10. BuildsAreGood' /\ RowsAreGood' /\ RefreshesAreGood'
  BY <1>0, <1>1, <1>2 DEF BuildsAreGood, RowsAreGood, RefreshesAreGood, Submissions, Ended
<1>11. ReadyIsBacked' /\ AcceptedIsQueued' /\ EndedBatchHasEnded'
  BY <1>0 DEF ReadyIsBacked, AcceptedIsQueued, EndedBatchHasEnded
<1> QED
  BY <1>6, <1>8, <1>9, <1>10, <1>11

\* bootstrap queues what is schedulable, or as much as it may list, so what was accepted is
\* in the queue again unless it is left out.
LEMMA StartPreserves ==
    ASSUME IInv, ControlPlaneStart PROVE IInv'
<1> DEFINE all == UNION {Schedulable(b) : b \in Batches}
<1> USE Constants DEF IInv
<1>0. PICK R \in SUBSET all :
        /\ UNCHANGED <<service, faults, handler, polled, refresh, batch, artifact, experiment>>
        /\ cpUp' = TRUE /\ Enqueue(R) /\ beyondLimit' = all \ R
        /\ overtaken' = {s \in Submissions : handler[s].at = "accepted" /\ ~IsReady(ModelOf[s])}
  BY DEF ControlPlaneStart, Listings, db
<1>1. all \in SUBSET Experiments /\ \A e \in R : \E b \in Batches : e \in Schedulable(b)
  BY SchedulableHasBinary
<1>2. /\ queue' \in [Experiments -> Digests \cup {NotQueued}]
      /\ \A e \in R : queue'[e] # NotQueued
  <2>1. R \in SUBSET Experiments
    BY <1>1
  <2> HIDE DEF all
  <2> QED
    BY <1>0, <1>1, <2>1, EnqueueKeeps
<1>3. ServiceTypeOK'
  BY <1>0 DEF service, ServiceTypeOK, TypeOK
<1>4. cpUp' \in BOOLEAN
  BY <1>0
<1>5. TypeOK'
  <2>1. beyondLimit' \subseteq Experiments /\ overtaken' \subseteq Submissions
    BY <1>0, <1>1
  <2> HIDE DEF all
  <2> QED
    BY <1>0, <1>2, <1>3, <1>4, <2>1 DEF TypeOK
<1>6. CallsAreGood' /\ OneCallPerBatch' /\ BuildsAreGood' /\ RowsAreGood' /\ RefreshesAreGood'
  <2>1. \A s \in Submissions : handler[s].at \notin Relies
    BY DEF ControlPlaneStart, CallsAreGood, CallIsGood
  <2>2. CallsAreGood'
    BY <1>0, <2>1 DEF CallsAreGood, CallIsGood, IsReady, AllEnded, service
  <2> QED
    BY <1>0, <2>2 DEF OneCallPerBatch, BuildsAreGood, AllEnded, RowsAreGood, RefreshesAreGood, service
<1>7. ReadyIsBacked' /\ EndedBatchHasEnded'
  BY <1>0 DEF ReadyIsBacked, EndedBatchHasEnded, service
<1>8. AcceptedIsQueued'
  <2> SUFFICES ASSUME NEW s \in Submissions, handler[s].at = "accepted", s \notin overtaken',
                      NEW e \in Of(BatchOf[s]) \ beyondLimit', experiment[e] = "PENDING"
               PROVE  queue'[e] # NotQueued
    BY <1>0 DEF AcceptedIsQueued
  <2>1. IsReady(ModelOf[s])
    BY <1>0
  <2>2. e \in Schedulable(BatchOf[s])
    BY <2>1, PendingIsSchedulable
  <2>3. e \in all
    BY <2>2
  <2> HIDE DEF all
  <2> QED
    BY <1>0, <1>2, <2>3
<1> QED
  BY <1>5, <1>6, <1>7, <1>8

\* What codegen does with a task.
LEMMA CodegenPreserves ==
    ASSUME IInv, NEW t \in Tasks, Codegen(t), UNCHANGED <<faults, controlPlane, db>> PROVE IInv'
<1> USE Constants DEF IInv, controlPlane, db
<1>0. /\ made \in [Tasks -> SUBSET Digests] /\ object \in [Models -> Digests \cup {NoDigest}]
      /\ inbox \in [Tasks -> Results] /\ ModelOf[t] \in Models
      /\ UNCHANGED <<faults, cpUp, handler, queue, polled, refresh, history, batch, artifact, experiment>>
  BY DEF TypeOK, ServiceTypeOK, Submissions
<1>1. /\ UNCHANGED <<request, subscribed, answered>>
      /\ made' \in [Tasks -> SUBSET Digests] /\ \A u \in Tasks : made[u] \subseteq made'[u]
      /\ object' \in [Models -> Digests \cup {NoDigest}]
      /\ \A m \in Models : object[m] # NoDigest => object'[m] # NoDigest
      /\ \A u \in Tasks : made'[u] # made[u] => u = t /\ object'[ModelOf[t]] # NoDigest
      /\ inbox' \in [Tasks -> Results]
      /\ \A u \in Tasks : inbox'[u].ok => inbox'[u].binary \in made'[u]
  <2>1. CASE Produce(t)
    <3>1. PICK d \in Digests : /\ object' = [object EXCEPT ![ModelOf[t]] = d]
                               /\ made' = [made EXCEPT ![t] = @ \cup {d}]
      BY <2>1 DEF Produce
    <3>2. UNCHANGED <<request, subscribed, inbox, answered>>
      BY <2>1 DEF Produce
    <3> QED
      BY <1>0, <3>1, <3>2 DEF BuildsAreGood
  <2>2. CASE Answer(t) /\ UNCHANGED answered
    <3>1. PICK r \in {Failure} \cup {Success(d) : d \in made[t]} : Deliver(t, r)
      BY <2>2 DEF Answer
    <3>2. r \in Results /\ (r.ok => r.binary \in made[t])
      BY <1>0 DEF Results, Failure, Success
    <3>3. /\ inbox' \in [Tasks -> Results]
          /\ \A u \in Tasks : inbox'[u] = inbox[u] \/ (u = t /\ inbox'[u] = r)
      BY <1>0, <3>1, <3>2 DEF Deliver
    <3>4. UNCHANGED <<request, made, object, subscribed, answered>>
      BY <2>2 DEF Answer
    <3> QED
      BY <1>0, <3>2, <3>3, <3>4 DEF BuildsAreGood
  <2> QED
    BY <2>1, <2>2 DEF Codegen
<1>2. ServiceTypeOK'
  BY <1>1 DEF ServiceTypeOK, TypeOK
<1>3. TypeOK'
  BY <1>0, <1>2 DEF TypeOK
<1>4. CallsAreGood'
  BY <1>0, <1>1 DEF CallsAreGood, CallIsGood, IsReady, AllEnded, Submissions
<1>5. OneCallPerBatch' /\ RowsAreGood' /\ RefreshesAreGood'
  BY <1>0 DEF OneCallPerBatch, RowsAreGood, RefreshesAreGood, AllEnded
<1>6. BuildsAreGood'
  BY <1>0, <1>1 DEF BuildsAreGood, Submissions
<1>7. ReadyIsBacked'
  BY <1>0, <1>1 DEF ReadyIsBacked, Submissions
<1>8. AcceptedIsQueued' /\ EndedBatchHasEnded'
  BY <1>0 DEF AcceptedIsQueued, EndedBatchHasEnded
<1> QED
  BY <1>3, <1>4, <1>5, <1>6, <1>7, <1>8

-----------------------------------------------------------------------------
\* Every step.
LEMMA NextPreserves == IInv /\ [Next]_vars => IInv'
<1> SUFFICES ASSUME IInv, [Next]_vars PROVE IInv'
  OBVIOUS
<1>1. CASE UNCHANGED vars
  <2> USE <1>1 DEF vars, controlPlane, db, service
  <2>1. ServiceTypeOK'
    BY DEF ServiceTypeOK, IInv, TypeOK
  <2>2. TypeOK'
    BY <2>1 DEF IInv, TypeOK
  <2>3. CallsAreGood' /\ OneCallPerBatch' /\ BuildsAreGood' /\ RowsAreGood' /\ RefreshesAreGood'
    BY DEF IInv, CallsAreGood, CallIsGood, IsReady, AllEnded, OneCallPerBatch,
           BuildsAreGood, RowsAreGood, RefreshesAreGood
  <2>4. ReadyIsBacked' /\ AcceptedIsQueued' /\ EndedBatchHasEnded'
    BY DEF IInv, ReadyIsBacked, AcceptedIsQueued, EndedBatchHasEnded
  <2> QED
    BY <2>2, <2>3, <2>4 DEF IInv
<1>2. ASSUME NEW s \in Submissions, Handler(s) \/ CallerGone(s) PROVE IInv'
  <2>1. CASE MarkBuilding(s)
    BY <2>1, StatusPreserves DEF MarkBuilding
  <2>2. CASE RequestFailed(s)
    BY <2>2, StatusPreserves DEF RequestFailed
  <2>3. CASE BuildFailed(s)
    BY <2>3, StatusPreserves DEF BuildFailed
  <2>4. CASE BuildReady(s)
    BY <2>4, StatusPreserves DEF BuildReady
  <2>5. CASE ReuseArtifact(s)
    BY <2>5, StatusPreserves DEF ReuseArtifact
  <2> QED
    BY <1>2, <2>1, <2>2, <2>3, <2>4, <2>5, CallStepPreserves, CreatePreserves, ArtifactPreserves,
       ListPreserves
    DEF Handler
<1> QED
  BY <1>1, <1>2, CodegenPreserves, ExperimentPreserves, RefreshPreserves, PollPreserves,
     CrashPreserves, StartPreserves
  DEF Next, Experiment

-----------------------------------------------------------------------------
\* The inductive invariant behind the theorems below.
THEOREM Invariance == Spec => []IInv
  BY InitIInv, NextPreserves, PTL DEF Spec

\* Every variable of the pipeline keeps its type: in particular what is queued always
\* names a binary.
THEOREM TypeCorrect == Spec => []TypeOK
<1>1. IInv => TypeOK
  BY DEF IInv
<1> QED
  BY <1>1, Invariance, PTL

\* For any submissions of any models, and whatever fails, is built twice or comes late: a
\* row that says READY names a binary that a build of the model has stored, and a batch
\* that says READY has an object under the key.
THEOREM ReadyMeansBuilt == Spec => []ReadyIsBacked
<1>1. IInv => ReadyIsBacked
  BY DEF IInv
<1> QED
  BY <1>1, Invariance, PTL

\* What was accepted is in the queue, also after a crash, whether it was built or reused,
\* unless another submission has taken its row back after it was seen READY and before it
\* was listed (or it stands so at a later start), or bootstrap may list no more: by the
\* invariant, a call that is about to list is overtaken exactly when the row is not READY.
THEOREM AcceptedAreQueued == Spec => []AcceptedIsQueued
<1>1. IInv => AcceptedIsQueued
  BY DEF IInv
<1> QED
  BY <1>1, Invariance, PTL

\* Counts that are written late, and polls that read two tables one after the other, never
\* show a batch as FINISHED or CANCELED while one of its experiments can still change.
THEOREM EndedBatchesHaveEnded == Spec => []EndedBatchHasEnded
<1>1. IInv => EndedBatchHasEnded
  BY DEF IInv
<1> QED
  BY <1>1, Invariance, PTL
=============================================================================
