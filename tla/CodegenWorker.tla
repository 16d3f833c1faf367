---------------------------- MODULE CodegenWorker ----------------------------
(***************************************************************************)
(* The codegen server (codegen/cmd/codegen, codegen/builder) between a     *)
(* JetStream work queue and the artifact store: one goroutine fetches a    *)
(* message for each free worker, a worker generates and builds the model,  *)
(* stores the binary under a key made of hash, goos and goarch only,       *)
(* publishes the result on the reply subject of the task and acknowledges  *)
(* the message.  Whatever is not acknowledged is delivered again.          *)
(*                                                                         *)
(* The control plane is reduced to what it does to this server: it posts a *)
(* request, once, listening for the answer or not, and may stop listening. *)
(***************************************************************************)
EXTENDS Naturals, FiniteSets

CONSTANTS
    Tasks,          \* build requests, one message each
    Models,         \* model hashes (for one goos and goarch)
    ModelOf,        \* ModelOf[t]: the model a task asks for
    Broken,         \* the models the generator or the compiler rejects
    Digests, NoDigest,
    Workers,        \* the goroutines of serveWorker
    NoTask,
    Faults,         \* the kinds of fault that may happen
    MaxFaults       \* bound: how many of them happen

FaultKinds == {"codegen_stop", "codegen_crash", "store_error", "build_timeout", "publish_error",
               "ack_error", "lost_delivery", "ack_wait"}

ASSUME CodegenAssumption ==
    /\ IsFiniteSet(Tasks) /\ NoTask \notin Tasks
    /\ ModelOf \in [Tasks -> Models] /\ Broken \subseteq Models
    /\ IsFiniteSet(Workers) /\ Workers # {}
    /\ NoDigest \notin Digests
    /\ Faults \subseteq FaultKinds /\ MaxFaults \in Nat

VARIABLES
    stream,         \* stream[t]: the message of t in the work queue
    server,         \* up, stopping (ctx is done), stopped, or crashed
    available,      \* tokens in the channel of that name
    fetcher,        \* fetchLoop: its step and the message in hand
    worker,         \* worker[w]: the task it works on, its step and what it made
    object,         \* object[m]: the digest of what is stored under the binary key of m
    made,           \* history, made[t]: the digests that builds of t have stored
    subscribed,     \* the tasks whose reply subject has a subscriber
    inbox,          \* inbox[t]: the one-place reply channel of that subscriber
    answered,       \* history: the tasks whose result has been published
    faults

store == <<object, made>>
replyVars == <<subscribed, inbox>>
vars == <<stream, server, available, fetcher, worker, store, answered, replyVars, faults>>

\* The contract, and how the queue and the server stand for a request.
Service == INSTANCE BuildService WITH
    request <- [t \in Tasks |-> CASE stream[t] = "absent" -> "none"
                                  [] stream[t] = "acked"  -> "settled"
                                  [] OTHER                -> "posted"]

NoResult == Service!NoResult
Success(d) == Service!Success(d)
Failure == Service!Failure

Idle == [at |-> "idle", task |-> NoTask, digest |-> NoDigest, result |-> NoResult]
WorkerSteps == {"idle", "build", "store", "publish", "ack"}

TypeOK ==
    /\ stream \in [Tasks -> {"absent", "queued", "delivered", "acked"}]
    /\ server \in {"up", "stopping", "stopped", "crashed"}
    /\ available \in 0..Cardinality(Workers)
    /\ fetcher \in [at : {"select", "offer", "returned"}, task : Tasks \cup {NoTask}]
    /\ worker \in [Workers -> [at : WorkerSteps, task : Tasks \cup {NoTask},
                               digest : Digests \cup {NoDigest}, result : Service!Results]]
    /\ Service!ServiceTypeOK
    /\ faults \in 0..MaxFaults

Init ==
    /\ stream = [t \in Tasks |-> "absent"]
    /\ server = "up" /\ available = Cardinality(Workers)
    /\ fetcher = [at |-> "select", task |-> NoTask]
    /\ worker = [w \in Workers |-> Idle]
    /\ object = [m \in Models |-> NoDigest] /\ made = [t \in Tasks |-> {}]
    /\ subscribed = {} /\ inbox = [t \in Tasks |-> NoResult]
    /\ answered = {} /\ faults = 0

Running == server \in {"up", "stopping"}

Fault(kind) == kind \in Faults /\ faults < MaxFaults /\ faults' = faults + 1
NoFault == UNCHANGED faults

-----------------------------------------------------------------------------
(* fetchLoop: a token for a free worker, then a message, then the worker. *)

Fetching(step) == Running /\ fetcher.at = step

\* One token, one message.  A fetch that finds nothing puts its token back, and changes nothing.
FetchMessage(t) ==
    /\ Fetching("select") /\ available > 0 /\ stream[t] = "queued"
    /\ available' = available - 1
    /\ stream' = [stream EXCEPT ![t] = "delivered"]
    /\ fetcher' = [at |-> "offer", task |-> t]
    /\ UNCHANGED <<server, worker, store, answered, replyVars>> /\ NoFault

\* Fault: the token is not put back when the fetch fails.
FetchFails_TokenLost ==
    /\ Fetching("select") /\ available > 0 /\ Fault("lost_delivery")
    /\ available' = available - 1
    /\ UNCHANGED <<stream, server, fetcher, worker, store, answered, replyVars>>

\* Fault: a token that was not taken is put back.
FetchFails_TokenTwice ==
    /\ Fetching("select") /\ Fault("lost_delivery")
    /\ available' = available + 1
    /\ UNCHANGED <<stream, server, fetcher, worker, store, answered, replyVars>>

\* The fetch fails; JetStream may count a message as delivered that never arrived.  The
\* two context errors that also end the loop are left to a stop: fetchOne has no context.
FetchFails ==
    /\ Fetching("select") /\ available > 0 /\ Fault("lost_delivery")
    /\ fetcher' = [fetcher EXCEPT !.at = IF server = "stopping" THEN "returned" ELSE "select"]
    /\ \/ UNCHANGED stream
       \/ \E t \in Tasks : stream[t] = "queued" /\ stream' = [stream EXCEPT ![t] = "delivered"]
    /\ UNCHANGED <<server, available, worker, store, answered, replyVars>>

Offer(w) ==
    /\ Fetching("offer") /\ worker[w].at = "idle"
    /\ worker' = [worker EXCEPT ![w] = [Idle EXCEPT !.at = "build", !.task = fetcher.task]]
    /\ fetcher' = [at |-> "select", task |-> NoTask]
    /\ UNCHANGED <<stream, server, available, store, answered, replyVars>> /\ NoFault

\* The loop sees that its context is done: at the select, or with a message in hand.
LeaveLoop ==
    /\ server = "stopping" /\ fetcher.at = "select"
    /\ fetcher' = [fetcher EXCEPT !.at = "returned"]
    /\ UNCHANGED <<stream, server, available, worker, store, answered, replyVars>> /\ NoFault

LeaveLoopWithMessage ==
    /\ server = "stopping" /\ fetcher.at = "offer"
    /\ available' = available + 1
    /\ stream' = [stream EXCEPT ![fetcher.task] = IF @ = "delivered" THEN "queued" ELSE @]
    /\ fetcher' = [at |-> "returned", task |-> NoTask]
    /\ UNCHANGED <<server, worker, store, answered, replyVars>> /\ NoFault

-----------------------------------------------------------------------------
(* handleTaskMessage and processTask, for the task of worker w. *)

Working(w, step) == Running /\ worker[w].at = step

Reply(w, result) ==
    worker' = [worker EXCEPT ![w] = [@ EXCEPT !.at = "publish", !.result = result]]

WorkerOnly == UNCHANGED <<stream, server, available, fetcher, answered, replyVars>>

\* The DSL is parsed, validated and emitted, the source is stored, and go build runs in a
\* work directory of its own.
Build(w) ==
    /\ Working(w, "build")
    /\ \/ /\ ModelOf[worker[w].task] \notin Broken
          /\ \E d \in Digests :
               worker' = [worker EXCEPT ![w] = [@ EXCEPT !.at = "store", !.digest = d]]
          /\ NoFault
       \/ /\ ModelOf[worker[w].task] \in Broken
          /\ Reply(w, Failure) /\ NoFault
       \/ Reply(w, Failure) /\ (Fault("store_error") \/ Fault("build_timeout"))
    /\ WorkerOnly /\ UNCHANGED store

Stored(t, d) ==
    /\ object' = [object EXCEPT ![ModelOf[t]] = d]
    /\ made' = [made EXCEPT ![t] = @ \cup {d}]

\* Fault: the result is made up before the binary is stored, and an error storing it is lost.
StoreBinary_Ignored(w) == LET t == worker[w].task  d == worker[w].digest IN
    /\ Working(w, "store")
    /\ Reply(w, Success(d))
    /\ \/ Stored(t, d) /\ NoFault
       \/ UNCHANGED store /\ Fault("store_error")
    /\ WorkerOnly

\* PutFile: the upload replaces what is under the key; one that fails may have done so.
StoreBinary(w) == LET t == worker[w].task  d == worker[w].digest IN
    /\ Working(w, "store")
    /\ \/ Reply(w, Success(d)) /\ Stored(t, d) /\ NoFault
       \/ Reply(w, Failure) /\ Fault("store_error") /\ (UNCHANGED store \/ Stored(t, d))
    /\ WorkerOnly

\* Fault: a worker that is done does not put its token back.
Free_NoToken(w) == worker' = [worker EXCEPT ![w] = Idle] /\ UNCHANGED available

Free(w) ==
    /\ worker' = [worker EXCEPT ![w] = Idle]
    /\ available' = available + 1

PublishResult(w) ==
    /\ Working(w, "publish")
    /\ Service!Deliver(worker[w].task, worker[w].result)
    /\ answered' = answered \cup {worker[w].task}
    /\ worker' = [worker EXCEPT ![w].at = "ack"]
    /\ UNCHANGED <<stream, server, available, fetcher, store, subscribed>> /\ NoFault

\* publishJSON fails (the result may have gone out all the same): Nak.
PublishFails(w) ==
    /\ Working(w, "publish") /\ Fault("publish_error")
    /\ \/ UNCHANGED inbox
       \/ Service!Deliver(worker[w].task, worker[w].result)
    /\ stream' = [stream EXCEPT ![worker[w].task] = IF @ = "delivered" THEN "queued" ELSE @]
    /\ Free(w)
    /\ UNCHANGED <<server, fetcher, store, answered, subscribed>>

Ack(w) ==
    /\ Working(w, "ack")
    /\ \/ stream' = [stream EXCEPT ![worker[w].task] = "acked"] /\ NoFault
       \/ UNCHANGED stream /\ Fault("ack_error")
    /\ Free(w)
    /\ UNCHANGED <<server, fetcher, store, answered, replyVars>>

-----------------------------------------------------------------------------
(* JetStream: what is not acknowledged within AckWait is delivered again. *)

InHand(t) == Running /\ (fetcher.task = t \/ \E w \in Workers : worker[w].task = t)

\* A task still worked on takes a build longer than AckWait, which is a fault.
Redeliver(t) ==
    /\ stream[t] = "delivered"
    /\ IF InHand(t) THEN Fault("ack_wait") ELSE NoFault
    /\ stream' = [stream EXCEPT ![t] = "queued"]
    /\ UNCHANGED <<server, available, fetcher, worker, store, answered, replyVars>>

-----------------------------------------------------------------------------
(* runServe: SIGTERM ends the loop, then the workers; a crash ends it all. *)

Stop ==
    /\ server = "up" /\ Fault("codegen_stop")
    /\ server' = "stopping"
    /\ UNCHANGED <<stream, available, fetcher, worker, store, answered, replyVars>>

EndsAs(how) ==
    /\ server' = how /\ available' = 0
    /\ fetcher' = [at |-> "returned", task |-> NoTask]
    /\ worker' = [w \in Workers |-> Idle]

\* close(tasks), wg.Wait
StopDone ==
    /\ server = "stopping" /\ fetcher.at = "returned"
    /\ \A w \in Workers : worker[w].at = "idle"
    /\ EndsAs("stopped") /\ UNCHANGED <<stream, store, answered, replyVars>> /\ NoFault

Crash ==
    /\ Running /\ Fault("codegen_crash")
    /\ EndsAs("crashed") /\ UNCHANGED <<stream, store, answered, replyVars>>

Start ==
    /\ ~Running
    /\ server' = "up" /\ available' = Cardinality(Workers)
    /\ fetcher' = [at |-> "select", task |-> NoTask]
    /\ UNCHANGED <<worker, stream, store, answered, replyVars>> /\ NoFault

-----------------------------------------------------------------------------
(* The control plane, as far as this server can tell. *)

Post(t) ==
    /\ stream[t] = "absent"
    /\ stream' = [stream EXCEPT ![t] = "queued"]
    /\ subscribed' \in {subscribed, subscribed \cup {t}}
    /\ UNCHANGED <<server, available, fetcher, worker, store, answered, inbox, faults>>

StopListening(t) ==
    /\ t \in subscribed
    /\ Service!Unsubscribe(t)
    /\ UNCHANGED <<stream, server, available, fetcher, worker, store, answered, faults>>

Client == \E t \in Tasks : Post(t) \/ StopListening(t)

Fetcher ==
    \/ LeaveLoop \/ LeaveLoopWithMessage
    \/ \E t \in Tasks : FetchMessage(t)
    \/ \E w \in Workers : Offer(w)

Worker(w) == Build(w) \/ StoreBinary(w) \/ PublishResult(w) \/ PublishFails(w) \/ Ack(w)

Next ==
    \/ Client
    \/ Fetcher \/ FetchFails
    \/ \E w \in Workers : Worker(w)
    \/ \E t \in Tasks : Redeliver(t)
    \/ Stop \/ StopDone \/ Crash \/ Start

Spec == Init /\ [][Next]_vars

\* The goroutines run, select is fair, and JetStream delivers again.  A server that
\* crashed is started again (restart: unless-stopped); one that was stopped may stay so.
Fairness ==
    /\ WF_vars(Fetcher) /\ SF_vars(LeaveLoop) /\ WF_vars(StopDone)
    /\ \A w \in Workers : WF_vars(Worker(w))
    /\ \A t \in Tasks : WF_vars(~InHand(t) /\ Redeliver(t))
    /\ WF_vars(server = "crashed" /\ Start)

FairSpec == Spec /\ Fairness

-----------------------------------------------------------------------------
(* The tokens count the free workers (serve.go, runServe and fetchLoop): whatever path a
   fetch or a task takes, the fetcher never holds a message that no worker is free
   for, and no token is lost, which would leave a worker without work for good. *)
TokensMatchWorkers ==
    Running =>
        available + (IF fetcher.at = "offer" THEN 1 ELSE 0)
          = Cardinality({w \in Workers : worker[w].at = "idle"})

(* The server keeps the contract the control plane relies on: an answer names a binary
   that a build of this very request has stored, and a message leaves the work queue
   only after an answer has been sent (processTask, handleTaskMessage), whatever
   crashes, fails or is delivered twice. *)
KeepsContract == Service!ServiceSpec

(* A build request in the queue is answered and acknowledged in the end, through
   crashes, redelivery and failing calls, unless the server has been stopped. *)
EveryTaskSettles ==
    \A t \in Tasks : stream[t] = "queued" ~> (stream[t] = "acked" \/ server = "stopped")
=============================================================================
