------------------------- MODULE CodegenWorkerProofs -------------------------
(***************************************************************************)
(* Theorems of CodegenWorker for any requests, workers and faults: its     *)
(* type invariant, the tokens of the fetch loop, and that the server       *)
(* implements BuildService, the contract the control plane relies on.      *)
(***************************************************************************)
EXTENDS CodegenWorker, FiniteSetTheorems, TLAPS

\* What can be said of a build of t: that it failed, or a digest that it has stored.
Answers(t) == {Failure} \cup {Success(d) : d \in made[t]}

\* The message in hand is that of a request.
FetcherIsGood == fetcher.at = "offer" => fetcher.task \in Tasks /\ stream[fetcher.task] # "absent"

\* A worker that is busy works on a request, and each step has what it needs of the steps before.
WorkersAreGood == \A w \in Workers : LET t == worker[w].task IN
    /\ worker[w].at # "idle" => t \in Tasks /\ stream[t] # "absent"
    /\ worker[w].at = "store" => worker[w].digest \in Digests /\ ModelOf[t] \notin Broken
    /\ worker[w].at = "publish" => worker[w].result \in Answers(t)
    /\ worker[w].at = "ack" => t \in answered

\* Nobody works for a server that does not run.
DownIsIdle == ~Running => \A w \in Workers : worker[w].at = "idle"

IInv == TypeOK /\ FetcherIsGood /\ WorkersAreGood /\ DownIsIdle /\ TokensMatchWorkers

IdleWorkers == {w \in Workers : worker[w].at = "idle"}

-----------------------------------------------------------------------------
(* Counting. *)

\* The number of idle workers when one starts or ends work.
LEMMA CountIdle ==
    /\ IsFiniteSet(IdleWorkers) /\ Cardinality(IdleWorkers) \in 0..Cardinality(Workers)
    /\ Cardinality(Workers) \in Nat
    /\ \A w \in IdleWorkers :
          Cardinality(IdleWorkers \ {w}) = Cardinality(IdleWorkers) - 1
    /\ \A w \in Workers \ IdleWorkers :
          Cardinality(IdleWorkers \cup {w}) = Cardinality(IdleWorkers) + 1
<1>1. IsFiniteSet(Workers) /\ IdleWorkers \subseteq Workers
  BY CodegenAssumption DEF IdleWorkers
<1>2. IsFiniteSet(IdleWorkers)
  BY <1>1, FS_Subset
<1>3. Cardinality(IdleWorkers) \in 0..Cardinality(Workers) /\ Cardinality(Workers) \in Nat
  BY <1>1, <1>2, FS_Subset, FS_CardinalityType
<1> QED
  BY <1>2, <1>3, FS_AddElement, FS_RemoveElement

\* The tokens are exact when as many of them are free, or in the fetcher's hand,
\* as workers are idle.
LEMMA TokensCountIdle ==
    /\ TokensMatchWorkers <=>
          (Running => available + (IF fetcher.at = "offer" THEN 1 ELSE 0) = Cardinality(IdleWorkers))
    /\ TokensMatchWorkers' <=>
          (Running' => available' + (IF fetcher'.at = "offer" THEN 1 ELSE 0) = Cardinality(IdleWorkers'))
  BY DEF TokensMatchWorkers, IdleWorkers

\* A step that makes nobody idle or busy leaves the count alone.
LEMMA SameIdle ==
    ASSUME \A w \in Workers : worker'[w].at = "idle" <=> worker[w].at = "idle"
    PROVE  IdleWorkers' = IdleWorkers
  BY DEF IdleWorkers

\* A worker ends its task and puts its token back.
LEMMA FreeCounts ==
    ASSUME TypeOK, TokensMatchWorkers, Running, NEW w \in Workers, worker[w].at # "idle",
           Free(w), UNCHANGED <<server, fetcher>>
    PROVE  TokensMatchWorkers' /\ available' \in 0..Cardinality(Workers)
<1>1. worker' = [worker EXCEPT ![w] = Idle] /\ available' = available + 1
  BY DEF Free
<1>2. \A v \in Workers : worker'[v].at = IF v = w THEN "idle" ELSE worker[v].at
  BY <1>1 DEF TypeOK, Idle
<1>3. IdleWorkers' = IdleWorkers \cup {w} /\ w \notin IdleWorkers
  BY <1>2 DEF IdleWorkers
<1>4. Cardinality(IdleWorkers') = Cardinality(IdleWorkers) + 1
  BY <1>3, CountIdle
<1>5. Cardinality(IdleWorkers') \in 0..Cardinality(Workers)
  <2>1. IdleWorkers' \subseteq Workers
    BY DEF IdleWorkers
  <2> QED
    BY <2>1, FS_Subset, FS_CardinalityType, CodegenAssumption
<1> QED
  BY <1>1, <1>4, <1>5, TokensCountIdle, CountIdle DEF Running, TypeOK

-----------------------------------------------------------------------------
\* Nobody is working.
LEMMA InitIInv == Init => IInv
<1> SUFFICES ASSUME Init PROVE IInv
  OBVIOUS
<1> USE CodegenAssumption DEF Init
<1>1. IdleWorkers = Workers
  BY DEF IdleWorkers, Idle
<1>2. Cardinality(Workers) \in Nat
  BY CountIdle
<1>3. Idle \in [at : WorkerSteps, task : Tasks \cup {NoTask},
                digest : Digests \cup {NoDigest}, result : Service!Results]
  BY DEF Idle, WorkerSteps, NoResult, Service!Results
<1>4. Service!ServiceTypeOK
  BY DEF Service!ServiceTypeOK, NoResult, Service!Results
<1>5. TypeOK
  BY <1>2, <1>3, <1>4 DEF TypeOK
<1>6. TokensMatchWorkers
  BY <1>1, <1>2, TokensCountIdle
<1>7. \A w \in Workers : worker[w].at = "idle"
  BY DEF Idle
<1>8. FetcherIsGood /\ WorkersAreGood /\ DownIsIdle
  BY <1>7 DEF FetcherIsGood, WorkersAreGood, DownIsIdle
<1> QED
  BY <1>5, <1>6, <1>8 DEF IInv

-----------------------------------------------------------------------------
(* fetchLoop. *)

\* Every message of the queue has been posted.
LEMMA FetcherPreserves ==
    ASSUME IInv, Fetcher \/ FetchFails PROVE IInv'
<1> USE CountIdle, TokensCountIdle, CodegenAssumption DEF IInv, Fetching, NoFault, store, replyVars
<1>1. ASSUME NEW t \in Tasks, FetchMessage(t) PROVE IInv'
  <2> USE <1>1 DEF FetchMessage
  <2>1. Service!ServiceTypeOK'
    BY DEF TypeOK, Service!ServiceTypeOK
  <2>2. TypeOK'
    BY <2>1 DEF TypeOK
  <2>3. FetcherIsGood' /\ WorkersAreGood' /\ DownIsIdle'
    BY DEF FetcherIsGood, WorkersAreGood, DownIsIdle, Answers, Running, TypeOK
  <2>4. TokensMatchWorkers'
    BY SameIdle DEF Running, TypeOK
  <2> QED
    BY <2>2, <2>3, <2>4
<1>2. ASSUME NEW w \in Workers, Offer(w) PROVE IInv'
  <2> USE <1>2 DEF Offer
  <2>1. Service!ServiceTypeOK'
    BY DEF TypeOK, Service!ServiceTypeOK
  <2>2. fetcher.task \in Tasks /\ stream[fetcher.task] # "absent"
    BY DEF FetcherIsGood
  <2>3. /\ worker'[w].at = "build" /\ worker'[w].task = fetcher.task
        /\ \A v \in Workers \ {w} : worker'[v] = worker[v]
    BY DEF TypeOK, Idle
  <2>4. TypeOK'
    BY <2>1, <2>2 DEF TypeOK, Idle, WorkerSteps, NoResult, Service!Results
  <2>5. FetcherIsGood' /\ WorkersAreGood' /\ DownIsIdle'
    BY <2>2, <2>3 DEF FetcherIsGood, WorkersAreGood, DownIsIdle, Answers, Running
  <2>6. IdleWorkers' = IdleWorkers \ {w} /\ w \in IdleWorkers
    BY <2>3 DEF IdleWorkers
  <2>7. Cardinality(IdleWorkers') = Cardinality(IdleWorkers) - 1
    BY <2>6
  <2>8. TokensMatchWorkers'
    BY <2>7 DEF Running, TypeOK
  <2> QED
    BY <2>4, <2>5, <2>8
<1>3. CASE LeaveLoop \/ FetchFails
  <2> USE <1>3 DEF LeaveLoop, FetchFails
  <2>1. Service!ServiceTypeOK'
    BY DEF TypeOK, Service!ServiceTypeOK
  <2>2. TypeOK'
    BY <2>1 DEF TypeOK, Fault
  <2>3. FetcherIsGood' /\ WorkersAreGood' /\ DownIsIdle'
    BY DEF FetcherIsGood, WorkersAreGood, DownIsIdle, Answers, Running, TypeOK
  <2>4. TokensMatchWorkers'
    BY SameIdle DEF Running, TypeOK
  <2> QED
    BY <2>2, <2>3, <2>4
<1>4. CASE LeaveLoopWithMessage
  <2> USE <1>4 DEF LeaveLoopWithMessage
  <2>1. Service!ServiceTypeOK'
    BY DEF TypeOK, Service!ServiceTypeOK
  <2>2. IdleWorkers' = IdleWorkers
    BY SameIdle
  <2>3. TokensMatchWorkers' /\ available' \in 0..Cardinality(Workers)
    BY <2>2 DEF Running, TypeOK
  <2>4. TypeOK'
    BY <2>1, <2>3 DEF TypeOK
  <2>5. FetcherIsGood' /\ WorkersAreGood' /\ DownIsIdle'
    BY DEF FetcherIsGood, WorkersAreGood, DownIsIdle, Answers, Running, TypeOK
  <2> QED
    BY <2>3, <2>4, <2>5
<1> QED
  BY <1>1, <1>2, <1>3, <1>4 DEF Fetcher

-----------------------------------------------------------------------------
(* A step of worker w that leaves the fetcher, the tokens and the queue alone. *)

\* A worker has a result to publish, and the rest of it stays as it is.
LEMMA ReplyTypes ==
    ASSUME TypeOK, NEW w \in Workers, NEW r \in Service!Results, Reply(w, r)
    PROVE  /\ worker' \in [Workers -> [at : WorkerSteps, task : Tasks \cup {NoTask},
                            digest : Digests \cup {NoDigest}, result : Service!Results]]
           /\ worker'[w].at = "publish" /\ worker'[w].result = r /\ worker'[w].task = worker[w].task
           /\ \A v \in Workers \ {w} : worker'[v] = worker[v]
<1> DEFINE Records == [at : WorkerSteps, task : Tasks \cup {NoTask},
                       digest : Digests \cup {NoDigest}, result : Service!Results]
           new == [worker[w] EXCEPT !.at = "publish", !.result = r]
<1>1. worker \in [Workers -> Records] /\ worker' = [worker EXCEPT ![w] = new]
  BY DEF TypeOK, Reply
<1>2. new \in Records /\ new.at = "publish" /\ new.result = r /\ new.task = worker[w].task
  BY <1>1 DEF WorkerSteps
<1> HIDE DEF new
<1> QED
  BY <1>1, <1>2

\* Each action of a worker.
LEMMA WorkerPreserves ==
    ASSUME IInv, NEW w \in Workers, Build(w) \/ StoreBinary(w) \/ PublishResult(w) PROVE IInv'
<1> DEFINE t == worker[w].task  d == worker[w].digest
<1> USE CodegenAssumption DEF IInv, Working, WorkerOnly, store, replyVars
<1>1. CASE Build(w)
  <2>0. t \in Tasks /\ stream[t] # "absent" /\ worker[w].at = "build"
    BY <1>1 DEF Build, WorkersAreGood
  <2>1. UNCHANGED <<stream, server, available, fetcher, answered, object, made, subscribed, inbox>>
    BY <1>1 DEF Build
  <2>2. faults' \in 0..MaxFaults
    <3>1. NoFault \/ Fault("store_error") \/ Fault("build_timeout")
      BY <1>1 DEF Build
    <3> QED
      BY <3>1 DEF NoFault, Fault, TypeOK
  <2>3. \/ Reply(w, Failure)
        \/ /\ ModelOf[t] \notin Broken
           /\ \E e \in Digests :
                worker' = [worker EXCEPT ![w] = [@ EXCEPT !.at = "store", !.digest = e]]
    BY <1>1 DEF Build
  <2>4. /\ worker' \in [Workers -> [at : WorkerSteps, task : Tasks \cup {NoTask},
                         digest : Digests \cup {NoDigest}, result : Service!Results]]
        /\ worker'[w].task = t
        /\ \/ worker'[w].at = "store" /\ worker'[w].digest \in Digests /\ ModelOf[t] \notin Broken
           \/ worker'[w].at = "publish" /\ worker'[w].result = Failure
        /\ \A v \in Workers \ {w} : worker'[v] = worker[v]
    <3>1. CASE Reply(w, Failure)
      <4>1. Failure \in Service!Results
        BY DEF Failure, Service!Results
      <4> QED
        BY <3>1, <4>1, ReplyTypes
    <3>2. ASSUME ModelOf[t] \notin Broken, NEW e \in Digests,
                 worker' = [worker EXCEPT ![w] = [@ EXCEPT !.at = "store", !.digest = e]]
          PROVE  <2>4!1 /\ <2>4!2 /\ <2>4!3 /\ <2>4!4
      <4> DEFINE Record == [at : WorkerSteps, task : Tasks \cup {NoTask},
                            digest : Digests \cup {NoDigest}, result : Service!Results]
                 new == [worker[w] EXCEPT !.at = "store", !.digest = e]
      <4>1. worker \in [Workers -> Record]
        BY DEF TypeOK
      <4>2. new \in Record /\ new.task = t /\ new.at = "store" /\ new.digest = e
        BY <3>2, <4>1 DEF WorkerSteps
      <4> HIDE DEF Record, new
      <4>3. worker' = [worker EXCEPT ![w] = new]
        BY <3>2 DEF new
      <4>4. worker' \in [Workers -> Record] /\ worker'[w] = new
            /\ \A v \in Workers \ {w} : worker'[v] = worker[v]
        BY <4>1, <4>2, <4>3
      <4> QED
        BY <3>2, <4>2, <4>4 DEF Record
    <3> QED
      BY <2>3, <3>1, <3>2
  <2>5. Service!ServiceTypeOK'
    BY <2>1 DEF TypeOK, Service!ServiceTypeOK
  <2>6. TypeOK'
    BY <2>1, <2>2, <2>4, <2>5 DEF TypeOK
  <2>7. FetcherIsGood' /\ WorkersAreGood' /\ DownIsIdle'
    BY <2>0, <2>1, <2>4 DEF FetcherIsGood, WorkersAreGood, DownIsIdle, Answers, Running
  <2>8. IdleWorkers' = IdleWorkers
    BY <2>0, <2>4, SameIdle
  <2>9. TokensMatchWorkers'
    BY <2>1, <2>8, TokensCountIdle DEF Running
  <2> QED
    BY <2>6, <2>7, <2>9
<1>2. CASE StoreBinary(w)
  <2>0. t \in Tasks /\ stream[t] # "absent" /\ worker[w].at = "store" /\ d \in Digests
    BY <1>2 DEF StoreBinary, WorkersAreGood
  <2>1. /\ UNCHANGED <<stream, server, available, fetcher, answered, subscribed, inbox>>
        /\ \/ Reply(w, Success(d)) /\ Stored(t, d)
           \/ Reply(w, Failure) /\ (UNCHANGED <<object, made>> \/ Stored(t, d))
    BY <1>2 DEF StoreBinary
  <2>10. faults' \in 0..MaxFaults
    <3>1. NoFault \/ Fault("store_error")
      BY <1>2 DEF StoreBinary
    <3> QED
      BY <3>1 DEF NoFault, Fault, TypeOK
  <2>2. /\ made' \in [Tasks -> SUBSET Digests] /\ \A u \in Tasks : made[u] \subseteq made'[u]
        /\ object' \in [Models -> Digests \cup {NoDigest}]
        /\ Stored(t, d) => d \in made'[t]
    BY <2>0, <2>1 DEF Stored, TypeOK, Service!ServiceTypeOK
  <2>3. Service!ServiceTypeOK'
    BY <2>1, <2>2 DEF TypeOK, Service!ServiceTypeOK
  <2>4. /\ worker' \in [Workers -> [at : WorkerSteps, task : Tasks \cup {NoTask},
                         digest : Digests \cup {NoDigest}, result : Service!Results]]
        /\ worker'[w].task = t /\ worker'[w].at = "publish"
        /\ worker'[w].result = Failure \/ (worker'[w].result = Success(d) /\ d \in made'[t])
        /\ \A v \in Workers \ {w} : worker'[v] = worker[v]
    <3>1. Failure \in Service!Results /\ Success(d) \in Service!Results
      BY <2>0 DEF Failure, Success, Service!Results
    <3>2. CASE Reply(w, Success(d)) /\ Stored(t, d)
      BY <2>2, <3>1, <3>2, ReplyTypes
    <3>3. CASE Reply(w, Failure)
      BY <3>1, <3>3, ReplyTypes
    <3> QED
      BY <2>1, <3>2, <3>3
  <2>5. TypeOK'
    BY <2>1, <2>3, <2>4, <2>10 DEF TypeOK
  <2>6. WorkersAreGood'
    BY <2>0, <2>1, <2>2, <2>4 DEF WorkersAreGood, Answers
  <2>7. FetcherIsGood' /\ DownIsIdle'
    BY <2>0, <2>1, <2>4 DEF FetcherIsGood, DownIsIdle, Running
  <2>8. IdleWorkers' = IdleWorkers
    BY <2>0, <2>4, SameIdle
  <2>9. TokensMatchWorkers'
    BY <2>1, <2>8, TokensCountIdle DEF Running
  <2> QED
    BY <2>5, <2>6, <2>7, <2>9
<1>3. CASE PublishResult(w)
  <2> USE <1>3 DEF PublishResult, NoFault, Service!Deliver
  <2>0. t \in Tasks /\ stream[t] # "absent" /\ worker[w].at = "publish"
        /\ worker[w].result \in Service!Results
    BY DEF WorkersAreGood, TypeOK
  <2>1. /\ worker'[w].task = t /\ worker'[w].at = "ack"
        /\ \A v \in Workers \ {w} : worker'[v] = worker[v]
        /\ UNCHANGED <<stream, server, available, fetcher, object, made, subscribed>>
        /\ answered' = answered \cup {t}
    BY DEF TypeOK
  <2>2. Service!ServiceTypeOK'
    BY <2>0, <2>1 DEF TypeOK, Service!ServiceTypeOK
  <2>3. worker' \in [Workers -> [at : WorkerSteps, task : Tasks \cup {NoTask},
                     digest : Digests \cup {NoDigest}, result : Service!Results]]
    BY DEF TypeOK, WorkerSteps
  <2>4. TypeOK'
    BY <2>1, <2>2, <2>3 DEF TypeOK
  <2>5. FetcherIsGood' /\ WorkersAreGood' /\ DownIsIdle'
    BY <2>0, <2>1 DEF FetcherIsGood, WorkersAreGood, DownIsIdle, Answers, Running
  <2>6. IdleWorkers' = IdleWorkers
    BY <2>0, <2>1, SameIdle
  <2>7. TokensMatchWorkers'
    BY <2>1, <2>6, TokensCountIdle DEF Running
  <2> QED
    BY <2>4, <2>5, <2>7
<1> QED
  BY <1>1, <1>2, <1>3

\* A worker ends its task, published or not, acknowledged or not.
LEMMA EndsPreserve ==
    ASSUME IInv, NEW w \in Workers, PublishFails(w) \/ Ack(w) PROVE IInv'
<1> DEFINE t == worker[w].task
<1> USE CodegenAssumption DEF IInv, Working, NoFault, store, replyVars
<1>1. t \in Tasks /\ stream[t] # "absent" /\ worker[w].result \in Service!Results
  BY DEF PublishFails, Ack, WorkersAreGood, TypeOK
<1>2. /\ worker' = [worker EXCEPT ![w] = Idle]
      /\ stream' \in [Tasks -> {"absent", "queued", "delivered", "acked"}]
      /\ \A u \in Tasks : stream[u] # "absent" => stream'[u] # "absent"
      /\ UNCHANGED <<server, fetcher, object, made, answered, subscribed>>
      /\ inbox' \in [Tasks -> Service!Results] /\ faults' \in 0..MaxFaults
  BY <1>1 DEF PublishFails, Ack, Free, Service!Deliver, Fault, TypeOK, Service!ServiceTypeOK
<1>3. \A v \in Workers : worker'[v] = IF v = w THEN Idle ELSE worker[v]
  BY <1>2 DEF TypeOK
<1>4. Service!ServiceTypeOK'
  BY <1>2 DEF TypeOK, Service!ServiceTypeOK
<1>5. TokensMatchWorkers' /\ available' \in 0..Cardinality(Workers)
  <2>1. Running /\ worker[w].at # "idle" /\ Free(w)
    BY DEF PublishFails, Ack
  <2> QED
    BY <1>2, <2>1, FreeCounts
<1>6. Idle \in [at : WorkerSteps, task : Tasks \cup {NoTask},
                digest : Digests \cup {NoDigest}, result : Service!Results]
  BY DEF Idle, WorkerSteps, NoResult, Service!Results
<1>7. TypeOK'
  BY <1>2, <1>4, <1>5, <1>6 DEF TypeOK
<1>8. FetcherIsGood'
  BY <1>2 DEF FetcherIsGood
<1>9. Idle.at = "idle"
  BY DEF Idle
<1>10. WorkersAreGood' /\ DownIsIdle'
  BY <1>2, <1>3, <1>9 DEF WorkersAreGood, DownIsIdle, Answers, Running
<1> QED
  BY <1>5, <1>7, <1>8, <1>10

-----------------------------------------------------------------------------
(* The queue, the client, and the server's own life. *)

\* The client, a redelivery, and the shutdown, the crash and the start of the server.
LEMMA OthersPreserve ==
    ASSUME IInv, Client \/ (\E t \in Tasks : Redeliver(t)) \/ Stop \/ StopDone \/ Crash \/ Start
    PROVE  IInv'
<1> USE CodegenAssumption, CountIdle, TokensCountIdle DEF IInv, NoFault, store, replyVars
<1>1. ASSUME NEW t \in Tasks, Post(t) \/ StopListening(t) \/ Redeliver(t) PROVE IInv'
  <2>1. /\ stream' \in [Tasks -> {"absent", "queued", "delivered", "acked"}]
        /\ \A u \in Tasks : stream[u] # "absent" => stream'[u] # "absent"
        /\ UNCHANGED <<server, available, fetcher, worker, object, made, answered>>
        /\ subscribed' \subseteq Tasks /\ inbox' \in [Tasks -> Service!Results]
    BY <1>1 DEF Post, StopListening, Redeliver, Service!Unsubscribe, Service!Results, TypeOK,
                Service!ServiceTypeOK
  <2>2. faults' \in 0..MaxFaults
    BY <1>1 DEF Post, StopListening, Redeliver, Fault, TypeOK
  <2>3. Service!ServiceTypeOK'
    BY <2>1 DEF TypeOK, Service!ServiceTypeOK
  <2>4. TypeOK'
    BY <2>1, <2>2, <2>3 DEF TypeOK
  <2>5. FetcherIsGood' /\ WorkersAreGood' /\ DownIsIdle'
    BY <2>1 DEF FetcherIsGood, WorkersAreGood, DownIsIdle, Answers, Running
  <2>6. TokensMatchWorkers'
    BY <2>1, SameIdle DEF Running
  <2> QED
    BY <2>4, <2>5, <2>6
<1>2. CASE Stop
  <2> USE <1>2 DEF Stop
  <2>1. Service!ServiceTypeOK'
    BY DEF TypeOK, Service!ServiceTypeOK
  <2>2. TypeOK'
    BY <2>1 DEF TypeOK, Fault
  <2>3. FetcherIsGood' /\ WorkersAreGood' /\ DownIsIdle'
    BY DEF FetcherIsGood, WorkersAreGood, DownIsIdle, Answers, Running
  <2>4. TokensMatchWorkers'
    BY SameIdle DEF Running
  <2> QED
    BY <2>2, <2>3, <2>4
<1>3. ASSUME NEW how \in {"stopped", "crashed"}, EndsAs(how),
             UNCHANGED <<stream, store, answered, replyVars>>, faults' \in 0..MaxFaults
      PROVE  IInv'
  <2> USE <1>3 DEF EndsAs
  <2>1. Service!ServiceTypeOK'
    BY DEF TypeOK, Service!ServiceTypeOK
  <2>2. Idle \in [at : WorkerSteps, task : Tasks \cup {NoTask},
                  digest : Digests \cup {NoDigest}, result : Service!Results]
    BY DEF Idle, WorkerSteps, NoResult, Service!Results
  <2>3. TypeOK'
    BY <2>1, <2>2 DEF TypeOK
  <2>4. ~Running' /\ \A w \in Workers : worker'[w].at = "idle"
    BY DEF Running, Idle
  <2>5. FetcherIsGood' /\ WorkersAreGood' /\ DownIsIdle'
    BY <2>4 DEF FetcherIsGood, WorkersAreGood, DownIsIdle
  <2>6. TokensMatchWorkers'
    BY <2>4
  <2> QED
    BY <2>3, <2>5, <2>6
<1>4. CASE StopDone
  BY <1>3, <1>4 DEF StopDone, TypeOK
<1>5. CASE Crash
  <2>1. faults' \in 0..MaxFaults
    BY <1>5 DEF Crash, Fault, TypeOK
  <2> QED
    BY <1>3, <1>5, <2>1 DEF Crash
<1>6. CASE Start
  <2> USE <1>6 DEF Start
  <2>1. Service!ServiceTypeOK'
    BY DEF TypeOK, Service!ServiceTypeOK
  <2>2. TypeOK'
    BY <2>1 DEF TypeOK
  <2>3. FetcherIsGood' /\ WorkersAreGood' /\ DownIsIdle'
    BY DEF FetcherIsGood, WorkersAreGood, DownIsIdle, Answers, Running
  <2>4. IdleWorkers = Workers
    BY DEF IdleWorkers, DownIsIdle
  <2>5. TokensMatchWorkers'
    BY <2>4, SameIdle
  <2> QED
    BY <2>2, <2>3, <2>5
<1> QED
  BY <1>1, <1>2, <1>4, <1>5, <1>6 DEF Client

\* Every step.
LEMMA NextPreserves == IInv /\ [Next]_vars => IInv'
<1> SUFFICES ASSUME IInv, [Next]_vars PROVE IInv'
  OBVIOUS
<1>1. CASE UNCHANGED vars
  <2> USE <1>1 DEF vars, store, replyVars
  <2>1. Service!ServiceTypeOK'
    BY DEF IInv, TypeOK, Service!ServiceTypeOK
  <2>2. TypeOK'
    BY <2>1 DEF IInv, TypeOK
  <2>3. FetcherIsGood' /\ WorkersAreGood' /\ DownIsIdle' /\ TokensMatchWorkers'
    BY DEF IInv, FetcherIsGood, WorkersAreGood, DownIsIdle, TokensMatchWorkers, Answers, Running
  <2> QED
    BY <2>2, <2>3 DEF IInv
<1> QED
  BY <1>1, FetcherPreserves, WorkerPreserves, EndsPreserve, OthersPreserve DEF Next, Worker

-----------------------------------------------------------------------------
\* The inductive invariant behind the theorems below.
THEOREM Invariance == Spec => []IInv
  BY InitIInv, NextPreserves, PTL DEF Spec

\* Every variable of the server keeps its type: in particular the channel of tokens
\* never takes more than there are workers.
THEOREM TypeCorrect == Spec => []TypeOK
<1>1. IInv => TypeOK
  BY DEF IInv
<1> QED
  BY <1>1, Invariance, PTL

\* For any number of workers, and through fetches that fail, results that cannot be
\* published and a loop that is left with a message in hand, the tokens count the
\* idle workers: no worker is starved, and no message waits for a busy one.
THEOREM TokensAreExact == Spec => []TokensMatchWorkers
<1>1. IInv => TokensMatchWorkers
  BY DEF IInv
<1> QED
  BY <1>1, Invariance, PTL

-----------------------------------------------------------------------------
(* The server implements its contract. *)

\* The contract's view of the queue.
RequestOf == [t \in Tasks |-> CASE stream[t] = "absent" -> "none"
                               [] stream[t] = "acked"  -> "settled"
                               [] OTHER                -> "posted"]

\* A step that posts and acknowledges nothing leaves the view alone.
LEMMA SameView ==
    ASSUME \A t \in Tasks : /\ stream[t] = "absent" <=> stream'[t] = "absent"
                            /\ stream[t] = "acked" <=> stream'[t] = "acked"
    PROVE  RequestOf' = RequestOf
  BY DEF RequestOf

\* The steps of the contract, seen through that view.
Contract == \E t \in Tasks : Service!ServiceStep(t) \/ Service!ClientStep(t)

\* A step that changes no request, binary, subscription or answer is a stutter
\* of the contract.
LEMMA StutterRefines ==
    ASSUME RequestOf' = RequestOf, UNCHANGED <<object, made, subscribed, inbox, answered>>
    PROVE  [Contract]_(Service!service)
  BY DEF Service!service, RequestOf

\* The acknowledgement of an open request that has been answered settles it.
LEMMA AckRefines ==
    ASSUME stream \in [Tasks -> {"absent", "queued", "delivered", "acked"}],
           NEW t \in Tasks, stream[t] \notin {"absent", "acked"}, t \in answered,
           stream' = [stream EXCEPT ![t] = "acked"],
           UNCHANGED <<object, made, subscribed, inbox, answered>>
    PROVE  [Contract]_(Service!service)
<1>1. \A u \in Tasks : stream'[u] = IF u = t THEN "acked" ELSE stream[u]
  OBVIOUS
<1>2. RequestOf[t] = "posted" /\ RequestOf' = [RequestOf EXCEPT ![t] = "settled"]
  BY <1>1 DEF RequestOf
<1>3. Service!Settle(t)
  BY <1>2 DEF Service!Settle, RequestOf
<1> QED
  BY <1>3 DEF Contract, Service!ServiceStep

\* Fetching, offering, failing to fetch and leaving the loop are no steps of the contract.
LEMMA FetcherRefines ==
    ASSUME IInv, Fetcher \/ FetchFails PROVE [Contract]_(Service!service)
<1>1. UNCHANGED <<object, made, subscribed, inbox, answered>>
  BY DEF Fetcher, FetchMessage, Offer, LeaveLoop, LeaveLoopWithMessage, FetchFails, store, replyVars
<1>2. \A t \in Tasks : /\ stream[t] = "absent" <=> stream'[t] = "absent"
                       /\ stream[t] = "acked" <=> stream'[t] = "acked"
  BY DEF Fetcher, FetchMessage, Offer, LeaveLoop, LeaveLoopWithMessage, FetchFails, IInv, TypeOK
<1> QED
  BY <1>1, <1>2, SameView, StutterRefines

\* A step of a worker is a step of the contract, or none.
LEMMA WorkerRefines ==
    ASSUME IInv, NEW w \in Workers, Worker(w) PROVE [Contract]_(Service!service)
<1> DEFINE t == worker[w].task  d == worker[w].digest
<1>0. worker[w].at # "idle" /\ t \in Tasks /\ stream[t] # "absent"
  BY DEF IInv, WorkersAreGood, Worker, Build, StoreBinary, PublishResult, PublishFails, Ack, Working
<1>1. RequestOf[t] # "none"
  BY <1>0 DEF RequestOf
<1>2. ASSUME UNCHANGED <<stream, object, made, subscribed, inbox, answered>>
      PROVE  [Contract]_(Service!service)
  BY <1>2, SameView, StutterRefines
<1>3. CASE Build(w)
  BY <1>2, <1>3 DEF Build, WorkerOnly, store, replyVars
<1>4. CASE StoreBinary(w)
  <2>1. d \in Digests /\ ModelOf[t] \notin Broken
    BY <1>4 DEF StoreBinary, Working, IInv, WorkersAreGood
  <2>2. UNCHANGED <<stream, subscribed, inbox, answered>> /\ (UNCHANGED <<object, made>> \/ Stored(t, d))
    BY <1>4 DEF StoreBinary, WorkerOnly, store, replyVars
  <2>3. ASSUME Stored(t, d) PROVE Service!Produce(t)
    <3>1. RequestOf' = RequestOf
      BY <2>2, SameView
    <3> QED
      BY <1>1, <2>1, <2>2, <2>3, <3>1 DEF Service!Produce, Stored, RequestOf
  <2> QED
    BY <1>0, <1>2, <2>2, <2>3 DEF Contract, Service!ServiceStep
<1>5. ASSUME worker[w].at = "publish", Service!Deliver(t, worker[w].result),
             answered' \in {answered, answered \cup {t}}, RequestOf' = RequestOf,
             UNCHANGED <<object, made, subscribed>>
      PROVE  [Contract]_(Service!service)
  <2>1. worker[w].result \in Answers(t)
    BY <1>5 DEF IInv, WorkersAreGood
  <2>2. Service!Answer(t)
    BY <1>1, <1>5, <2>1 DEF Service!Answer, Answers, Failure, Success, RequestOf
  <2> QED
    BY <1>0, <2>2 DEF Contract, Service!ServiceStep
<1>6. CASE PublishResult(w)
  <2>1. RequestOf' = RequestOf
    BY <1>6, SameView DEF PublishResult
  <2> QED
    BY <1>5, <1>6, <2>1 DEF PublishResult, Working, store
<1>7. CASE PublishFails(w)
  <2>1. RequestOf' = RequestOf
    BY <1>7, SameView DEF PublishFails, IInv, TypeOK
  <2>2. CASE UNCHANGED inbox
    BY <1>7, <2>1, <2>2, StutterRefines DEF PublishFails, store
  <2>3. CASE Service!Deliver(t, worker[w].result)
    BY <1>5, <1>7, <2>1, <2>3 DEF PublishFails, Working, store
  <2> QED
    BY <1>7, <2>2, <2>3 DEF PublishFails
<1>8. CASE Ack(w)
  <2>1. t \in answered /\ UNCHANGED <<object, made, subscribed, inbox, answered>>
    BY <1>8 DEF Ack, Working, IInv, WorkersAreGood, store, replyVars
  <2>2. CASE UNCHANGED stream
    BY <1>2, <2>1, <2>2
  <2>3. CASE stream' = [stream EXCEPT ![t] = "acked"]
    <3>1. CASE stream[t] = "acked"
      <4>1. RequestOf' = RequestOf
        BY <2>3, <3>1, SameView DEF IInv, TypeOK
      <4> QED
        BY <2>1, <4>1, StutterRefines
    <3>2. CASE stream[t] # "acked"
      BY <1>0, <2>1, <2>3, <3>2, AckRefines DEF IInv, TypeOK
    <3> QED
      BY <3>1, <3>2
  <2> QED
    BY <1>8, <2>2, <2>3 DEF Ack
<1> QED
  BY <1>3, <1>4, <1>6, <1>7, <1>8 DEF Worker

\* So is a step of the others.
LEMMA OthersRefine ==
    ASSUME IInv, Client \/ (\E t \in Tasks : Redeliver(t)) \/ Stop \/ StopDone \/ Crash \/ Start
    PROVE  [Contract]_(Service!service)
<1>1. ASSUME NEW t \in Tasks, Post(t) PROVE Service!ClientStep(t)
  <2>1. RequestOf[t] = "none" /\ RequestOf' = [RequestOf EXCEPT ![t] = "posted"]
    BY <1>1 DEF Post, RequestOf, IInv, TypeOK
  <2>2. Service!Post(t)
    BY <1>1, <2>1 DEF Post, Service!Post, RequestOf, store
  <2> QED
    BY <1>1, <2>2 DEF Post, Service!ClientStep
<1>2. ASSUME NEW t \in Tasks, StopListening(t) PROVE Service!ClientStep(t)
  <2>1. RequestOf' = RequestOf
    BY <1>2, SameView DEF StopListening
  <2> QED
    BY <1>2, <2>1 DEF StopListening, Service!ClientStep, RequestOf, store
<1>3. ASSUME (\E t \in Tasks : Redeliver(t)) \/ Stop \/ StopDone \/ Crash \/ Start
      PROVE  [Contract]_(Service!service)
  <2>1. UNCHANGED <<object, made, subscribed, inbox, answered>>
    BY <1>3 DEF Redeliver, Stop, StopDone, Crash, Start, store, replyVars
  <2>2. \A t \in Tasks : /\ stream[t] = "absent" <=> stream'[t] = "absent"
                         /\ stream[t] = "acked" <=> stream'[t] = "acked"
    BY <1>3 DEF Redeliver, Stop, StopDone, Crash, Start, IInv, TypeOK
  <2> QED
    BY <2>1, <2>2, SameView, StutterRefines
<1> QED
  BY <1>1, <1>2, <1>3 DEF Client, Contract

\* Every step.
LEMMA StepRefines == IInv /\ [Next]_vars => [Contract]_(Service!service)
<1> SUFFICES ASSUME IInv, [Next]_vars PROVE [Contract]_(Service!service)
  OBVIOUS
<1>1. CASE UNCHANGED vars
  BY <1>1, SameView, StutterRefines DEF vars, store, replyVars
<1> QED
  BY <1>1, FetcherRefines, WorkerRefines, OthersRefine DEF Next

\* The codegen server implements BuildService: an answer names a binary that a build of
\* this very request has stored, and a message leaves the work queue only after an
\* answer was sent, whatever crashes, fails or is delivered twice.
THEOREM ServerKeepsContract == Spec => KeepsContract
<1>1. Init => Service!ServiceInit
  BY DEF Init, Service!ServiceInit, NoResult
<1>2. IInv /\ [Next]_vars => [Contract]_(Service!service)
  BY StepRefines
<1> QED
  BY <1>1, <1>2, Invariance, PTL DEF Spec, KeepsContract, Service!ServiceSpec, Contract
=============================================================================
