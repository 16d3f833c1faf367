------------------------------ MODULE Simulation ------------------------------
(***************************************************************************)
(* The process a model text becomes: initModel, startCreateBlocks, and the *)
(* loop of run(), which pops the earliest event and calls its handler.  A  *)
(* handler is synchronous: a block function calls the next block's before  *)
(* it returns, and refusals travel back up the same calls.  So a block     *)
(* function is an operator here, from the globals s of the process to the  *)
(* set of [ok, s] it may return with, one for each outcome of its random   *)
(* draws; an action is one round of the loop.  A handler whose calls nest  *)
(* deeper than MaxDepth is left out.                                       *)
(*                                                                         *)
(* Left out: maxLen and maxBusy, the text of a stop reason, and the values *)
(* of a STAT line (only the lines are counted).  The stop rule is          *)
(* Simulation.clock >= Horizon, and every experiment samples its metrics.  *)
(***************************************************************************)
EXTENDS ModelDsl, EventQueue

CONSTANTS Texts,        \* the model texts, a function from a name
          Horizon,      \* RULE STOP Simulation.clock >= Horizon
          MetricStep,   \* METRIC_STEP
          MaxDepth      \* how deep the calls of block functions may nest

ASSUME SimulationAssumption ==
    /\ Horizon \in Nat /\ MetricStep \in Nat \ {0} /\ MaxDepth \in Nat
    /\ \A t \in DOMAIN Texts : ParsesText(Texts[t]) => WellTyped(Parsed(Texts[t]))

VARIABLES program,      \* the model the process was generated from, as parsed
          phase,        \* "configured", "running" or "ended"
          sim           \* the globals of the process

vars == <<program, phase, sim>>

Models == {Parsed(Texts[t]) : t \in {u \in DOMAIN Texts : ParsesText(Texts[u])}}

P(b) == program.params[b]
Kind(b) == program.kind[b]
Blocks == DOMAIN program.kind

\* A block's counters and how many entities it holds (len of a queue, busy of a delay).
ZeroCount == [createdN |-> 0, enterN |-> 0, exitN |-> 0, dropN |-> 0, timeoutN |-> 0, held |-> 0]

NullRef == [type |-> "null", idx |-> 0]

InitModel(m) ==
    [clock |-> 0, events |-> <<>>, stop |-> FALSE, reason |-> "",
     pool |-> [e \in DOMAIN m.entities |-> EmptyPool], vars |-> m.vars,
     resource |-> [r \in DOMAIN m.capacity |-> [busy |-> 0, seizeN |-> 0, releaseN |-> 0]],
     count |-> [b \in DOMAIN m.kind |-> ZeroCount],
     arr |-> [b \in DOMAIN m.kind |-> <<>>], total |-> [b \in DOMAIN m.kind |-> 0],
     nextMetricAt |-> MetricStep, stats |-> 0]

------------------------------------------------------------------------------
(* The globals of the process, by their types.                             *)

OfKind(kind) == {b \in Blocks : Kind(b) = kind}

EntityTypes == DOMAIN program.entities

Refs == [type : EntityTypes, idx : Nat \ {0}]

\* A handler on the heap, with what its closure holds: the entity in service, or
\* the place number of the one that waits.
Events ==
    [time : Int, do : {"create"}, block : OfKind("CREATE"), ref : {NullRef}, idx : {0}]
    \cup [time : Int, do : {"delay"}, block : OfKind("DELAY"), ref : Refs, idx : {0}]
    \cup [time : Int, do : {"timeout"}, block : {q \in OfKind("QUEUE") : P(q).hasTimeout},
          ref : {NullRef}, idx : Nat]

Slots == [ref : Refs, valid : BOOLEAN]

FieldNames == UNION {DOMAIN program.entities[e] : e \in EntityTypes}

\* An entity has a value for every field name of the text: 0 where its type has
\* no such field.
Defaults(e) ==
    LET given == program.entities[e]
    IN  [f \in FieldNames |-> IF f \in DOMAIN given THEN given[f] ELSE 0]

Pool == [entities : Seq([FieldNames -> Int]), free : Seq(Nat \ {0})]

Counters == [DOMAIN ZeroCount -> Nat]

Uses == [busy : Nat, seizeN : Nat, releaseN : Nat]

\* Why a run stopped: a block that refused names itself.
Reasons ==
    {"", "type", "no branch condition matched", "empty resource", "stop_rule", "empty_event_queue"}
        \cup Blocks

Sims ==
    [clock : Int, events : Seq(Events), stop : BOOLEAN, reason : Reasons,
     pool : [EntityTypes -> Pool], vars : [DOMAIN program.vars -> Int],
     resource : [DOMAIN program.capacity -> Uses], count : [Blocks -> Counters],
     arr : [Blocks -> Seq(Slots)], total : [Blocks -> Nat], nextMetricAt : Int, stats : Nat]

------------------------------------------------------------------------------
(* Helpers every block function uses.                                      *)

Returns(ok, s) == {[ok |-> ok, s |-> s]}

Stopped(s, why) == [s EXCEPT !.stop = TRUE, !.reason = why]

Counted(s, b, counter) == [s EXCEPT !.count[b][counter] = @ + 1]

Passed(s, b) == Counted(Counted(s, b, "enterN"), b, "exitN")

Schedule(s, delay, do, b, ref, idx) ==
    [s EXCEPT !.events = Push(@, [time |-> s.clock + delay, do |-> do, block |-> b,
                                  ref |-> ref, idx |-> idx])]

FreeEntity(s, ref) ==
    [s EXCEPT !.pool[ref.type] = Free(@, ref.idx, Defaults(ref.type))]

\* An expression that reads the fields of one entity type stops the run when
\* it meets another.
Reads(expr, ref) == expr.of \in {AnyEntity, ref.type}

------------------------------------------------------------------------------
(* The slots of a queue.  A slot given up by a timeout stays, invalid,     *)
(* until it reaches the head.                                              *)

DropInvalid(arr) ==
    LET live == {i \in DOMAIN arr : arr[i].valid}
    IN  IF live = {} THEN <<>> ELSE SubSeq(arr, Min(live), Len(arr))

QueuePush(s, b, ref) ==
    [s EXCEPT !.arr[b] = Append(@, [ref |-> ref, valid |-> TRUE]),
              !.total[b] = @ + 1, !.count[b].held = @ + 1]

\* What queue_top leaves: its head is the entity found, if there is one.
QueueTop(s, b) == [s EXCEPT !.arr[b] = DropInvalid(@)]

QueueDelete(s, b) ==
    LET live == DropInvalid(s.arr[b])
    IN  IF live = <<>> THEN [s EXCEPT !.arr[b] = live]
        ELSE [s EXCEPT !.arr[b] = Tail(live),
                       !.count[b].held = IF @ > 0 THEN @ - 1 ELSE @]

\* The place of slot idx, 0 when it has left the queue or is not valid.
QueueFind(s, b, idx) ==
    LET deleted == s.total[b] - Len(s.arr[b])
        pos == idx - deleted + 1
    IN  IF idx >= deleted /\ pos <= Len(s.arr[b]) /\ s.arr[b][pos].valid THEN pos ELSE 0

QueueGet(s, b, pos) ==
    [s EXCEPT !.arr[b][pos].valid = FALSE, !.count[b].held = IF @ > 0 THEN @ - 1 ELSE @]

------------------------------------------------------------------------------
(* The block functions.  The function call answers the calls they make:    *)
(* call[<<s, b, ref>>] is what the function of block b may return with.    *)

\* The head is deleted from the queue only after its next block has taken it.
TryAdvance(call, s, b) ==
    LET top == QueueTop(s, b)
    IN  IF top.count[b].held = 0 \/ top.arr[b] = <<>>
        THEN Returns(FALSE, top)
        ELSE {IF r.ok THEN [r EXCEPT !.s = Counted(QueueDelete(r.s, b), b, "exitN")] ELSE r :
                 r \in call[<<top, P(b).next, Head(top.arr[b]).ref>>]}

\* try_advance of each queue in turn, up to the first that lets an entity go.
WakeFirst(call, results, queues) ==
    LET tried[i \in 0..Len(queues)] ==
            IF i = 0 THEN results
            ELSE UNION {IF r.ok THEN {r} ELSE TryAdvance(call, r.s, queues[i]) : r \in tried[i - 1]}
    IN  tried[Len(queues)]

\* The queue keeps the entity whether or not it can move on at once.
QueueTakes(call, s, b) == {[ok |-> TRUE, s |-> r.s] : r \in TryAdvance(call, s, b)}

\* The capacity of a queue or delay is evaluated at each entry: what block b
\* holds in s may be too much for one of its values and leave room for another.
Bounded(b) ==
    \/ Kind(b) = "QUEUE" /\ ~P(b).infinite
    \/ Kind(b) = "DELAY" /\ P(b).hasCapacity

\* Fault: the room is tested with > in place of >=.
Full_OneTooMany(s, b, capacity) == s.count[b].held > capacity

Full(s, b, capacity) == s.count[b].held >= capacity

MayBeFull(s, b) == Bounded(b) /\ \E capacity \in P(b).capacity : Full(s, b, capacity)

MayHaveRoom(s, b) == Bounded(b) => \E capacity \in P(b).capacity : ~Full(s, b, capacity)

TurnedAway(s, b) == Counted(Counted(s, b, "enterN"), b, "dropN")

Overflow(call, s, b, ref) ==
    IF P(b).exitOnOverflow
    THEN call[<<TurnedAway(s, b), P(b).nextOverflow, ref>>]
    ELSE Returns(FALSE, s)

JoinQueue(call, s, b, ref) ==
    LET entered == Counted(s, b, "enterN")
    IN  IF ~P(b).hasTimeout
        THEN QueueTakes(call, QueuePush(entered, b, ref), b)
        ELSE IF ~Reads(P(b).timeout, ref)
        THEN Returns(FALSE, Stopped(entered, "type"))
        ELSE UNION {QueueTakes(call, Schedule(QueuePush(entered, b, ref), t, "timeout", b,
                                              NullRef, entered.total[b]), b) :
                       t \in P(b).timeout.draws}

EnterQueue(call, s, b, ref) ==
    (IF MayBeFull(s, b) THEN Overflow(call, s, b, ref) ELSE {})
        \cup (IF MayHaveRoom(s, b) THEN JoinQueue(call, s, b, ref) ELSE {})

JoinDelay(s, b, ref) ==
    IF ~Reads(P(b).duration, ref)
    THEN Returns(FALSE, Stopped(s, "type"))
    ELSE {[ok |-> TRUE,
           s |-> Schedule([Counted(s, b, "enterN") EXCEPT !.count[b].held = @ + 1],
                          d, "delay", b, ref, 0)] : d \in P(b).duration.draws}

EnterDelay(s, b, ref) ==
    (IF MayBeFull(s, b) THEN Returns(FALSE, s) ELSE {})
        \cup (IF MayHaveRoom(s, b) THEN JoinDelay(s, b, ref) ELSE {})

EnterTerminate(s, b, ref) == Returns(TRUE, FreeEntity(Counted(s, b, "enterN"), ref))

\* An assignment skips an entity of another type than it writes to or reads.
Applies(a, ref) == a.entity \in {AnyEntity, ref.type} /\ Reads(a.expr, ref)

\* What one assignment may leave of s.
Assigned(s, a, ref) ==
    LET new(old) == {IF a.op = "const" THEN n ELSE old + n : n \in a.expr.draws}
        field == s.pool[ref.type].entities[ref.idx][a.name]
    IN  IF ~Applies(a, ref) THEN {s}
        ELSE IF a.entity = AnyEntity
        THEN {[s EXCEPT !.vars[a.name] = n] : n \in new(s.vars[a.name])}
        ELSE {[s EXCEPT !.pool[ref.type].entities[ref.idx][a.name] = n] : n \in new(field)}

\* What the assignments, in their order, may leave of s.
AllAssigned(s, b, ref) ==
    LET set[i \in 0..Len(P(b).assignments)] ==
            IF i = 0 THEN {s} ELSE UNION {Assigned(t, P(b).assignments[i], ref) : t \in set[i - 1]}
    IN  set[Len(P(b).assignments)]

\* The names block b has assigned to in the fields of ref, or in the variables.
Targets(b, entity, ref) ==
    {a.name : a \in {x \in ToSet(P(b).assignments) : x.entity = entity /\ Applies(x, ref)}}

\* Every target of the block as it was in old.
Restored(s, b, ref, old) ==
    LET back(now, was, names) == [n \in DOMAIN now |-> IF n \in names THEN was[n] ELSE now[n]]
    IN  [s EXCEPT !.vars = back(@, old.vars, Targets(b, AnyEntity, ref)),
                  !.pool[ref.type].entities[ref.idx] =
                      back(@, old.pool[ref.type].entities[ref.idx], Targets(b, ref.type, ref))]

\* The assignments are taken back when the next block refuses.
EnterAssign(call, s, b, ref) ==
    {[r EXCEPT !.s = IF r.ok THEN Passed(@, b) ELSE Restored(@, b, ref, s)] :
        r \in UNION {call[<<t, P(b).next, ref>>] : t \in AllAssigned(s, b, ref)}}

\* What a condition may come out as for an entity: false for one of another type
\* than it reads.
Outcomes(s, c, ref) ==
    LET field == s.pool[ref.type].entities[ref.idx][c.name]
    IN  IF c.entity \notin {AnyEntity, ref.type} THEN {FALSE}
        ELSE CASE c.test = "chance" -> BOOLEAN
               [] c.test = "is"     -> {TRUE}
               [] c.test = "equal"  -> {field = c.n}
               [] c.test = "atMost" -> {field <= c.n}

BranchTo(call, s, b, next, ref) ==
    {[r EXCEPT !.s = IF r.ok THEN Passed(@, b) ELSE @] : r \in call[<<s, next, ref>>]}

\* The first case that holds is taken.
EnterBranch(call, s, b, ref) ==
    LET cases == P(b).cases
        fails(i) == FALSE \in Outcomes(s, cases[i].cond, ref)
        taken == {i \in DOMAIN cases : /\ TRUE \in Outcomes(s, cases[i].cond, ref)
                                       /\ \A j \in 1..(i - 1) : fails(j)}
    IN  (UNION {BranchTo(call, s, b, cases[i].next, ref) : i \in taken})
        \cup (IF \E i \in DOMAIN cases : ~fails(i) THEN {}
              ELSE IF P(b).hasElse THEN BranchTo(call, s, b, P(b).elseNext, ref)
              ELSE Returns(FALSE, Stopped(s, "no branch condition matched")))

\* A block that has taken, or given back, a unit for an entity that went on.
Seized(s, b, r) == [Passed(s, b) EXCEPT !.resource[r].seizeN = @ + 1]
Released(s, b, r) == [Passed(s, b) EXCEPT !.resource[r].releaseN = @ + 1]

InUse(s, r, n) == [s EXCEPT !.resource[r].busy = n]

\* Fault: a refused SEIZE keeps its unit.
EnterSeize_Kept(call, s, b, ref) ==
    LET r == P(b).resource
    IN  IF s.resource[r].busy >= program.capacity[r]
        THEN Returns(FALSE, s)
        ELSE {[o EXCEPT !.s = IF o.ok THEN Seized(@, b, r) ELSE @] :
                 o \in call[<<InUse(s, r, s.resource[r].busy + 1), P(b).next, ref>>]}

\* The unit is given back when the next block refuses.
EnterSeize(call, s, b, ref) ==
    LET r == P(b).resource
    IN  IF s.resource[r].busy >= program.capacity[r]
        THEN Returns(FALSE, s)
        ELSE {[o EXCEPT !.s = IF o.ok THEN Seized(@, b, r) ELSE InUse(@, r, s.resource[r].busy)] :
                 o \in call[<<InUse(s, r, s.resource[r].busy + 1), P(b).next, ref>>]}

\* The queues of every SEIZE block the resource lists, in its order.
WakeResourceQueues(call, s, r) ==
    LET seizes == program.seizes[r]
        tried[i \in 0..Len(seizes)] ==
            IF i = 0 THEN Returns(FALSE, s)
            ELSE WakeFirst(call, tried[i - 1], P(seizes[i]).waitQueues)
    IN  tried[Len(seizes)]

EnterRelease(call, s, b, ref) ==
    LET r == P(b).resource
    IN  IF s.resource[r].busy = 0
        THEN Returns(FALSE, Stopped(s, "empty resource"))
        ELSE UNION {IF o.ok
                    THEN {[ok |-> TRUE, s |-> w.s] : w \in WakeResourceQueues(call, Released(o.s, b, r), r)}
                    ELSE Returns(FALSE, InUse(o.s, r, s.resource[r].busy)) :
                       o \in call[<<InUse(s, r, s.resource[r].busy - 1), P(b).next, ref>>]}

\* The function of block b.  That of a CREATE block takes no entity: a text
\* whose blocks call it does not compile.
BlockFunction(call, s, b, ref) ==
    CASE Kind(b) = "QUEUE"   -> EnterQueue(call, s, b, ref)
      [] Kind(b) = "DELAY"   -> EnterDelay(s, b, ref)
      [] Kind(b) = "SEIZE"   -> EnterSeize(call, s, b, ref)
      [] Kind(b) = "RELEASE" -> EnterRelease(call, s, b, ref)
      [] Kind(b) = "ASSIGN"  -> EnterAssign(call, s, b, ref)
      [] Kind(b) = "BRANCH"  -> EnterBranch(call, s, b, ref)
      [] Kind(b) = "TERMINATE" -> EnterTerminate(s, b, ref)
      [] Kind(b) = "CREATE"  -> {}

Calls == Sims \X Blocks \X Refs

\* The calls answered within n levels.
Call ==
    LET within[n \in 0..MaxDepth] ==
            [c \in Calls |->
                IF n = 0 THEN {} ELSE BlockFunction(within[n - 1], c[1], c[2], c[3])]
    IN  within[MaxDepth]

------------------------------------------------------------------------------
(* The CREATE blocks, and the handlers of the scheduled events.            *)

\* One entity of a batch.  One the model refuses is destroyed, or it ends the
\* batch and stops the run, by the block's policy.
CreateOne(s, b) ==
    LET e == P(b).entity
        ref == [type |-> e, idx |-> AllocIdx(s.pool[e])]
        made == [s EXCEPT !.pool[e] = Alloc(@, Defaults(e))]
    IN  {CASE r.ok -> [r EXCEPT !.s = Counted(@, b, "exitN")]
           [] ~r.ok /\ r.s.stop -> r
           [] ~r.ok /\ ~r.s.stop /\ P(b).policy = "destroy" ->
                 [ok |-> TRUE, s |-> FreeEntity(Counted(r.s, b, "dropN"), ref)]
           [] OTHER -> [ok |-> FALSE, s |-> Stopped(r.s, b)] :
             r \in Call[<<Counted(made, b, "createdN"), P(b).next, ref>>]}

CreateMany(s, b, batch) ==
    LET made[i \in 0..batch] ==
            IF i = 0 THEN Returns(TRUE, s)
            ELSE UNION {IF r.ok THEN CreateOne(r.s, b) ELSE {r} : r \in made[i - 1]}
    IN  {r.s : r \in made[batch]}

\* The size of a batch is evaluated once, before its first entity.
CreateBatch(s, b) == UNION {CreateMany(s, b, batch) : batch \in P(b).batch}

ScheduleCreate(s, b) == {Schedule(s, t, "create", b, NullRef, 0) : t \in P(b).interval}

Arrive(s, b) == UNION {IF t.stop THEN {t} ELSE ScheduleCreate(t, b) : t \in CreateBatch(s, b)}

StartCreate(s, b) == IF P(b).immediately THEN Arrive(s, b) ELSE ScheduleCreate(s, b)

\* startCreateBlocks, in the order of the text.
StartAll(s) ==
    LET order == program.order
        started[i \in 0..Len(order)] ==
            IF i = 0 THEN {s}
            ELSE UNION {IF Kind(order[i]) = "CREATE" THEN StartCreate(t, order[i]) ELSE {t} :
                           t \in started[i - 1]}
    IN  started[Len(order)]

\* The end of a delay: only when the next block has taken the entity is the
\* place freed, and then the waiting queues are tried.
DelayEnds(s, b, ref) ==
    LET left(t) == [Counted(t, b, "exitN") EXCEPT !.count[b].held = IF @ > 0 THEN @ - 1 ELSE @]
    IN  UNION {CASE r.ok -> {w.s : w \in WakeFirst(Call, Returns(FALSE, left(r.s)), P(b).waitQueues)}
                 [] ~r.ok /\ r.s.stop -> {r.s}
                 [] OTHER -> {Stopped(r.s, b)} : r \in Call[<<s, P(b).next, ref>>]}

\* A timeout whose entity has left the queue does nothing.
TimesOut(s, b, idx) ==
    LET pos == QueueFind(s, b, idx)
    IN  IF pos = 0 THEN {s}
        ELSE {IF r.ok \/ r.s.stop THEN r.s ELSE Stopped(r.s, b) :
                 r \in Call[<<Counted(QueueGet(s, b, pos), b, "timeoutN"), P(b).nextTimeout,
                              s.arr[b][pos].ref>>]}

Handle(s, event) ==
    CASE event.do = "create"  -> Arrive(s, event.block)
      [] event.do = "delay"   -> DelayEnds(s, event.block, event.ref)
      [] event.do = "timeout" -> TimesOut(s, event.block, event.idx)

------------------------------------------------------------------------------
(* The loop.                                                               *)

\* Fault: the next point moves one step only.
Sampled_OneStep(s) ==
    IF s.clock < s.nextMetricAt THEN s
    ELSE [s EXCEPT !.stats = @ + 1, !.nextMetricAt = @ + MetricStep]

\* maybeSendMetricStep: one STAT line when the clock has reached a sample point,
\* and the next point is the first one the clock has not reached.
Sampled(s) ==
    IF s.clock < s.nextMetricAt THEN s
    ELSE [s EXCEPT !.stats = @ + 1,
                   !.nextMetricAt = @ + MetricStep * ((s.clock - @) \div MetricStep + 1)]

StopRuleApplied(s) ==
    IF ~s.stop /\ s.clock >= Horizon THEN Stopped(s, "stop_rule") ELSE s

\* The loop ends on the time -1, which Pop answers for an empty queue and which
\* an event drawn with a negative delay may have as well.
NoTime == -1

NothingToDo == sim.events = <<>> \/ Head(sim.events).time = NoTime

Init ==
    /\ program \in {m \in Models : ValidateAndLink(m)}
    /\ phase = "configured"
    /\ sim = InitModel(program)

Start ==
    /\ phase = "configured"
    /\ phase' = "running"
    /\ sim' \in StartAll(sim)
    /\ UNCHANGED program

Step ==
    /\ phase = "running"
    /\ ~sim.stop /\ ~NothingToDo
    /\ \E s \in Handle([sim EXCEPT !.clock = Head(sim.events).time, !.events = Popped(@)],
                       Head(sim.events)) :
          sim' = StopRuleApplied(Sampled(s))
    /\ UNCHANGED <<program, phase>>

\* The last STAT line and END.
End ==
    /\ phase = "running"
    /\ sim.stop \/ NothingToDo
    /\ phase' = "ended"
    /\ sim' = [sim EXCEPT !.reason = IF @ = "" THEN "empty_event_queue" ELSE @, !.stats = @ + 1]
    /\ UNCHANGED program

Next == Start \/ Step \/ End

Spec == Init /\ [][Next]_vars

------------------------------------------------------------------------------
(* Properties.                                                             *)

\* The events of a delay that hold an entity of it.
Serving(b) == {i \in DOMAIN sim.events : sim.events[i].do = "delay" /\ sim.events[i].block = b}

Waiting(b) == {i \in DOMAIN sim.arr[b] : sim.arr[b][i].valid}

\* n entities fit a value the capacity of block b may come to: the capacity itself
\* when it is a literal.
Fits(b, n) == Bounded(b) /\ n > 0 => \E capacity \in P(b).capacity : n <= capacity

\* The globals have their types, every index in a queue or on the free list is
\* one of the pool, what a block holds fits a value its capacity may come to, and
\* a stopped run has a reason.
TypeOK ==
    /\ phase \in {"configured", "running", "ended"}
    /\ sim \in Sims
    /\ sim.stop => sim.reason # ""
    /\ \A b \in Blocks : Fits(b, sim.count[b].held)
    /\ \A e \in EntityTypes : ToSet(sim.pool[e].free) \subseteq DOMAIN sim.pool[e].entities
    /\ \A b \in Blocks : \A i \in DOMAIN sim.arr[b] :
           LET ref == sim.arr[b][i].ref IN ref.idx \in DOMAIN sim.pool[ref.type].entities

\* Until a run stops, an entity of the pool is in exactly one place: waiting in
\* one queue, in service in one delay, or on the free list.  Timeouts, overflows,
\* refusals with their rollback and rework never duplicate, lose or reuse one.
EntityInOnePlace ==
    ~sim.stop =>
        \A e \in DOMAIN sim.pool : \A i \in DOMAIN sim.pool[e].entities :
            LET ref == [type |-> e, idx |-> i]
                slots == UNION {{<<b, k>> : k \in {j \in Waiting(b) : sim.arr[b][j].ref = ref}} : b \in Blocks}
                served == UNION {{k \in Serving(b) : sim.events[k].ref = ref} : b \in Blocks}
                free == {k \in DOMAIN sim.pool[e].free : sim.pool[e].free[k] = i}
            IN  Cardinality(slots) + Cardinality(served) + Cardinality(free) = 1

\* The counters a metric or a stop rule reads agree with the places of the
\* entities: whoever entered a block left it, timed out, was turned away or is in
\* it.  A resource is in use by as many as have seized it and not released it,
\* within its capacity, also after a SEIZE was rolled back.
CountersBalance ==
    ~sim.stop =>
        /\ \A b \in Blocks :
              LET c == sim.count[b]
              IN  /\ Kind(b) = "QUEUE" =>
                        /\ c.enterN = c.exitN + c.timeoutN + c.dropN + c.held
                        /\ c.held = Cardinality(Waiting(b))
                  /\ Kind(b) = "DELAY" =>
                        c.enterN = c.exitN + c.held /\ c.held = Cardinality(Serving(b))
                  /\ Kind(b) = "CREATE" => c.createdN = c.exitN + c.dropN
        /\ \A r \in DOMAIN sim.resource :
              LET u == sim.resource[r]
              IN  u.busy = u.seizeN - u.releaseN /\ u.busy <= program.capacity[r]

\* A block has room, whatever its capacity comes to.
HasRoom(b) ==
    CASE Kind(b) = "DELAY" -> ~MayBeFull(sim, b)
      [] Kind(b) = "SEIZE" -> sim.resource[P(b).resource].busy < program.capacity[P(b).resource]

\* Between two events nobody waits in a queue for a delay or a resource that
\* lists the queue and has room, whatever its capacity comes to: the wake that
\* should have moved it is never lost.
NoLostWake ==
    ~sim.stop =>
        \A b \in Blocks : Kind(b) \in {"DELAY", "SEIZE"} =>
            \A q \in ToSet(P(b).waitQueues) :
                P(q).next = b /\ sim.count[q].held > 0 => ~HasRoom(b)

\* Model time never runs backwards, whatever order events were scheduled in.
ClockMonotone == [][sim'.clock >= sim.clock]_vars

\* While a run goes on it writes one STAT line for an event that takes the clock
\* past one or more sample points, and none otherwise.
SampledOncePerStep ==
    [][phase = "running" /\ phase' = "running" =>
          sim'.stats - sim.stats =
              IF sim'.clock \div MetricStep > sim.clock \div MetricStep THEN 1 ELSE 0]_vars
===============================================================================
