------------------------------- MODULE ModelDsl -------------------------------
(***************************************************************************)
(* The front end of the generator: Parse and ValidateAndLink, which decide *)
(* whether a model text is accepted and what the emitter is given.         *)
(*                                                                         *)
(* A text is a record of its four sections, already cut into words:        *)
(*   entities, vars   records: name -> fields or default value             *)
(*   resources        a sequence of [name, lines]                          *)
(*   blocks           a sequence of [type, name, lines]                    *)
(* where lines is the sequence of <<parameter, value>> between the braces. *)
(* An expression is the set of values it may come to, with the entity it   *)
(* reads, or AnyEntity; the expressions that may not read an entity (an    *)
(* interval, a batch, a capacity) are the set alone, and a literal is the  *)
(* set of one value.  The program evaluates an expression anew each time   *)
(* it meets it, so each time any value of the set may come.  Hash,         *)
(* spelling and typing of literals, and line numbers of errors are left    *)
(* out.                                                                    *)
(***************************************************************************)
EXTENDS Integers, Sequences, FiniteSets, SequencesExt

\* The entity of an expression that reads no entity field.
AnyEntity == ""

\* The word a queue of unlimited capacity is written with: it comes to no number.
Infinity == {}

\* The name of an absent block reference.
NoBlock == ""

------------------------------------------------------------------------------
(* parse_block.go, parse_resource.go, parser.go                            *)

\* The values the lines give to a parameter, in order.
Values(lines, param) ==
    LET given == SelectSeq(lines, LAMBDA line : line[1] = param)
    IN  [i \in DOMAIN given |-> given[i][2]]

Has(lines, param) == Values(lines, param) # <<>>

Value(lines, param, default) ==
    IF Has(lines, param) THEN Head(Values(lines, param)) ELSE default

\* No unknown parameter, no required one missing, and only those of repeated
\* given twice.
Complete(lines, required, optional, repeated) ==
    /\ \A i \in DOMAIN lines : lines[i][1] \in required \cup optional \cup repeated
    /\ \A param \in required : Has(lines, param)
    /\ \A param \in required \cup optional : Len(Values(lines, param)) <= 1

ParsesCreate(lines) ==
    Complete(lines, {"entity", "interval", "next"},
             {"immediately", "batch", "blocking_policy"}, {})

CreateParams(lines) ==
    [entity |-> Value(lines, "entity", ""), interval |-> Value(lines, "interval", {}),
     immediately |-> Value(lines, "immediately", FALSE), batch |-> Value(lines, "batch", {1}),
     policy |-> Value(lines, "blocking_policy", "error"), next |-> Value(lines, "next", NoBlock)]

ParsesQueue(lines) ==
    /\ Complete(lines, {"next", "capacity"},
                {"discipline", "timeout", "next_timeout", "exit_on_overflow", "next_overflow"}, {})
    /\ Value(lines, "exit_on_overflow", FALSE) =>
           Has(lines, "next_overflow") /\ Value(lines, "capacity", {0}) # Infinity

QueueParams(lines) ==
    [infinite |-> Value(lines, "capacity", {0}) = Infinity, capacity |-> Value(lines, "capacity", {0}),
     hasTimeout |-> Has(lines, "timeout"),
     timeout |-> Value(lines, "timeout", [of |-> AnyEntity, draws |-> {}]),
     nextTimeout |-> Value(lines, "next_timeout", NoBlock),
     exitOnOverflow |-> Value(lines, "exit_on_overflow", FALSE),
     nextOverflow |-> Value(lines, "next_overflow", NoBlock), next |-> Value(lines, "next", NoBlock)]

ParsesDelay(lines) ==
    Complete(lines, {"next", "duration"}, {"capacity"}, {"wait_queue"})

DelayParams(lines) ==
    [duration |-> Value(lines, "duration", [of |-> AnyEntity, draws |-> {}]),
     hasCapacity |-> Has(lines, "capacity"), capacity |-> Value(lines, "capacity", {0}),
     waitQueues |-> Values(lines, "wait_queue"), next |-> Value(lines, "next", NoBlock)]

ParsesSeize(lines) == Complete(lines, {"resource", "next"}, {}, {"wait_queue"})

SeizeParams(lines) ==
    [resource |-> Value(lines, "resource", ""), waitQueues |-> Values(lines, "wait_queue"),
     next |-> Value(lines, "next", NoBlock)]

ParsesRelease(lines) == Complete(lines, {"resource", "next"}, {}, {})

ReleaseParams(lines) ==
    [resource |-> Value(lines, "resource", ""), next |-> Value(lines, "next", NoBlock)]

\* A value of "set" is [entity, name, op, expr]: the target, a variable when entity
\* is AnyEntity, and the value it gets, or with "add" gets on top of its own.
ParsesAssign(lines) == Complete(lines, {"next"}, {}, {"set"})

AssignParams(lines) ==
    [assignments |-> Values(lines, "set"), next |-> Value(lines, "next", NoBlock)]

\* A value of "if" is [cond, next], one of "else" a block.  A condition reads an
\* entity, or AnyEntity: it asks for an entity of that type, compares a field of
\* it with n, or may come out either way, as any expression may that reads it.
ParsesBranch(lines) ==
    Complete(lines, {}, {"else"}, {"if"}) /\ lines # <<>>

BranchParams(lines) ==
    [cases |-> Values(lines, "if"), hasElse |-> Has(lines, "else"),
     elseNext |-> Value(lines, "else", NoBlock)]

Parses(block) ==
    CASE block.type = "CREATE"  -> ParsesCreate(block.lines)
      [] block.type = "QUEUE"   -> ParsesQueue(block.lines)
      [] block.type = "DELAY"   -> ParsesDelay(block.lines)
      [] block.type = "SEIZE"   -> ParsesSeize(block.lines)
      [] block.type = "RELEASE" -> ParsesRelease(block.lines)
      [] block.type = "ASSIGN"  -> ParsesAssign(block.lines)
      [] block.type = "BRANCH"  -> ParsesBranch(block.lines)
      [] block.type = "TERMINATE" -> block.lines = <<>>
      [] OTHER -> FALSE

Params(block) ==
    CASE block.type = "CREATE"  -> CreateParams(block.lines)
      [] block.type = "QUEUE"   -> QueueParams(block.lines)
      [] block.type = "DELAY"   -> DelayParams(block.lines)
      [] block.type = "SEIZE"   -> SeizeParams(block.lines)
      [] block.type = "RELEASE" -> ReleaseParams(block.lines)
      [] block.type = "ASSIGN"  -> AssignParams(block.lines)
      [] block.type = "BRANCH"  -> BranchParams(block.lines)
      [] OTHER -> <<>>

ParsesResource(lines) == Complete(lines, {"capacity"}, {}, {"seize"}) /\ Has(lines, "seize")

\* The global names, in order of declaration: none may be used twice.
Names(text) ==
    SetToSeq(DOMAIN text.entities) \o SetToSeq(DOMAIN text.vars)
        \o [i \in DOMAIN text.resources |-> text.resources[i].name]
        \o [i \in DOMAIN text.blocks |-> text.blocks[i].name]

ParsesText(text) ==
    /\ DOMAIN text.entities # {}
    /\ Len(text.blocks) >= 2
    /\ \A i \in DOMAIN text.resources : ParsesResource(text.resources[i].lines)
    /\ \A i \in DOMAIN text.blocks : Parses(text.blocks[i])
    /\ IsInjective(Names(text))

\* The model Parse returns for an accepted text.
Parsed(text) ==
    LET named(sections, name) == CHOOSE d \in ToSet(sections) : d.name = name
        blocks == {text.blocks[i].name : i \in DOMAIN text.blocks}
        resources == {text.resources[i].name : i \in DOMAIN text.resources}
    IN  [entities |-> text.entities, vars |-> text.vars,
         order    |-> [i \in DOMAIN text.blocks |-> text.blocks[i].name],
         kind     |-> [b \in blocks |-> named(text.blocks, b).type],
         params   |-> [b \in blocks |-> Params(named(text.blocks, b))],
         capacity |-> [r \in resources |-> Value(named(text.resources, r).lines, "capacity", 0)],
         seizes   |-> [r \in resources |-> Values(named(text.resources, r).lines, "seize")]]

------------------------------------------------------------------------------
(* model.go: the types of a parsed model.  A name is never empty.          *)

BlockName == STRING \ {NoBlock}

Expr == [of : STRING, draws : SUBSET Int]

ParamTypes(kind) ==
    CASE kind = "CREATE" ->
           [entity : STRING, interval : SUBSET Int, immediately : BOOLEAN, batch : SUBSET Nat,
            policy : {"error", "destroy"}, next : STRING]
      [] kind = "QUEUE" ->
           [infinite : BOOLEAN, capacity : SUBSET Nat, hasTimeout : BOOLEAN, timeout : Expr,
            nextTimeout : STRING, exitOnOverflow : BOOLEAN, nextOverflow : STRING, next : STRING]
      [] kind = "DELAY" ->
           [duration : Expr, hasCapacity : BOOLEAN, capacity : SUBSET Nat, waitQueues : Seq(STRING),
            next : STRING]
      [] kind = "SEIZE" -> [resource : STRING, waitQueues : Seq(STRING), next : STRING]
      [] kind = "RELEASE" -> [resource : STRING, next : STRING]
      [] kind = "ASSIGN" ->
           [assignments : Seq([entity : STRING, name : STRING, op : {"const", "add"}, expr : Expr]),
            next : STRING]
      [] kind = "BRANCH" ->
           [cases : Seq([cond : [test : {"chance", "is", "equal", "atMost"}, entity : STRING,
                                 name : STRING, n : Int],
                         next : STRING]),
            hasElse : BOOLEAN, elseNext : STRING]
      [] kind = "TERMINATE" -> {<<>>}
      [] OTHER -> {}

WellTyped(model) ==
    /\ \A e \in DOMAIN model.entities :
           model.entities[e] \in [DOMAIN model.entities[e] -> Int]
    /\ model.vars \in [DOMAIN model.vars -> Int]
    /\ model.capacity \in [DOMAIN model.capacity -> Nat]
    /\ model.seizes \in [DOMAIN model.capacity -> Seq(STRING)]
    /\ DOMAIN model.kind \subseteq BlockName
    /\ DOMAIN model.params = DOMAIN model.kind
    /\ model.order \in Seq(DOMAIN model.kind)
    /\ \A b \in DOMAIN model.kind : model.params[b] \in ParamTypes(model.kind[b])

------------------------------------------------------------------------------
(* validate.go, on a parsed model                                          *)

IsBlock(model, name) == name \in DOMAIN model.kind

IsKind(model, name, kind) == IsBlock(model, name) /\ model.kind[name] = kind

RequiredBlocks(model) ==
    \A kind \in {"CREATE", "TERMINATE"} : \E b \in DOMAIN model.kind : model.kind[b] = kind

LinksCreate(model, b) ==
    LET p == model.params[b]
    IN  p.entity \in DOMAIN model.entities /\ IsBlock(model, p.next)

\* A timeout and next_timeout, exit_on_overflow and next_overflow, come together.
LinksQueue(model, b) ==
    LET p == model.params[b]
    IN  /\ IsBlock(model, p.next)
        /\ p.hasTimeout <=> p.nextTimeout # NoBlock
        /\ p.hasTimeout => IsBlock(model, p.nextTimeout)
        /\ p.exitOnOverflow <=> p.nextOverflow # NoBlock
        /\ p.exitOnOverflow => IsBlock(model, p.nextOverflow)

LinksDelay(model, b) ==
    LET p == model.params[b]
    IN  /\ IsBlock(model, p.next)
        /\ \A q \in ToSet(p.waitQueues) : IsKind(model, q, "QUEUE")

\* Fault: LinksSeize without its last test.
LinksSeize_Unlisted(model, b) ==
    LET p == model.params[b]
    IN  /\ p.resource \in DOMAIN model.capacity
        /\ IsBlock(model, p.next)
        /\ \A q \in ToSet(p.waitQueues) : IsKind(model, q, "QUEUE")

LinksSeize(model, b) ==
    LET p == model.params[b]
    IN  /\ p.resource \in DOMAIN model.capacity
        /\ IsBlock(model, p.next)
        /\ \A q \in ToSet(p.waitQueues) : IsKind(model, q, "QUEUE")
        /\ b \in ToSet(model.seizes[p.resource])

LinksRelease(model, b) ==
    LET p == model.params[b]
    IN  p.resource \in DOMAIN model.capacity /\ IsBlock(model, p.next)

LinksAssign(model, b) ==
    LET p == model.params[b]
    IN  /\ IsBlock(model, p.next)
        /\ \A a \in ToSet(p.assignments) :
               IF a.entity = AnyEntity
               THEN a.name \in DOMAIN model.vars
               ELSE a.entity \in DOMAIN model.entities /\ a.name \in DOMAIN model.entities[a.entity]

LinksBranch(model, b) ==
    LET p == model.params[b]
    IN  /\ \A i \in DOMAIN p.cases : IsBlock(model, p.cases[i].next)
        /\ p.hasElse => IsBlock(model, p.elseNext)

LinksBlock(model, b) ==
    CASE model.kind[b] = "CREATE"  -> LinksCreate(model, b)
      [] model.kind[b] = "QUEUE"   -> LinksQueue(model, b)
      [] model.kind[b] = "DELAY"   -> LinksDelay(model, b)
      [] model.kind[b] = "SEIZE"   -> LinksSeize(model, b)
      [] model.kind[b] = "RELEASE" -> LinksRelease(model, b)
      [] model.kind[b] = "ASSIGN"  -> LinksAssign(model, b)
      [] model.kind[b] = "BRANCH"  -> LinksBranch(model, b)
      [] OTHER -> TRUE

LinksResource(model, r) ==
    \A s \in ToSet(model.seizes[r]) :
        IsKind(model, s, "SEIZE") /\ model.params[s].resource = r

\* Where canReachWaitTargetFrom goes on from a block: it passes only ASSIGN and
\* BRANCH.
PassedOn(model, b) ==
    LET p == model.params[b]
    IN  CASE model.kind[b] = "ASSIGN" -> {p.next}
          [] model.kind[b] = "BRANCH" ->
               {p.cases[i].next : i \in DOMAIN p.cases} \cup (IF p.hasElse THEN {p.elseNext} ELSE {})
          [] OTHER -> {}

\* The search visits no block twice, so it is over after as many rounds as
\* there are blocks.
Reaches(model, b, target) ==
    LET visited[n \in Nat] ==
            IF n = 0 THEN {b}
            ELSE visited[n - 1] \cup UNION {PassedOn(model, c) : c \in visited[n - 1] \ {target}}
    IN  target \in visited[Cardinality(DOMAIN model.kind)]

WaitQueuesReach(model) ==
    \A b \in DOMAIN model.kind : model.kind[b] \in {"DELAY", "SEIZE"} =>
        \A q \in ToSet(model.params[b].waitQueues) :
            Reaches(model, model.params[q].next, b)

ValidateAndLink(model) ==
    /\ RequiredBlocks(model)
    /\ \A b \in DOMAIN model.kind : LinksBlock(model, b)
    /\ \A r \in DOMAIN model.seizes : LinksResource(model, r)
    /\ WaitQueuesReach(model)

\* Generate hands a model to the emitter.
Accepted(text) == ParsesText(text) /\ ValidateAndLink(Parsed(text))
===============================================================================
