---------------------------- MODULE PendingQueue ----------------------------
(***************************************************************************)
(* The control plane's in-memory queue (controlplane/pending_queue.go).    *)
(* Every method holds PendingQueue.mu, so each is a function of the queue. *)
(* A queued record is identified with its key (model hash, experiment id). *)
(***************************************************************************)
EXTENDS Sequences, SequencesExt

CONSTANT Items      \* the keys that can be queued

Queue == [items : Seq(Items), index : SUBSET Items]

EmptyQueue == [items |-> <<>>, index |-> {}]

Enqueue(q, x) ==
    IF x \in q.index THEN q
    ELSE [items |-> Append(q.items, x), index |-> q.index \cup {x}]

EnqueueMany(q, xs) == FoldLeft(Enqueue, q, xs)

\* PopBatch(limit): limit <= 0 or above the length means everything.
BatchSize(q, limit) == IF limit <= 0 \/ limit > Len(q.items) THEN Len(q.items) ELSE limit

PopBatch(q, limit) == SubSeq(q.items, 1, BatchSize(q, limit))

\* Fault: popped keys stay in the index.
AfterPop_IndexKept(q, limit) ==
    [items |-> SubSeq(q.items, BatchSize(q, limit) + 1, Len(q.items)), index |-> q.index]

AfterPop(q, limit) ==
    [items |-> SubSeq(q.items, BatchSize(q, limit) + 1, Len(q.items)),
     index |-> q.index \ ToSet(PopBatch(q, limit))]

\* The elements of s that are kept, in their order.
Filter(s, kept) == FoldLeft(LAMBDA t, x : IF x \in kept THEN Append(t, x) ELSE t, <<>>, s)

RemoveKey(q, x) ==
    IF x \notin q.index THEN q
    ELSE [items |-> Filter(q.items, Items \ {x}), index |-> q.index \ {x}]
=============================================================================
