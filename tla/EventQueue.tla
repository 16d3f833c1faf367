------------------------------ MODULE EventQueue ------------------------------
(***************************************************************************)
(* The containers a generated model runs on: the event queue, a 4-ary      *)
(* min-heap kept in a slice, and the pool of entities with its free list.  *)
(* Both are values here, and an operation returns the new value.  The      *)
(* slice starts at 1 where the Go one starts at 0.                         *)
(***************************************************************************)
EXTENDS Integers, Sequences

------------------------------------------------------------------------------
\* The event queue: a sequence of events with a field time.

Parent(i) == (i - 2) \div 4 + 1

Swapped(q, i, j) == [q EXCEPT ![i] = q[j], ![j] = q[i]]

\* Fault: Earliest looks at the first two children only.
Earliest_TwoChildren(q, i) ==
    LET family == {i} \cup ((4 * i - 2) .. (4 * i - 1) \cap DOMAIN q)
    IN  CHOOSE j \in family : \A k \in family :
            q[j].time < q[k].time \/ (q[j].time = q[k].time /\ j <= k)

\* The node itself when no child is earlier, else the earliest child, the
\* first of them on a tie.
Earliest(q, i) ==
    LET family == {i} \cup ((4 * i - 2) .. (4 * i + 1) \cap DOMAIN q)
    IN  CHOOSE j \in family : \A k \in family :
            q[j].time < q[k].time \/ (q[j].time = q[k].time /\ j <= k)

\* One round of the loop of siftUp: the event in place h.at of the heap changes
\* places with its parent, unless it is the root or not earlier.
UpStep(h) ==
    IF h.at = 1 \/ h.q[h.at].time >= h.q[Parent(h.at)].time
    THEN h
    ELSE [q |-> Swapped(h.q, h.at, Parent(h.at)), at |-> Parent(h.at)]

\* One round of the loop of siftDown, which changes nothing when the event is
\* the earliest of its family.
DownStep(h) ==
    [q |-> Swapped(h.q, h.at, Earliest(h.q, h.at)), at |-> Earliest(h.q, h.at)]

\* A path of the heap is shorter than the heap, so as many rounds as there are
\* events are enough; the rounds after the last change nothing.
SiftUp(q, i) ==
    LET after[n \in 0..Len(q)] ==
            IF n = 0 THEN [q |-> q, at |-> i] ELSE UpStep(after[n - 1])
    IN  after[Len(q)].q

SiftDown(q, i) ==
    LET after[n \in 0..Len(q)] ==
            IF n = 0 THEN [q |-> q, at |-> i] ELSE DownStep(after[n - 1])
    IN  after[Len(q)].q

Push(q, event) == SiftUp(Append(q, event), Len(q) + 1)

\* What Pop leaves behind; it returns Head(q).  The last event takes the root.
Popped(q) ==
    IF Len(q) = 1
    THEN <<>>
    ELSE SiftDown([SubSeq(q, 1, Len(q) - 1) EXCEPT ![1] = q[Len(q)]], 1)

------------------------------------------------------------------------------
\* The pool: the entities ever made and the indices free to be used again,
\* last freed first.

EmptyPool == [entities |-> <<>>, free |-> <<>>]

\* The index the next Alloc returns.
AllocIdx(pool) ==
    IF pool.free = <<>> THEN Len(pool.entities) + 1
    ELSE pool.free[Len(pool.free)]

\* Fault: Alloc leaves the index on the free list.
Alloc_NotRemoved(pool, defaults) ==
    IF pool.free = <<>>
    THEN [pool EXCEPT !.entities = Append(@, defaults)]
    ELSE [pool EXCEPT !.entities[AllocIdx(pool)] = defaults]

\* The pool after Alloc, whose caller sets every field to its default.
Alloc(pool, defaults) ==
    IF pool.free = <<>>
    THEN [pool EXCEPT !.entities = Append(@, defaults)]
    ELSE [entities |-> [pool.entities EXCEPT ![AllocIdx(pool)] = defaults],
          free |-> SubSeq(pool.free, 1, Len(pool.free) - 1)]

Free(pool, idx, zero) ==
    [entities |-> [pool.entities EXCEPT ![idx] = zero],
     free |-> Append(pool.free, idx)]
===============================================================================
