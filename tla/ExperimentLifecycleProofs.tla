---------------------- MODULE ExperimentLifecycleProofs ----------------------
(***************************************************************************)
(* Theorems of ExperimentLifecycle for any experiments, nodes, slots and   *)
(* faults: its type invariant; that it implements ExperimentContract, so   *)
(* an experiment is executed at most once; that a cancellation which was   *)
(* acknowledged is final; that no pending experiment is forgotten; and     *)
(* that the scheduler's promises cover the load of each dispatcher.        *)
(***************************************************************************)
EXTENDS ExperimentLifecycle, NaturalsInduction, FiniteSetTheorems, SequenceTheorems,
        WellFoundedInduction, TLAPS

(***************************************************************************)
(* Lemmas: what the operators of the pending queue, the node registry and  *)
(* the dispatcher's registry do, as ExperimentLifecycle uses them.         *)
(***************************************************************************)
-----------------------------------------------------------------------------
(* Folding over a sequence. *)

\* Induction over the natural numbers.
LEMMA NumbersInduct ==
    ASSUME NEW G, 0 \in G, \A k \in Nat : k \in G => k + 1 \in G
    PROVE  Nat \subseteq G
<1> SUFFICES ASSUME NEW n \in Nat, n \notin G PROVE FALSE
  OBVIOUS
<1> DEFINE bad == {k \in Nat : k \notin G}
<1>1. bad \subseteq Nat /\ bad # {}
  OBVIOUS
<1> HIDE DEF bad
<1>2. PICK k \in bad : \A j \in bad : ~ (<<j, k>> \in OpToRel(<, Nat))
  BY <1>1, NatLessThanWellFounded, WFMin
<1>3. \A j \in Nat : j < k => j \in G
  BY <1>1, <1>2 DEF bad, OpToRel
<1>4. k \in Nat /\ k \notin G /\ k # 0
  BY DEF bad
<1>5. k - 1 \in Nat /\ k - 1 < k /\ (k - 1) + 1 = k
  BY <1>4
<1> QED
  BY <1>3, <1>4, <1>5

\* A set of numbers up to k has a largest one.
LEMMA HasMax ==
    ASSUME NEW k \in Nat, NEW s \in SUBSET (1..k), s # {}
    PROVE  Max(s) \in s /\ \A y \in s : y <= Max(s)
<1> DEFINE G == {n \in Nat : \A t \in SUBSET (1..n) : t # {} => \E x \in t : \A y \in t : x >= y}
<1>1. 0 \in G
  <2>1. 1..0 = {}
    OBVIOUS
  <2> QED
    BY <2>1
<1>2. ASSUME NEW n \in Nat, n \in G PROVE n + 1 \in G
  <2> SUFFICES ASSUME NEW t \in SUBSET (1..(n + 1)), t # {} PROVE \E x \in t : \A y \in t : x >= y
    OBVIOUS
  <2>1. CASE n + 1 \in t
    BY <2>1
  <2>2. CASE n + 1 \notin t
    <3>1. t \in SUBSET (1..n)
      BY <2>2
    <3> QED
      BY <3>1, <1>2
  <2> QED
    BY <2>1, <2>2
<1>3. k \in G
  <2> HIDE DEF G
  <2> QED
    BY <1>1, <1>2, NumbersInduct
<1>4. \E x \in s : \A y \in s : x >= y
  BY <1>3
<1>5. Max(s) \in s /\ \A y \in s : Max(s) >= y
  BY <1>4 DEF Max
<1> QED
  BY <1>5

\* One step of a fold: from what the smaller sets of places come to.
Step(f, op, base, seq, s) == IF s = {} THEN base ELSE op[<<f[s \ {Max(s)}], seq[Max(s)]>>]

\* f is the fold of op over the elements of seq, for every set of places in it.
IsFold(f, op, base, seq) ==
    f = [s \in SUBSET DOMAIN seq |-> Step(f, op, base, seq, s)]

FoldUpTo(f, op, base, seq, n) ==
    \A s \in SUBSET (1..n) : f[s] = Step(f, op, base, seq, s)

HasFold(A, op, base, seq, n) ==
    \E f \in [SUBSET (1..n) -> A] : FoldUpTo(f, op, base, seq, n)

\* One more place.
LEMMA FoldOneMore ==
    ASSUME NEW A, NEW X, NEW op \in [A \X X -> A], NEW base \in A, NEW seq \in Seq(X),
           NEW n \in Nat, n + 1 <= Len(seq), HasFold(A, op, base, seq, n)
    PROVE  HasFold(A, op, base, seq, n + 1)
<1>1. PICK f \in [SUBSET (1..n) -> A] : FoldUpTo(f, op, base, seq, n)
  BY DEF HasFold
<1> DEFINE m == n + 1
           g == [s \in SUBSET (1..m) |-> IF m \in s THEN op[<<f[s \ {m}], seq[m]>>] ELSE f[s]]
<1>2. m \in Nat /\ m \in 1..Len(seq) /\ seq[m] \in X
  OBVIOUS
<1>3. \A s \in SUBSET (1..m) : s \ {m} \in SUBSET (1..n) /\ s \ {m} \in SUBSET (1..m)
  OBVIOUS
<1>4. \A s \in SUBSET (1..m) : m \notin s => s \in SUBSET (1..n)
  OBVIOUS
<1>5. g \in [SUBSET (1..m) -> A]
  BY <1>2, <1>3, <1>4
<1>6. ASSUME NEW s \in SUBSET (1..m) PROVE g[s] = Step(g, op, base, seq, s)
  <2>1. CASE m \in s
    <3>1. Max(s) \in s /\ m <= Max(s)
      BY <1>2, <2>1, HasMax
    <3>2. Max(s) = m
      <4>1. Max(s) \in 1..m
        BY <3>1
      <4> QED
        BY <1>2, <3>1, <4>1
    <3>3. g[s \ {m}] = f[s \ {m}]
      BY <1>3
    <3>4. g[s] = op[<<f[s \ {m}], seq[m]>>]
      BY <2>1
    <3> HIDE DEF g, m
    <3> QED
      BY <2>1, <3>2, <3>3, <3>4 DEF Step
  <2>2. CASE s = {}
    <3>1. s \in SUBSET (1..n)
      BY <2>2
    <3> QED
      BY <1>1, <2>2, <3>1 DEF FoldUpTo, Step
  <2>3. CASE m \notin s /\ s # {}
    <3>1. s \in SUBSET (1..n)
      BY <1>4, <2>3
    <3>2. Max(s) \in s
      BY <2>3, <3>1, HasMax
    <3>3. /\ s \ {Max(s)} \in SUBSET (1..m) /\ m \notin s \ {Max(s)}
          /\ s \ {Max(s)} \in SUBSET (1..n)
      BY <2>3, <3>1
    <3>4. g[s \ {Max(s)}] = f[s \ {Max(s)}] /\ g[s] = f[s]
      BY <2>3, <3>3
    <3>5. f[s] = Step(f, op, base, seq, s)
      BY <1>1, <3>1 DEF FoldUpTo
    <3> HIDE DEF g, m
    <3> QED
      BY <2>3, <3>4, <3>5 DEF Step
  <2> QED
    BY <2>1, <2>2, <2>3
<1> HIDE DEF g
<1>7. FoldUpTo(g, op, base, seq, m)
  BY <1>6 DEF FoldUpTo
<1> QED
  BY <1>5, <1>7 DEF HasFold

\* There is such a function.
LEMMA FoldExists ==
    ASSUME NEW A, NEW X, NEW op \in [A \X X -> A], NEW base \in A, NEW seq \in Seq(X)
    PROVE  \E f \in [SUBSET DOMAIN seq -> A] : IsFold(f, op, base, seq)
<1> DEFINE G == {n \in Nat : n <= Len(seq) => HasFold(A, op, base, seq, n)}
<1>1. 0 \in G
  <2> DEFINE f == [s \in SUBSET (1..0) |-> base]
  <2>1. \A s \in SUBSET (1..0) : s = {}
    OBVIOUS
  <2>2. f \in [SUBSET (1..0) -> A] /\ FoldUpTo(f, op, base, seq, 0)
    BY <2>1 DEF FoldUpTo, Step
  <2> QED
    BY <2>2 DEF HasFold
<1>2. ASSUME NEW n \in Nat, n \in G PROVE n + 1 \in G
  <2> SUFFICES ASSUME n + 1 <= Len(seq) PROVE HasFold(A, op, base, seq, n + 1)
    OBVIOUS
  <2>1. n <= Len(seq)
    OBVIOUS
  <2>2. HasFold(A, op, base, seq, n)
    BY <1>2, <2>1
  <2> QED
    BY <2>2, FoldOneMore
<1>3. Len(seq) \in Nat /\ Len(seq) \in G
  <2> HIDE DEF G
  <2> QED
    BY <1>1, <1>2, NumbersInduct
<1>4. DOMAIN seq = 1..Len(seq) /\ HasFold(A, op, base, seq, Len(seq))
  BY <1>3
<1>5. PICK f \in [SUBSET DOMAIN seq -> A] : FoldUpTo(f, op, base, seq, Len(seq))
  BY <1>4 DEF HasFold
<1>6. f = [s \in SUBSET DOMAIN seq |-> Step(f, op, base, seq, s)]
  BY <1>4, <1>5 DEF FoldUpTo
<1> QED
  BY <1>6 DEF IsFold

\* The places up to k, one by one.
LEMMA PlacesUpTo ==
    ASSUME NEW k \in Nat
    PROVE  /\ 1..0 = {}
           /\ 1..(k + 1) # {} /\ Max(1..(k + 1)) = k + 1 /\ (1..(k + 1)) \ {k + 1} = 1..k
<1> DEFINE n == k + 1
<1>1. n \in Nat /\ n \in 1..n /\ 1..n \in SUBSET (1..n) /\ 1..n # {}
  OBVIOUS
<1>2. Max(1..n) \in 1..n /\ n <= Max(1..n)
  <2> HIDE DEF n
  <2> QED
    BY <1>1, HasMax
<1>3. Max(1..n) = n
  BY <1>1, <1>2
<1>4. (1..n) \ {n} = 1..k /\ 1..0 = {}
  OBVIOUS
<1> QED
  BY <1>1, <1>3, <1>4

-----------------------------------------------------------------------------
(* The pending queue. *)

\* Appending an element.
LEMMA AppendedSet ==
    ASSUME NEW S, NEW s \in Seq(S), NEW x \in S
    PROVE  Append(s, x) \in Seq(S) /\ ToSet(Append(s, x)) = ToSet(s) \cup {x}
<1>1. /\ Append(s, x) \in Seq(S) /\ Len(Append(s, x)) = Len(s) + 1 /\ Len(s) \in Nat
      /\ \A i \in 1..Len(s) : Append(s, x)[i] = s[i]
      /\ Append(s, x)[Len(s) + 1] = x
  OBVIOUS
<1>2. DOMAIN s = 1..Len(s) /\ DOMAIN Append(s, x) = 1..(Len(s) + 1)
  BY <1>1
<1>3. ToSet(Append(s, x)) \subseteq ToSet(s) \cup {x}
  <2> SUFFICES ASSUME NEW i \in 1..(Len(s) + 1) PROVE Append(s, x)[i] \in ToSet(s) \cup {x}
    BY <1>2 DEF ToSet
  <2> QED
    BY <1>1, <1>2 DEF ToSet
<1>4. ToSet(s) \subseteq ToSet(Append(s, x))
  <2> SUFFICES ASSUME NEW i \in 1..Len(s) PROVE s[i] \in ToSet(Append(s, x))
    BY <1>2 DEF ToSet
  <2>1. i \in 1..(Len(s) + 1) /\ s[i] = Append(s, x)[i]
    BY <1>1
  <2> QED
    BY <1>2, <2>1 DEF ToSet
<1>5. x \in ToSet(Append(s, x))
  <2>1. Len(s) + 1 \in 1..(Len(s) + 1)
    BY <1>1
  <2> QED
    BY <1>1, <1>2, <2>1 DEF ToSet
<1> QED
  BY <1>1, <1>3, <1>4, <1>5

\* The elements of a sequence up to a place.
ElementsTo(s, k) == {s[i] : i \in 1..k}

\* Those up to the next place are one more element.
LEMMA ElementsOneMore ==
    ASSUME NEW s, NEW k \in Nat
    PROVE  /\ ElementsTo(s, 0) = {}
           /\ ElementsTo(s, k + 1) = ElementsTo(s, k) \cup {s[k + 1]}
<1>1. 1..0 = {} /\ 1..(k + 1) = (1..k) \cup {k + 1}
  OBVIOUS
<1> QED
  BY <1>1 DEF ElementsTo

Filtered(f, s, kept, t) ==
    IF t = {} THEN <<>>
    ELSE IF s[Max(t)] \in kept THEN Append(f[t \ {Max(t)}], s[Max(t)]) ELSE f[t \ {Max(t)}]

\* What Filter chooses.
LEMMA FilterUnfolds ==
    ASSUME NEW s, NEW kept
    PROVE  Q!Filter(s, kept)
              = (CHOOSE f : f = [t \in SUBSET DOMAIN s |-> Filtered(f, s, kept, t)])[DOMAIN s]
  BY DEF Q!Filter, Q!FoldLeft, Q!MapThenFoldSet, Q!Max, Max, Filtered

\* A filtered sequence has the elements that are kept.
LEMMA FilterFacts ==
    ASSUME NEW s \in Seq(Experiments), NEW kept
    PROVE  /\ Q!Filter(s, kept) \in Seq(Experiments)
           /\ ToSet(Q!Filter(s, kept)) = ToSet(s) \cap kept
<1> DEFINE A == Seq(Experiments)
           op == [p \in A \X Experiments |->
                     IF p[2] \in kept THEN Append(p[1], p[2]) ELSE p[1]]
           Folds(f) == f = [t \in SUBSET DOMAIN s |-> Filtered(f, s, kept, t)]
           g == CHOOSE f : Folds(f)
<1>0. /\ Len(s) \in Nat /\ DOMAIN s = 1..Len(s)
      /\ \A i \in 1..Len(s) : s[i] \in Experiments
  OBVIOUS
<1>1. Folds(g)
  <2>1. op \in [A \X Experiments -> A] /\ <<>> \in A
    BY AppendedSet
  <2> HIDE DEF op, A
  <2>2. PICK f \in [SUBSET DOMAIN s -> A] : IsFold(f, op, <<>>, s)
    BY <2>1, FoldExists
  <2>3. ASSUME NEW t \in SUBSET DOMAIN s PROVE Step(f, op, <<>>, s, t) = Filtered(f, s, kept, t)
    <3>1. CASE t = {}
      BY <3>1 DEF Step, Filtered
    <3>2. CASE t # {}
      <4>1. Max(t) \in t
        BY <1>0, <3>2, HasMax
      <4>2. f[t \ {Max(t)}] \in A /\ s[Max(t)] \in Experiments
        BY <1>0, <4>1
      <4> QED
        BY <3>2, <4>2 DEF Step, Filtered, op
    <3> QED
      BY <3>1, <3>2
  <2>4. f = [t \in SUBSET DOMAIN s |-> Filtered(f, s, kept, t)]
    BY <2>2, <2>3 DEF IsFold
  <2> QED
    BY <2>4
<1>2. Q!Filter(s, kept) = g[1..Len(s)]
  BY <1>0, FilterUnfolds
<1> DEFINE Right(k) == g[1..k] \in A /\ ToSet(g[1..k]) = ElementsTo(s, k) \cap kept
           G == {k \in Nat : k <= Len(s) => Right(k)}
<1>3. \A t \in SUBSET (1..Len(s)) : g[t] = Filtered(g, s, kept, t)
  <2> HIDE DEF g
  <2> QED
    BY <1>0, <1>1
<1> HIDE DEF g
<1>4. 0 \in G
  <2>1. g[1..0] = <<>>
    BY <1>0, <1>3, PlacesUpTo DEF Filtered
  <2>2. ToSet(g[1..0]) = {} /\ ElementsTo(s, 0) = {}
    BY <2>1, ElementsOneMore DEF ToSet
  <2>3. Right(0)
    BY <2>1, <2>2
  <2> QED
    BY <2>3
<1>5. ASSUME NEW k \in Nat, k \in G PROVE k + 1 \in G
  <2> SUFFICES ASSUME k + 1 <= Len(s) PROVE Right(k + 1)
    OBVIOUS
  <2> DEFINE m == k + 1
  <2>1. Right(k) /\ m \in 1..Len(s) /\ s[m] \in Experiments
    BY <1>0, <1>5
  <2>2. g[1..m] = Filtered(g, s, kept, 1..m)
    <3>1. 1..m \in SUBSET (1..Len(s))
      BY <1>0
    <3> QED
      BY <1>3, <3>1
  <2>3. 1..m # {} /\ Max(1..m) = m /\ (1..m) \ {m} = 1..k
    BY PlacesUpTo
  <2>4. ElementsTo(s, m) = ElementsTo(s, k) \cup {s[m]}
    BY ElementsOneMore
  <2> HIDE DEF m
  <2>5. g[1..m] = IF s[m] \in kept THEN Append(g[1..k], s[m]) ELSE g[1..k]
    BY <2>2, <2>3 DEF Filtered
  <2>6. Append(g[1..k], s[m]) \in A /\ ToSet(Append(g[1..k], s[m])) = ToSet(g[1..k]) \cup {s[m]}
    BY <2>1, AppendedSet
  <2>7. Right(m)
    BY <2>1, <2>4, <2>5, <2>6
  <2> QED
    BY <2>7 DEF m
<1>6. Right(Len(s))
  <2>1. Len(s) \in G
    <3> HIDE DEF G
    <3> QED
      BY <1>0, <1>4, <1>5, NumbersInduct
  <2> QED
    BY <1>0, <2>1
<1> QED
  BY <1>0, <1>2, <1>6 DEF ToSet, ElementsTo

\* A queue whose index is the set of its items.
GoodQueue(q) == q \in Q!Queue /\ q.index = ToSet(q.items)

\* Enqueue keeps it so, and the item is in the queue afterwards.
LEMMA EnqueueFacts ==
    ASSUME NEW q, GoodQueue(q), NEW x \in Experiments
    PROVE  GoodQueue(Q!Enqueue(q, x)) /\ Q!Enqueue(q, x).index = q.index \cup {x}
<1>1. q.items \in Seq(Experiments) /\ q.index \in SUBSET Experiments /\ q.index = ToSet(q.items)
  BY DEF GoodQueue, Q!Queue
<1>2. CASE x \in q.index
  BY <1>2 DEF Q!Enqueue
<1>3. CASE x \notin q.index
  <2>1. /\ Append(q.items, x) \in Seq(Experiments)
        /\ ToSet(Append(q.items, x)) = ToSet(q.items) \cup {x}
    BY <1>1, AppendedSet
  <2>2. Q!Enqueue(q, x) = [items |-> Append(q.items, x), index |-> q.index \cup {x}]
    BY <1>3 DEF Q!Enqueue
  <2> QED
    BY <1>1, <2>1, <2>2 DEF GoodQueue, Q!Queue
<1> QED
  BY <1>2, <1>3

Enqueued(f, q, xs, t) ==
    IF t = {} THEN q ELSE Q!Enqueue(f[t \ {Max(t)}], xs[Max(t)])

\* What EnqueueMany chooses.
LEMMA EnqueueManyUnfolds ==
    ASSUME NEW q, NEW xs
    PROVE  Q!EnqueueMany(q, xs)
              = (CHOOSE f : f = [t \in SUBSET DOMAIN xs |-> Enqueued(f, q, xs, t)])[DOMAIN xs]
  BY DEF Q!EnqueueMany, Q!FoldLeft, Q!MapThenFoldSet, Q!Max, Max, Enqueued

\* EnqueueMany adds what it is given.
LEMMA EnqueueManyFacts ==
    ASSUME NEW q, GoodQueue(q), NEW xs \in Seq(Experiments)
    PROVE  /\ GoodQueue(Q!EnqueueMany(q, xs))
           /\ Q!EnqueueMany(q, xs).index = q.index \cup ToSet(xs)
<1> DEFINE A == {p \in Q!Queue : GoodQueue(p)}
           op == [p \in A \X Experiments |-> Q!Enqueue(p[1], p[2])]
           Folds(f) == f = [t \in SUBSET DOMAIN xs |-> Enqueued(f, q, xs, t)]
           g == CHOOSE f : Folds(f)
<1>0. /\ Len(xs) \in Nat /\ DOMAIN xs = 1..Len(xs)
      /\ \A i \in 1..Len(xs) : xs[i] \in Experiments
  OBVIOUS
<1>1. Folds(g)
  <2>1. op \in [A \X Experiments -> A] /\ q \in A
    <3>1. \A p \in A \X Experiments : Q!Enqueue(p[1], p[2]) \in A
      BY EnqueueFacts DEF GoodQueue
    <3> QED
      BY <3>1 DEF GoodQueue
  <2>2. \A p \in A, x \in Experiments : op[<<p, x>>] = Q!Enqueue(p, x)
    OBVIOUS
  <2> HIDE DEF op, A
  <2>3. PICK f \in [SUBSET DOMAIN xs -> A] : IsFold(f, op, q, xs)
    BY <2>1, FoldExists
  <2>4. ASSUME NEW t \in SUBSET DOMAIN xs PROVE Step(f, op, q, xs, t) = Enqueued(f, q, xs, t)
    <3>1. CASE t = {}
      BY <3>1 DEF Step, Enqueued
    <3>2. CASE t # {}
      <4>1. Max(t) \in t
        BY <1>0, <3>2, HasMax
      <4>2. f[t \ {Max(t)}] \in A /\ xs[Max(t)] \in Experiments
        BY <1>0, <4>1
      <4> QED
        BY <2>2, <3>2, <4>2 DEF Step, Enqueued
    <3> QED
      BY <3>1, <3>2
  <2>5. f = [t \in SUBSET DOMAIN xs |-> Enqueued(f, q, xs, t)]
    BY <2>3, <2>4 DEF IsFold
  <2> QED
    BY <2>5
<1>2. Q!EnqueueMany(q, xs) = g[1..Len(xs)]
  BY <1>0, EnqueueManyUnfolds
<1> DEFINE Right(k) == GoodQueue(g[1..k]) /\ g[1..k].index = q.index \cup ElementsTo(xs, k)
           G == {k \in Nat : k <= Len(xs) => Right(k)}
<1>3. \A t \in SUBSET (1..Len(xs)) : g[t] = Enqueued(g, q, xs, t)
  <2> HIDE DEF g
  <2> QED
    BY <1>0, <1>1
<1> HIDE DEF g
<1>4. 0 \in G
  <2>1. g[1..0] = q
    BY <1>0, <1>3, PlacesUpTo DEF Enqueued
  <2>2. ElementsTo(xs, 0) = {}
    BY ElementsOneMore
  <2>3. Right(0)
    BY <2>1, <2>2
  <2> QED
    BY <2>3
<1>5. ASSUME NEW k \in Nat, k \in G PROVE k + 1 \in G
  <2> SUFFICES ASSUME k + 1 <= Len(xs) PROVE Right(k + 1)
    OBVIOUS
  <2> DEFINE m == k + 1
  <2>1. Right(k) /\ m \in 1..Len(xs) /\ xs[m] \in Experiments
    BY <1>0, <1>5
  <2>2. g[1..m] = Enqueued(g, q, xs, 1..m)
    <3>1. 1..m \in SUBSET (1..Len(xs))
      BY <1>0
    <3> QED
      BY <1>3, <3>1
  <2>3. 1..m # {} /\ Max(1..m) = m /\ (1..m) \ {m} = 1..k
    BY PlacesUpTo
  <2>4. ElementsTo(xs, m) = ElementsTo(xs, k) \cup {xs[m]}
    BY ElementsOneMore
  <2> HIDE DEF m
  <2>5. g[1..m] = Q!Enqueue(g[1..k], xs[m])
    BY <2>2, <2>3 DEF Enqueued
  <2>6. GoodQueue(g[1..m]) /\ g[1..m].index = g[1..k].index \cup {xs[m]}
    BY <2>1, <2>5, EnqueueFacts
  <2>7. Right(m)
    BY <2>1, <2>4, <2>6
  <2> QED
    BY <2>7 DEF m
<1>6. Right(Len(xs))
  <2>1. Len(xs) \in G
    <3> HIDE DEF G
    <3> QED
      BY <1>0, <1>4, <1>5, NumbersInduct
  <2> QED
    BY <1>0, <2>1
<1> QED
  BY <1>0, <1>2, <1>6 DEF ToSet, ElementsTo

\* The whole queue is popped, in its order.
LEMMA PopFacts ==
    ASSUME NEW q, GoodQueue(q)
    PROVE  /\ Q!PopBatch(q, Len(q.items)) = q.items
           /\ Q!AfterPop(q, Len(q.items)) = Q!EmptyQueue
<1>1. /\ q.items \in Seq(Experiments) /\ q.index = ToSet(q.items)
      /\ Len(q.items) \in Nat
  BY DEF GoodQueue, Q!Queue
<1>2. Q!BatchSize(q, Len(q.items)) = Len(q.items)
  BY <1>1 DEF Q!BatchSize
<1>3. /\ SubSeq(q.items, 1, Len(q.items)) = q.items
      /\ SubSeq(q.items, Len(q.items) + 1, Len(q.items)) = <<>>
  BY <1>1
<1>4. Q!PopBatch(q, Len(q.items)) = q.items
  BY <1>2, <1>3 DEF Q!PopBatch
<1>5. q.index \ Q!ToSet(q.items) = {}
  BY <1>1 DEF ToSet, Q!ToSet
<1> QED
  BY <1>2, <1>3, <1>4, <1>5 DEF Q!AfterPop, Q!EmptyQueue

\* RemoveKey takes the item out, and nothing else.
LEMMA RemoveFacts ==
    ASSUME NEW q, GoodQueue(q), NEW x \in Experiments
    PROVE  GoodQueue(Q!RemoveKey(q, x)) /\ Q!RemoveKey(q, x).index = q.index \ {x}
<1>1. q.items \in Seq(Experiments) /\ q.index \in SUBSET Experiments /\ q.index = ToSet(q.items)
  BY DEF GoodQueue, Q!Queue
<1>2. CASE x \notin q.index
  BY <1>2 DEF Q!RemoveKey
<1>3. CASE x \in q.index
  <2> DEFINE s == Q!Filter(q.items, Experiments \ {x})
  <2>1. s \in Seq(Experiments) /\ ToSet(s) = ToSet(q.items) \cap (Experiments \ {x})
    BY <1>1, FilterFacts
  <2>2. Q!RemoveKey(q, x) = [items |-> s, index |-> q.index \ {x}]
    BY <1>3 DEF Q!RemoveKey
  <2> HIDE DEF s
  <2> QED
    BY <1>1, <2>1, <2>2 DEF GoodQueue, Q!Queue
<1> QED
  BY <1>2, <1>3

\* What is schedulable is what is pending.
LEMMA SchedulableFacts ==
    Schedulable \in Seq(Experiments) /\ ToSet(Schedulable) = {e \in Experiments : status[e] = "PENDING"}
<1>1. BatchOrder \in Seq(Experiments) /\ ToSet(BatchOrder) = Experiments
  BY LifecycleAssumption
<1> QED
  BY <1>1, FilterFacts DEF Schedulable

\* What bootstrap lists is pending.
LEMMA ListedFacts ==
    /\ Listed \in Seq(Experiments) /\ ToSet(Listed) \subseteq ToSet(Schedulable)
<1> DEFINE k == IF Len(Schedulable) < BootstrapLimit THEN Len(Schedulable) ELSE BootstrapLimit
<1>1. Schedulable \in Seq(Experiments)
  BY SchedulableFacts
<1>2. k \in 0..Len(Schedulable) /\ Listed = SubSeq(Schedulable, 1, k)
  BY <1>1, LifecycleAssumption DEF Listed
<1> HIDE DEF k
<1>3. /\ Listed \in Seq(Experiments) /\ Len(Listed) = k
      /\ \A i \in 1..k : Listed[i] = Schedulable[i]
  BY <1>1, <1>2
<1> QED
  BY <1>1, <1>2, <1>3 DEF ToSet

-----------------------------------------------------------------------------
(* The node registry. *)

\* Evicting nodes, and the records of new ones.
LEMMA EvictType ==
    ASSUME NEW m \in R!NodeMap, NEW gone PROVE R!Evict(m, gone) \in R!NodeMap
  BY DEF R!Evict, R!NodeMap

\* The registry without nodes is of its type.
LEMMA NoNodesType == R!NoNodes \in R!NodeMap
  BY DEF R!NoNodes, R!NodeMap

\* A node is known when it has a record.
LEMMA KnownHasRecord ==
    ASSUME NEW m \in R!NodeMap, NEW n \in Nodes
    PROVE  /\ m[n].known \in BOOLEAN
           /\ m[n].known => m[n] \in R!NodeRecord
           /\ ~m[n].known => m[n] = R!NoRecord
<1>1. m[n] \in R!NodeRecord \/ m[n] = R!NoRecord
  BY DEF R!NodeMap
<1>2. CASE m[n] \in R!NodeRecord
  <2>1. m[n].known = TRUE
    BY <1>2 DEF R!NodeRecord
  <2> QED
    BY <1>2, <2>1
<1>3. CASE m[n] = R!NoRecord
  <2>1. m[n].known = FALSE
    BY <1>3 DEF R!NoRecord
  <2> QED
    BY <1>3, <2>1
<1> QED
  BY <1>1, <1>2, <1>3

\* The numbers in a record.
LEMMA RecordNumbers ==
    ASSUME NEW rec \in R!NodeRecord
    PROVE  /\ rec.promisedSlots \in Nat /\ rec.promisedMemory \in Nat /\ rec.failures \in Nat
           /\ rec.reported \in R!NodeStatus
           /\ rec.reported.usedSlots \in Nat /\ rec.reported.totalSlots \in Nat
  BY DEF R!NodeRecord, R!NodeStatus

\* A heartbeat keeps the promises of a known node.
LEMMA HeartbeatFacts ==
    ASSUME NEW m \in R!NodeMap, NEW n \in Nodes, NEW reported \in R!NodeStatus
    PROVE  LET h == R!Heartbeat(m, n, reported) IN
           /\ h \in R!NodeMap
           /\ \A o \in Nodes \ {n} : h[o] = m[o]
           /\ h[n].known /\ h[n].fresh /\ h[n].reported = reported
           /\ m[n].known => h[n].promisedSlots = m[n].promisedSlots
<1>1. CASE m[n].known
  <2>1. m[n] \in R!NodeRecord
    BY <1>1, KnownHasRecord
  <2> DEFINE rec == [m[n] EXCEPT !.fresh = TRUE, !.reported = reported]
  <2>2. /\ rec \in R!NodeRecord /\ rec.known /\ rec.fresh /\ rec.reported = reported
        /\ rec.promisedSlots = m[n].promisedSlots
    BY <2>1 DEF R!NodeRecord
  <2>3. R!Heartbeat(m, n, reported) = [m EXCEPT ![n] = rec]
    BY <1>1 DEF R!Heartbeat
  <2> HIDE DEF rec
  <2> QED
    BY <2>2, <2>3 DEF R!NodeMap
<1>2. CASE ~m[n].known
  <2>1. R!Heartbeat(m, n, reported) = [m EXCEPT ![n] = R!NewRecord(reported)]
    BY <1>2 DEF R!Heartbeat
  <2>2. /\ R!NewRecord(reported) \in R!NodeRecord
        /\ R!NewRecord(reported).known /\ R!NewRecord(reported).fresh
        /\ R!NewRecord(reported).reported = reported
    BY DEF R!NewRecord, R!NodeRecord
  <2> QED
    BY <1>2, <2>1, <2>2 DEF R!NodeMap
<1> QED
  BY <1>1, <1>2, KnownHasRecord

\* Two registries with the same nodes, alive or not, and the same reports.
SameNodes(m, h) ==
    \A n \in Nodes :
        /\ h[n].known = m[n].known
        /\ m[n].known => h[n].fresh = m[n].fresh /\ h[n].reported = m[n].reported

\* A reservation adds to the promise of one node.
LEMMA ReserveFacts ==
    ASSUME NEW m \in R!NodeMap, NEW n \in Nodes, m[n].known
    PROVE  LET h == R!Reserve(m, n, 0) IN
           /\ h \in R!NodeMap /\ SameNodes(m, h)
           /\ \A o \in Nodes \ {n} : h[o] = m[o]
           /\ h[n].promisedSlots = m[n].promisedSlots + 1
<1>1. m[n] \in R!NodeRecord
  BY KnownHasRecord
<1> DEFINE slots == m[n].promisedSlots + 1
           memory == m[n].promisedMemory + 0
           rec == [m[n] EXCEPT !.promisedSlots = slots, !.promisedMemory = memory]
<1>0. slots \in Nat /\ memory \in Nat
  BY <1>1, RecordNumbers
<1> HIDE DEF slots, memory
<1>2. /\ rec \in R!NodeRecord /\ rec.known = m[n].known /\ rec.fresh = m[n].fresh
      /\ rec.reported = m[n].reported /\ rec.promisedSlots = slots
  BY <1>0, <1>1 DEF R!NodeRecord
<1>3. R!Reserve(m, n, 0) = [m EXCEPT ![n] = rec]
  BY <1>1 DEF R!Reserve, R!NodeMap, slots, memory
<1> HIDE DEF rec
<1> QED
  BY <1>2, <1>3 DEF R!NodeMap, SameNodes, slots

\* Releasing one takes it off again, if there is one.
LEMMA ReleaseFacts ==
    ASSUME NEW m \in R!NodeMap, NEW n \in Nodes
    PROVE  LET h == R!ReleaseReservation(m, n, 0) IN
           /\ h \in R!NodeMap /\ SameNodes(m, h)
           /\ \A o \in Nodes \ {n} : h[o] = m[o]
           /\ m[n].known /\ m[n].promisedSlots > 0 => h[n].promisedSlots = m[n].promisedSlots - 1
<1>1. CASE ~m[n].known
  BY <1>1 DEF R!ReleaseReservation, SameNodes
<1>2. CASE m[n].known
  <2>1. m[n] \in R!NodeRecord
    BY <1>2, KnownHasRecord
  <2> DEFINE rec == [m[n] EXCEPT !.promisedSlots = R!AtLeastZero(@, 1),
                                 !.promisedMemory = R!AtLeastZero(@, 0)]
  <2>2. R!AtLeastZero(m[n].promisedSlots, 1) \in Nat /\ R!AtLeastZero(m[n].promisedMemory, 0) \in Nat
    BY <2>1, RecordNumbers DEF R!AtLeastZero
  <2>3. /\ rec \in R!NodeRecord /\ rec.known = m[n].known /\ rec.fresh = m[n].fresh
        /\ rec.reported = m[n].reported
        /\ rec.promisedSlots = R!AtLeastZero(m[n].promisedSlots, 1)
    BY <2>1, <2>2 DEF R!NodeRecord
  <2>4. R!ReleaseReservation(m, n, 0) = [m EXCEPT ![n] = rec]
    BY <1>2, <2>1 DEF R!ReleaseReservation, R!NodeMap
  <2>5. m[n].promisedSlots > 0 => rec.promisedSlots = m[n].promisedSlots - 1
    <3>1. m[n].promisedSlots \in Nat
      BY <2>1, RecordNumbers
    <3> HIDE DEF rec
    <3> QED
      BY <2>3, <3>1 DEF R!AtLeastZero
  <2> HIDE DEF rec
  <2> QED
    BY <2>3, <2>4, <2>5 DEF R!NodeMap, SameNodes
<1> QED
  BY <1>1, <1>2, KnownHasRecord

\* An answer resets the count of failures.
LEMMA SucceededFacts ==
    ASSUME NEW m \in R!NodeMap, NEW n \in Nodes
    PROVE  LET h == R!MarkNodeSucceeded(m, n) IN
           /\ h \in R!NodeMap /\ SameNodes(m, h)
           /\ \A o \in Nodes \ {n} : h[o] = m[o]
           /\ m[n].known => h[n].promisedSlots = m[n].promisedSlots
<1>1. CASE ~m[n].known
  BY <1>1 DEF R!MarkNodeSucceeded, SameNodes
<1>2. CASE m[n].known
  <2>1. m[n] \in R!NodeRecord
    BY <1>2, KnownHasRecord
  <2> DEFINE rec == [m[n] EXCEPT !.failures = 0]
  <2>2. /\ rec \in R!NodeRecord /\ rec.known = m[n].known /\ rec.fresh = m[n].fresh
        /\ rec.reported = m[n].reported /\ rec.promisedSlots = m[n].promisedSlots
    BY <2>1 DEF R!NodeRecord
  <2>3. R!MarkNodeSucceeded(m, n) = [m EXCEPT ![n] = rec]
    BY <1>2 DEF R!MarkNodeSucceeded, R!NodeMap
  <2> HIDE DEF rec
  <2> QED
    BY <2>2, <2>3 DEF R!NodeMap, SameNodes
<1> QED
  BY <1>1, <1>2, KnownHasRecord

\* A failure is counted, or evicts the node.
LEMMA FailedType ==
    ASSUME NEW m \in R!NodeMap, NEW n \in Nodes
    PROVE  R!MarkNodeFailed(m, n, MaxNodeFailures) \in R!NodeMap
<1>1. CASE m[n].known /\ ~(m[n].failures + 1 >= MaxNodeFailures)
  <2>1. m[n] \in R!NodeRecord
    BY <1>1, KnownHasRecord
  <2> DEFINE failures == m[n].failures + 1
             rec == [m[n] EXCEPT !.failures = failures]
  <2>0. failures \in Nat
    BY <2>1, RecordNumbers
  <2> HIDE DEF failures
  <2>2. rec \in R!NodeRecord
    BY <2>0, <2>1 DEF R!NodeRecord
  <2>3. R!MarkNodeFailed(m, n, MaxNodeFailures) = [m EXCEPT ![n] = rec]
    BY <1>1 DEF R!MarkNodeFailed, R!NodeMap, failures
  <2> HIDE DEF rec
  <2> QED
    BY <2>2, <2>3 DEF R!NodeMap
<1>2. CASE ~m[n].known
  BY <1>2 DEF R!MarkNodeFailed
<1>3. CASE m[n].known /\ m[n].failures + 1 >= MaxNodeFailures
  BY <1>3, EvictType DEF R!MarkNodeFailed
<1> QED
  BY <1>1, <1>2, <1>3, KnownHasRecord

\* The TTL of a node runs out.
LEMMA ExpireType ==
    ASSUME NEW m \in R!NodeMap, NEW n \in Nodes, m[n].known
    PROVE  [m EXCEPT ![n].fresh = FALSE] \in R!NodeMap
<1>1. m[n] \in R!NodeRecord
  BY KnownHasRecord
<1>2. [m[n] EXCEPT !.fresh = FALSE] \in R!NodeRecord
  BY <1>1 DEF R!NodeRecord
<1> QED
  BY <1>2 DEF R!NodeMap

\* What a pick leaves behind is a registry with one more promise on the node picked,
\* which is not expired and had a slot free.
LEMMA PickFacts ==
    ASSUME NEW m \in R!NodeMap, NEW n \in R!Candidates(m, "any", 0), NEW h \in R!Picks(m, n, 0)
    PROVE  /\ n \in Nodes /\ h \in R!NodeMap
           /\ R!Expired(m) = {} => h = R!Reserve(m, n, 0)
           /\ R!Fresh(m, n) /\ m[n].promisedSlots < m[n].reported.totalSlots
<1>1. /\ n \in Nodes /\ R!Fresh(m, n) /\ R!HasFreeSlot(m[n])
  BY DEF R!Candidates, R!ActiveNodeIDs
<1>2. PICK gone \in SUBSET R!Expired(m) : h = R!Reserve(R!Evict(m, gone), n, 0)
  BY DEF R!Picks
<1>3. n \notin gone /\ m[n].known
  BY <1>1 DEF R!Expired, R!Fresh
<1>4. R!Evict(m, gone) \in R!NodeMap /\ R!Evict(m, gone)[n].known
  BY <1>1, <1>3, EvictType DEF R!Evict
<1>5. h \in R!NodeMap
  BY <1>1, <1>2, <1>4, ReserveFacts
<1>6. R!Expired(m) = {} => h = R!Reserve(m, n, 0)
  <2>1. R!Evict(m, {}) = m
    BY DEF R!Evict, R!NodeMap
  <2> QED
    BY <1>2, <2>1
<1>7. m[n].promisedSlots < m[n].reported.totalSlots
  <2>1. /\ m[n].promisedSlots \in Nat /\ m[n].reported.usedSlots \in Nat
        /\ m[n].reported.totalSlots \in Nat
    BY <1>1, <1>3, KnownHasRecord, RecordNumbers
  <2> QED
    BY <1>1, <2>1 DEF R!HasFreeSlot, R!Larger
<1> QED
  BY <1>1, <1>5, <1>6, <1>7

-----------------------------------------------------------------------------
(* The registry of a dispatcher. *)

\* A dispatcher starts with an empty one.
LEMMA EmptyRegistryFacts ==
    /\ EmptyRegistry \in D!Registry
    /\ EmptyRegistry.usedSlots = 0 /\ EmptyRegistry.totalSlots = Slots
    /\ EmptyRegistry.totalMemoryBytes = 0
    /\ \A e \in Experiments : ~D!CanCancel(EmptyRegistry, e)
  BY LifecycleAssumption
     DEF EmptyRegistry, D!NewRegistry, D!Registry, D!ExperimentRecord, D!NoRecord,
         D!CanCancel, D!IsActiveStatus

\* Two registries that agree on the node's totals and on all records but one.
OnlyAt(r, s, e) ==
    /\ s.totalSlots = r.totalSlots /\ s.totalMemoryBytes = r.totalMemoryBytes
    /\ \A x \in Experiments \ {e} : s.experiments[x] = r.experiments[x]

\* A start that is admitted has a record with its cancel function, and a slot.
LEMMA StartFacts ==
    ASSUME NEW r \in D!Registry, NEW e \in Experiments
    PROVE  LET s == D!SetCancel(D!TryStart(r, e, 0), e, e) IN
           /\ s \in D!Registry /\ OnlyAt(r, s, e) /\ D!Known(s, e)
           /\ s.usedSlots = r.usedSlots + 1
<1> DEFINE fresh == [D!NoRecord EXCEPT !.status = "STARTING", !.memoryReserved = 0]
           rec == [fresh EXCEPT !.cancel = e]
           t == D!TryStart(r, e, 0)
<1>1. /\ fresh \in D!ExperimentRecord /\ fresh.status = "STARTING"
      /\ rec \in D!ExperimentRecord /\ rec.status = "STARTING"
  BY DEF D!NoRecord, D!ExperimentRecord
<1>2. /\ t \in D!Registry /\ OnlyAt(r, t, e) /\ t.usedSlots = r.usedSlots + 1
      /\ t.experiments[e] = fresh
  <2> HIDE DEF fresh
  <2> DEFINE slots == r.usedSlots + 1
             memory == r.reservedMemoryBytes + 0
  <2>1. slots \in Nat /\ memory \in Nat
    BY DEF D!Registry
  <2> HIDE DEF slots, memory
  <2>2. t = [r EXCEPT !.experiments[e] = fresh, !.usedSlots = slots, !.reservedMemoryBytes = memory]
    BY DEF D!TryStart, fresh, D!Registry, slots, memory
  <2> HIDE DEF t
  <2>3. t \in D!Registry /\ OnlyAt(r, t, e) /\ t.usedSlots = slots /\ t.experiments[e] = fresh
    BY <1>1, <2>1, <2>2 DEF D!Registry, OnlyAt
  <2> QED
    BY <2>3 DEF slots
<1>3. D!SetCancel(t, e, e) = [t EXCEPT !.experiments[e].cancel = e]
  <2> HIDE DEF t, fresh
  <2> QED
    BY <1>1, <1>2 DEF D!SetCancel, D!Known
<1> HIDE DEF t, fresh
<1>4. [t EXCEPT !.experiments[e].cancel = e] = [t EXCEPT !.experiments[e] = rec]
  BY <1>2 DEF D!Registry
<1> HIDE DEF rec
<1> QED
  BY <1>1, <1>2, <1>3, <1>4 DEF D!Registry, OnlyAt, D!Known, t

\* A hand-off sets the status of one record, and leaves the slots alone.
LEMMA SetStatusFacts ==
    ASSUME NEW r \in D!Registry, NEW e \in Experiments
    PROVE  LET s == D!SetStatus(r, e, "RUNNING") IN
           /\ s \in D!Registry /\ OnlyAt(r, s, e) /\ s.usedSlots = r.usedSlots
           /\ D!Known(r, e) => D!Known(s, e)
<1>1. CASE ~D!Known(r, e)
  BY <1>1 DEF D!SetStatus, OnlyAt
<1>2. CASE D!Known(r, e)
  <2> DEFINE rec == [r.experiments[e] EXCEPT !.status = "RUNNING"]
  <2>1. rec \in D!ExperimentRecord /\ rec.status = "RUNNING"
    BY DEF D!Registry, D!ExperimentRecord
  <2>2. D!SetStatus(r, e, "RUNNING") = [r EXCEPT !.experiments[e] = rec]
    BY <1>2 DEF D!SetStatus, D!Registry
  <2> HIDE DEF rec
  <2> QED
    BY <2>1, <2>2 DEF D!Registry, OnlyAt, D!Known
<1> QED
  BY <1>1, <1>2

\* A stop leaves the slot to the run.
LEMMA CancelFacts ==
    ASSUME NEW r \in D!Registry, NEW e \in Experiments
    PROVE  LET s == D!Cancel(r, e) IN
           /\ s \in D!Registry /\ OnlyAt(r, s, e) /\ s.usedSlots = r.usedSlots
           /\ D!Known(s, e) /\ ~D!CanCancel(s, e)
<1> DEFINE rec == [r.experiments[e] EXCEPT !.cancelRequested = TRUE, !.status = "CANCELED"]
<1>1. rec \in D!ExperimentRecord /\ rec.status = "CANCELED"
  BY DEF D!Registry, D!ExperimentRecord, D!Terminal
<1>2. D!Cancel(r, e) = [r EXCEPT !.experiments[e] = rec]
  BY DEF D!Cancel, D!CancelRecord, D!Registry
<1> HIDE DEF rec
<1> QED
  BY <1>1, <1>2 DEF D!Registry, OnlyAt, D!Known, D!CanCancel, D!IsActiveStatus

\* A run that is over is not active, and a known one gives back its slot.
LEMMA FinishFacts ==
    ASSUME NEW r \in D!Registry, NEW e \in Experiments, NEW result \in Terminal
    PROVE  LET s == D!Finish(r, e, result) IN
           /\ D!FinalStatus(r, e, result) \in Terminal
           /\ s \in D!Registry /\ OnlyAt(r, s, e) /\ ~D!CanCancel(s, e)
           /\ D!Known(r, e) /\ r.usedSlots > 0 => s.usedSlots = r.usedSlots - 1
<1>1. D!FinalStatus(r, e, result) \in Terminal /\ Terminal = D!Terminal
  BY DEF D!FinalStatus, Terminal, D!Terminal
<1>2. CASE ~D!Known(r, e)
  <2> DEFINE rec == [D!NoRecord EXCEPT !.status = result]
  <2>1. rec \in D!ExperimentRecord /\ rec.status \in Terminal
    BY <1>1 DEF D!NoRecord, D!ExperimentRecord
  <2>2. D!Finish(r, e, result) = [r EXCEPT !.experiments[e] = rec]
    BY <1>2 DEF D!Finish
  <2> HIDE DEF rec
  <2> DEFINE s == D!Finish(r, e, result)
  <2>3. /\ s.experiments = [r.experiments EXCEPT ![e] = rec]
        /\ s.totalSlots = r.totalSlots /\ s.totalMemoryBytes = r.totalMemoryBytes
    BY <2>2 DEF D!Registry
  <2>4. s \in D!Registry
    BY <2>1, <2>2 DEF D!Registry
  <2> HIDE DEF s
  <2>5. OnlyAt(r, s, e) /\ s.experiments[e] = rec
    BY <2>3 DEF OnlyAt, D!Registry
  <2>6. ~D!CanCancel(s, e)
    BY <2>1, <2>5 DEF D!CanCancel, D!IsActiveStatus, Terminal
  <2> QED
    BY <1>1, <1>2, <2>4, <2>5, <2>6 DEF s
<1>3. CASE D!Known(r, e)
  <2> DEFINE rec == [r.experiments[e] EXCEPT !.status = D!FinalStatus(r, e, result),
                                             !.memoryReserved = 0]
             memory == D!Monus(r.reservedMemoryBytes, r.experiments[e].memoryReserved)
             slots == D!Monus(r.usedSlots, 1)
  <2>1. r.experiments[e] \in D!ExperimentRecord
    BY DEF D!Registry
  <2>2. rec \in D!ExperimentRecord /\ rec.status \in Terminal
    BY <1>1, <2>1 DEF D!ExperimentRecord
  <2>3. memory \in Nat /\ slots \in Nat /\ (r.usedSlots > 0 => slots = r.usedSlots - 1)
    <3>1. /\ r.reservedMemoryBytes \in Nat /\ r.usedSlots \in Nat
          /\ r.experiments[e].memoryReserved \in Nat
      BY <2>1 DEF D!Registry, D!ExperimentRecord
    <3> QED
      BY <3>1 DEF D!Monus
  <2>4. D!Finish(r, e, result)
          = [r EXCEPT !.experiments[e] = rec, !.reservedMemoryBytes = memory, !.usedSlots = slots]
    BY <1>3 DEF D!Finish, D!Registry
  <2> HIDE DEF rec, memory, slots
  <2> DEFINE s == D!Finish(r, e, result)
  <2>5. /\ s.experiments = [r.experiments EXCEPT ![e] = rec]
        /\ s.usedSlots = slots /\ s.totalSlots = r.totalSlots
        /\ s.totalMemoryBytes = r.totalMemoryBytes
    BY <2>4 DEF D!Registry
  <2>6. [r.experiments EXCEPT ![e] = rec] \in [Experiments -> D!ExperimentRecord]
    BY <2>2 DEF D!Registry
  <2>7. s \in D!Registry
    BY <2>3, <2>4, <2>6 DEF D!Registry
  <2> HIDE DEF s
  <2>8. OnlyAt(r, s, e) /\ s.experiments[e] = rec
    BY <2>5 DEF OnlyAt, D!Registry
  <2>9. ~D!CanCancel(s, e)
    BY <2>2, <2>8 DEF D!CanCancel, D!IsActiveStatus, Terminal
  <2>10. /\ s \in D!Registry /\ OnlyAt(r, s, e) /\ ~D!CanCancel(s, e)
         /\ D!Known(r, e) /\ r.usedSlots > 0 => s.usedSlots = r.usedSlots - 1
    BY <2>3, <2>5, <2>7, <2>8, <2>9
  <2> QED
    BY <1>1, <2>10 DEF s
<1> QED
  BY <1>2, <1>3

-----------------------------------------------------------------------------
(* The state of the whole, and its invariant. *)

Sched == [at : SchedStep, rest : Seq(Experiments), exp : Experiments \cup {NoExperiment},
          node : Nodes \cup {NoNode}, outcome : Outcomes, active : SUBSET Nodes]
Cancels == [at : CancelStep, node : Nodes \cup {NoNode}]
Reports == [at : {"idle", "sent", "stored"}, exp : Experiments \cup {NoExperiment}]

Flags == cpUp \in BOOLEAN /\ enqueued \in BOOLEAN /\ stranded \subseteq Experiments

RowsTyped ==
    /\ status \in [Experiments -> {"PENDING", "STARTING"} \cup Terminal]
    /\ nodeOf \in [Experiments -> Nodes \cup {NoNode}]

MemoryTyped ==
    /\ GoodQueue(queue) /\ nodes \in R!NodeMap /\ sched \in Sched
    /\ cancel \in [Experiments -> Cancels]

DispatchersTyped ==
    /\ up \in [Nodes -> BOOLEAN]
    /\ registry \in [Nodes -> D!Registry]
    /\ answering \in [Nodes -> SUBSET Experiments]
    /\ running \in [Nodes -> SUBSET Experiments]
    /\ journal \in [Nodes -> [Experiments -> Terminal \cup {"none"}]]
    /\ reporter \in [Nodes -> Reports]

RestTyped ==
    /\ calls \subseteq Experiments \X Nodes
    /\ faults \in 0..MaxFaults
    /\ run \in [Experiments -> {"never", "running", "lost"} \cup Terminal]

Shapes == Flags /\ RowsTyped /\ MemoryTyped /\ DispatchersTyped /\ RestTyped

\* Nobody has been asked to run e.
Untouched(e) ==
    /\ run[e] = "never"
    /\ \A n \in Nodes : <<e, n>> \notin calls /\ e \notin answering[n]

\* An experiment is in one place: one call for it is on the way, or one handler has it,
\* or it has been launched, once, and what a journal holds is what came of that.
InOnePlace(e, n) ==
    /\ <<e, n>> \in calls =>
          /\ run[e] = "never"
          /\ \A m \in Nodes : e \notin answering[m] /\ (<<e, m>> \in calls => m = n)
    /\ e \in answering[n] => run[e] = "never" /\ \A m \in Nodes : e \in answering[m] => m = n
    /\ e \in running[n] => run[e] = "running" /\ \A m \in Nodes : e \in running[m] => m = n
    /\ journal[n][e] # "none" => run[e] = journal[n][e]

OnePlace == \A e \in Experiments, n \in Nodes : InOnePlace(e, n)

\* What a row tells of the execution.
RowIsGood(e) ==
    /\ status[e] = "PENDING" => Untouched(e)
    /\ status[e] = "STARTING" => nodeOf[e] \in Nodes
    /\ ~Untouched(e) => status[e] \in {"STARTING", "FAILED", run[e]}

RowsAreGood == \A e \in Experiments : RowIsGood(e)

\* The scheduler's steps without an experiment in hand.
Free == {"idle", "next", "reconcile"}

\* The scheduler has the experiment in hand that it claimed; until an answer is in,
\* only the node it has called may have been asked to run it.
InHand ==
    /\ sched.at \in {"call", "waiting"} => status[sched.exp] = "STARTING"
    /\ sched.at = "call" => Untouched(sched.exp)
    /\ sched.at = "waiting" =>
          /\ run[sched.exp] = "never"
          /\ \A n \in Nodes \ {sched.node} :
                <<sched.exp, n>> \notin calls /\ sched.exp \notin answering[n]
    /\ sched.at = "decided" =>
          /\ status[sched.exp] # "PENDING"
          /\ sched.outcome \in {"retryable", "fatal"} =>
                status[sched.exp] = "STARTING" /\ Untouched(sched.exp)

SchedIsGood ==
    /\ ~cpUp => sched = IdleSched
    /\ sched.at \in {"idle", "reconcile"} => sched.rest = <<>>
    /\ sched.at = "next" => sched.rest # <<>>
    /\ IF sched.at \in Free THEN sched.exp = NoExperiment
       ELSE sched.exp \in Experiments /\ sched.node \in Nodes
    /\ InHand

\* The result in a reporter's hand is in its journal.
ReportsAreGood ==
    \A n \in Nodes : reporter[n].at # "idle" =>
        reporter[n].exp \in Experiments /\ journal[n][reporter[n].exp] # "none"

\* A call to stop goes to a node.
StopsAreGood ==
    \A e \in Experiments : cancel[e].at = "stop" => cancel[e].node \in Nodes

IInv == /\ Shapes
        /\ OnePlace /\ RowsAreGood /\ SchedIsGood /\ ReportsAreGood /\ StopsAreGood
        /\ CancelAnswerIsFinal /\ NoPendingForgotten

-----------------------------------------------------------------------------
(* Types. *)

\* The shapes are the types.
LEMMA ShapesAreTypes == Shapes => TypeOK
<1> SUFFICES ASSUME Shapes PROVE TypeOK
  OBVIOUS
<1>1. queue.items \in Seq(Experiments) /\ queue.index = ToSet(queue.items)
  BY DEF Shapes, MemoryTyped, GoodQueue, Q!Queue
<1>2. /\ sched.at \in SchedStep /\ sched.rest \in Seq(Experiments)
      /\ sched.exp \in Experiments \cup {NoExperiment} /\ sched.node \in Nodes \cup {NoNode}
      /\ sched.outcome \in Outcomes /\ sched.active \subseteq Nodes
  BY DEF Shapes, MemoryTyped, Sched
<1>3. cpUp \in BOOLEAN /\ enqueued \in BOOLEAN /\ stranded \subseteq Experiments
  BY DEF Shapes, Flags
<1> QED
  BY <1>1, <1>2, <1>3
     DEF Shapes, RowsTyped, MemoryTyped, DispatchersTyped, RestTyped, Cancels, Reports, TypeOK

\* The scheduler goes on with the next record, with empty hands.
LEMMA ContinueFacts ==
    ASSUME sched \in Sched
    PROVE  /\ Continue \in Sched /\ Continue.rest = sched.rest
           /\ Continue.exp = NoExperiment /\ Continue.outcome = "none"
           /\ Continue.at = IF sched.rest = <<>> THEN "idle" ELSE "next"
  BY DEF Continue, IdleSched, Sched, SchedStep, Outcomes

\* An idle scheduler has nothing in hand.
LEMMA IdleSchedFacts ==
    /\ IdleSched \in Sched /\ IdleSched.at = "idle" /\ IdleSched.rest = <<>>
    /\ IdleSched.exp = NoExperiment /\ IdleSched.outcome = "none"
  BY DEF IdleSched, Sched, SchedStep, Outcomes

\* A fault takes one from the budget.
LEMMA FaultsTyped ==
    ASSUME faults \in 0..MaxFaults, NoFault \/ \E kind \in FaultKinds : Fault(kind)
    PROVE  faults' \in 0..MaxFaults
  BY LifecycleAssumption DEF NoFault, Fault

\* At the start nothing has been queued or asked for.
LEMMA InitIInv == Init => IInv
<1> SUFFICES ASSUME Init PROVE IInv
  OBVIOUS
<1> USE DEF Init
<1>1. Flags
  BY DEF Flags
<1>2. RowsTyped /\ RestTyped
  BY LifecycleAssumption DEF RowsTyped, RestTyped
<1>3. MemoryTyped
  <2>1. GoodQueue(Q!EmptyQueue)
    BY DEF GoodQueue, Q!Queue, Q!EmptyQueue, ToSet
  <2>2. nodes \in R!NodeMap
    <3> DEFINE load == [platform |-> "any", totalSlots |-> Slots,
                        usedSlots |-> 0, totalMemory |-> 0, reservedMemory |-> 0]
    <3>1. load \in R!NodeStatus
      BY LifecycleAssumption DEF R!NodeStatus
    <3> HIDE DEF load
    <3>2. R!NewRecord(load) \in R!NodeRecord
      BY <3>1 DEF R!NewRecord, R!NodeRecord
    <3> QED
      BY <3>2 DEF R!NodeMap, load
  <2>3. cancel \in [Experiments -> Cancels]
    BY DEF Cancels, CancelAt, CancelStep
  <2> QED
    BY <2>1, <2>2, <2>3, IdleSchedFacts DEF MemoryTyped
<1>4. DispatchersTyped
  BY EmptyRegistryFacts DEF DispatchersTyped, Reports, NoReport
<1>5. OnePlace /\ RowsAreGood
  BY DEF OnePlace, InOnePlace, RowsAreGood, RowIsGood, Untouched
<1>6. SchedIsGood
  BY IdleSchedFacts DEF SchedIsGood, InHand, Free
<1>7. ReportsAreGood /\ StopsAreGood
  BY DEF ReportsAreGood, StopsAreGood, NoReport, CancelAt
<1>8. CancelAnswerIsFinal /\ NoPendingForgotten
  BY DEF CancelAnswerIsFinal, NoPendingForgotten, Attended, CancelAt
<1> QED
  BY <1>1, <1>2, <1>3, <1>4, <1>5, <1>6, <1>7, <1>8 DEF IInv, Shapes

-----------------------------------------------------------------------------
(* What a step cannot disturb that leaves some variables alone. *)

\* What asks the nodes for a run, and what comes of it.
execution == <<calls, answering, running, journal, run>>

\* A step that leaves the execution alone keeps each experiment in one place.
LEMMA SameExecution ==
    ASSUME UNCHANGED execution
    PROVE  /\ OnePlace => OnePlace'
           /\ \A e \in Experiments : Untouched(e)' = Untouched(e)
  BY DEF execution, OnePlace, InOnePlace, Untouched

\* If it leaves the rows alone as well, what is said of them holds on.
LEMMA SameRows ==
    ASSUME UNCHANGED execution, UNCHANGED db, RowsAreGood PROVE RowsAreGood'
  BY DEF execution, db, RowsAreGood, RowIsGood, Untouched

\* So does what is said of the reports, if it touches neither them nor the journals.
LEMMA SameReports ==
    ASSUME UNCHANGED <<reporter, journal>>, ReportsAreGood PROVE ReportsAreGood'
  BY DEF ReportsAreGood

\* And of the cancellations, if it touches none.
LEMMA SameCancels ==
    ASSUME UNCHANGED cancel PROVE /\ StopsAreGood => StopsAreGood'
                                  /\ UNCHANGED <<status, run>> /\ CancelAnswerIsFinal => CancelAnswerIsFinal'
  BY DEF StopsAreGood, CancelAnswerIsFinal

\* A step of the scheduler that writes nothing but its own state, the queue and the
\* registry of nodes.
LEMMA InMemory ==
    ASSUME IInv, UNCHANGED <<db, cpUp, enqueued, stranded, cancel, dispatchers, calls, run>>,
           faults' \in 0..MaxFaults,
           GoodQueue(queue)', (nodes \in R!NodeMap)', (sched \in Sched)'
    PROVE  /\ Shapes' /\ OnePlace' /\ RowsAreGood' /\ ReportsAreGood' /\ StopsAreGood'
           /\ CancelAnswerIsFinal'
           /\ \A e \in Experiments : Untouched(e)' = Untouched(e)
<1>1. UNCHANGED execution /\ UNCHANGED db /\ UNCHANGED <<reporter, journal>> /\ UNCHANGED cancel
      /\ UNCHANGED <<status, run>>
  BY DEF execution, dispatchers, db
<1>2. Flags'
  <2>1. cpUp' = cpUp /\ enqueued' = enqueued /\ stranded' = stranded
    OBVIOUS
  <2> QED
    BY <2>1 DEF IInv, Shapes, Flags
<1>3. RowsTyped' /\ RestTyped'
  BY DEF IInv, Shapes, RowsTyped, RestTyped, db
<1>4. MemoryTyped'
  BY DEF IInv, Shapes, MemoryTyped
<1>5. DispatchersTyped'
  BY DEF IInv, Shapes, DispatchersTyped, dispatchers
<1> QED
  BY <1>1, <1>2, <1>3, <1>4, <1>5, SameExecution, SameRows, SameReports, SameCancels DEF IInv, Shapes

\* An experiment that is in the queue afterwards, or was not pending, is not forgotten.
StillKept(e) ==
    \/ e \in ToSet(queue.items) \/ e \in ToSet(sched.rest) \/ e = sched.exp
    \/ cancel[e].at = "removed" \/ e \in stranded

\* Nothing pending is forgotten when each pending experiment is still kept by someone.
LEMMA KeptMeansNotForgotten ==
    /\ NoPendingForgotten <=>
          (cpUp /\ enqueued => \A e \in Experiments : status[e] = "PENDING" => StillKept(e))
    /\ NoPendingForgotten' <=>
          (cpUp' /\ enqueued' => \A e \in Experiments : status'[e] = "PENDING" => StillKept(e)')
  BY DEF NoPendingForgotten, Attended, StillKept

\* Nothing is forgotten when what was in hand is not pending or goes back to the queue.
LEMMA HandsEmptied ==
    ASSUME IInv, UNCHANGED <<cpUp, enqueued, cancel>>, stranded \subseteq stranded',
           \A e \in Experiments : status'[e] = "PENDING" =>
                status[e] = "PENDING" \/ e \in stranded',
           GoodQueue(queue)', queue.index \subseteq queue'.index,
           sched'.rest = sched.rest,
           sched.exp \in Experiments => \/ status'[sched.exp] # "PENDING"
                                        \/ sched.exp \in queue'.index \/ sched.exp \in stranded'
    PROVE  NoPendingForgotten'
<1> SUFFICES ASSUME cpUp, enqueued, NEW e \in Experiments, status'[e] = "PENDING"
             PROVE  StillKept(e)'
  BY KeptMeansNotForgotten
<1>1. StillKept(e) \/ e \in stranded'
  BY KeptMeansNotForgotten DEF IInv
<1>2. ToSet(queue.items) = queue.index /\ ToSet(queue'.items) = queue'.index
  BY DEF IInv, Shapes, MemoryTyped, GoodQueue
<1> QED
  BY <1>1, <1>2 DEF StillKept

-----------------------------------------------------------------------------
(* Scheduler.RunOnce. *)

\* The queue is popped.
LEMMA PopBatchPreserves == IInv /\ PopBatch => IInv'
<1> SUFFICES ASSUME IInv, PopBatch PROVE IInv'
  OBVIOUS
<1>1. /\ cpUp /\ sched.at = "idle" /\ queue.items # <<>>
      /\ sched' = [IdleSched EXCEPT !.at = "next", !.rest = queue.items]
      /\ queue' = Q!EmptyQueue
      /\ UNCHANGED <<db, cpUp, enqueued, stranded, nodes, cancel, dispatchers, calls, run>>
      /\ faults' = faults
  BY PopFacts DEF PopBatch, Scheduling, NoFault, IInv, Shapes, MemoryTyped
<1>2. GoodQueue(queue) /\ queue.items \in Seq(Experiments)
  BY DEF IInv, Shapes, MemoryTyped, GoodQueue, Q!Queue
<1>3. GoodQueue(queue)'
  BY <1>1 DEF GoodQueue, Q!Queue, Q!EmptyQueue, ToSet
<1>4. /\ sched' \in Sched /\ sched'.at = "next" /\ sched'.rest = queue.items
      /\ sched'.exp = NoExperiment
  BY <1>1, <1>2 DEF IdleSched, Sched, SchedStep, Outcomes
<1>5. /\ Shapes' /\ OnePlace' /\ RowsAreGood' /\ ReportsAreGood' /\ StopsAreGood'
      /\ CancelAnswerIsFinal'
  <2>1. faults' \in 0..MaxFaults /\ nodes' \in R!NodeMap
    BY <1>1 DEF IInv, Shapes, RestTyped, MemoryTyped
  <2> QED
    BY <1>1, <1>3, <1>4, <2>1, InMemory
<1>6. SchedIsGood'
  BY <1>1, <1>4 DEF SchedIsGood, InHand, Free
<1>7. NoPendingForgotten'
  <2> SUFFICES ASSUME enqueued, NEW e \in Experiments, status[e] = "PENDING" PROVE StillKept(e)'
    BY <1>1, KeptMeansNotForgotten DEF db
  <2>1. StillKept(e)
    BY <1>1, KeptMeansNotForgotten DEF IInv
  <2>2. sched.rest = <<>> /\ sched.exp = NoExperiment
    BY <1>1 DEF IInv, SchedIsGood, Free
  <2>3. e \notin ToSet(sched.rest) /\ e # sched.exp
    BY <2>2, LifecycleAssumption DEF ToSet
  <2> QED
    BY <1>1, <1>4, <2>1, <2>3 DEF StillKept
<1> QED
  BY <1>5, <1>6, <1>7 DEF IInv

\* The first of the rest, and the others.
LEMMA HeadAndTail ==
    ASSUME NEW s \in Seq(Experiments), s # <<>>
    PROVE  /\ Head(s) \in Experiments /\ Tail(s) \in Seq(Experiments)
           /\ ToSet(s) = {Head(s)} \cup ToSet(Tail(s))
           /\ Len(s) = 1 <=> Tail(s) = <<>>
<1>1. /\ Head(s) \in Experiments /\ Tail(s) \in Seq(Experiments) /\ Head(s) = s[1]
      /\ Len(s) \in Nat /\ Len(s) > 0 /\ Len(Tail(s)) = Len(s) - 1
      /\ \A i \in 1..(Len(s) - 1) : Tail(s)[i] = s[i + 1]
  OBVIOUS
<1>2. DOMAIN s = 1..Len(s) /\ DOMAIN Tail(s) = 1..(Len(s) - 1)
  BY <1>1
<1>3. ToSet(s) \subseteq {Head(s)} \cup ToSet(Tail(s))
  <2> SUFFICES ASSUME NEW i \in 1..Len(s), i # 1 PROVE s[i] \in ToSet(Tail(s))
    BY <1>1, <1>2 DEF ToSet
  <2>1. i - 1 \in 1..(Len(s) - 1) /\ (i - 1) + 1 = i
    BY <1>1
  <2>2. s[i] = Tail(s)[i - 1]
    BY <1>1, <2>1
  <2> QED
    BY <1>2, <2>1, <2>2 DEF ToSet
<1>4. ToSet(Tail(s)) \subseteq ToSet(s)
  <2> SUFFICES ASSUME NEW i \in 1..(Len(s) - 1) PROVE Tail(s)[i] \in ToSet(s)
    BY <1>2 DEF ToSet
  <2>1. i + 1 \in 1..Len(s)
    BY <1>1
  <2> QED
    BY <1>1, <1>2, <2>1 DEF ToSet
<1>5. Head(s) \in ToSet(s)
  <2>1. 1 \in 1..Len(s)
    BY <1>1
  <2> QED
    BY <1>1, <1>2, <2>1 DEF ToSet
<1>6. Len(s) = 1 <=> Tail(s) = <<>>
  BY <1>1, EmptySeq
<1> QED
  BY <1>1, <1>3, <1>4, <1>5, <1>6

\* A node is picked for the next record.
LEMMA PickPreserves ==
    ASSUME IInv, NEW n \in Nodes, PickAndReserve(n) PROVE IInv'
<1>1. /\ cpUp /\ sched.at = "next" /\ n \in R!Candidates(nodes, "any", 0)
      /\ nodes' \in R!Picks(nodes, n, 0)
      /\ sched' = [sched EXCEPT !.at = "claim", !.rest = Tail(@), !.exp = Head(sched.rest), !.node = n]
      /\ UNCHANGED <<db, cpUp, enqueued, stranded, queue, cancel, dispatchers, calls, run>>
      /\ faults' = faults
  BY DEF PickAndReserve, Scheduling, NoFault
<1>2. /\ sched \in Sched /\ sched.rest \in Seq(Experiments) /\ sched.rest # <<>>
      /\ nodes \in R!NodeMap /\ GoodQueue(queue) /\ sched.exp = NoExperiment
  BY <1>1 DEF IInv, Shapes, MemoryTyped, Sched, SchedIsGood, Free
<1>3. /\ Head(sched.rest) \in Experiments /\ Tail(sched.rest) \in Seq(Experiments)
      /\ ToSet(sched.rest) = {Head(sched.rest)} \cup ToSet(Tail(sched.rest))
  BY <1>2, HeadAndTail
<1>4. /\ sched' \in Sched /\ sched'.at = "claim" /\ sched'.rest = Tail(sched.rest)
      /\ sched'.exp = Head(sched.rest) /\ sched'.node = n
  BY <1>1, <1>2, <1>3 DEF Sched, SchedStep
<1>5. nodes' \in R!NodeMap
  BY <1>1, <1>2, PickFacts
<1>6. /\ Shapes' /\ OnePlace' /\ RowsAreGood' /\ ReportsAreGood' /\ StopsAreGood'
      /\ CancelAnswerIsFinal'
  <2>1. faults' \in 0..MaxFaults /\ GoodQueue(queue)'
    BY <1>1, <1>2 DEF IInv, Shapes, RestTyped
  <2> QED
    BY <1>1, <1>4, <1>5, <2>1, InMemory
<1>7. SchedIsGood'
  BY <1>1, <1>3, <1>4 DEF SchedIsGood, InHand, Free
<1>8. NoPendingForgotten'
  <2> SUFFICES ASSUME enqueued, NEW e \in Experiments, status[e] = "PENDING" PROVE StillKept(e)'
    BY <1>1, KeptMeansNotForgotten DEF db
  <2>1. StillKept(e) /\ e # sched.exp
    BY <1>1, <1>2, KeptMeansNotForgotten, LifecycleAssumption DEF IInv
  <2> QED
    BY <1>1, <1>3, <1>4, <2>1 DEF StillKept
<1> QED
  BY <1>6, <1>7, <1>8 DEF IInv

\* No node fits: the record goes back to the queue.
LEMMA NoNodeFitsPreserves == IInv /\ NoNodeFits => IInv'
<1> SUFFICES ASSUME IInv, NoNodeFits PROVE IInv'
  OBVIOUS
<1>1. /\ cpUp /\ sched.at = "next"
      /\ nodes' = R!Evict(nodes, R!Expired(nodes))
      /\ queue' = Q!Enqueue(queue, Head(sched.rest))
      /\ sched' = [IdleSched EXCEPT !.rest = Tail(sched.rest),
                                    !.at = IF Len(sched.rest) = 1 THEN "idle" ELSE "next"]
      /\ UNCHANGED <<db, cpUp, enqueued, stranded, cancel, dispatchers, calls, run>>
      /\ faults' = faults
  BY DEF NoNodeFits, Scheduling, NoFault
<1>2. /\ sched.rest \in Seq(Experiments) /\ sched.rest # <<>>
      /\ nodes \in R!NodeMap /\ GoodQueue(queue) /\ sched.exp = NoExperiment
  BY <1>1 DEF IInv, Shapes, MemoryTyped, Sched, SchedIsGood, Free
<1>3. /\ Head(sched.rest) \in Experiments /\ Tail(sched.rest) \in Seq(Experiments)
      /\ ToSet(sched.rest) = {Head(sched.rest)} \cup ToSet(Tail(sched.rest))
      /\ Len(sched.rest) = 1 <=> Tail(sched.rest) = <<>>
  BY <1>2, HeadAndTail
<1>4. /\ sched' \in Sched /\ sched'.rest = Tail(sched.rest) /\ sched'.exp = NoExperiment
      /\ sched'.at = IF Tail(sched.rest) = <<>> THEN "idle" ELSE "next"
  BY <1>1, <1>3 DEF IdleSched, Sched, SchedStep, Outcomes
<1>5. GoodQueue(queue)' /\ queue'.index = queue.index \cup {Head(sched.rest)}
  BY <1>1, <1>2, <1>3, EnqueueFacts
<1>6. /\ Shapes' /\ OnePlace' /\ RowsAreGood' /\ ReportsAreGood' /\ StopsAreGood'
      /\ CancelAnswerIsFinal'
  <2>1. faults' \in 0..MaxFaults /\ nodes' \in R!NodeMap
    BY <1>1, <1>2, EvictType DEF IInv, Shapes, RestTyped
  <2> QED
    BY <1>1, <1>4, <1>5, <2>1, InMemory
<1>7. SchedIsGood'
  BY <1>1, <1>3, <1>4 DEF SchedIsGood, InHand, Free
<1>8. NoPendingForgotten'
  <2> SUFFICES ASSUME enqueued, NEW e \in Experiments, status[e] = "PENDING" PROVE StillKept(e)'
    BY <1>1, KeptMeansNotForgotten DEF db
  <2>1. StillKept(e) /\ e # sched.exp
    BY <1>1, <1>2, KeptMeansNotForgotten, LifecycleAssumption DEF IInv
  <2>2. ToSet(queue.items) = queue.index /\ ToSet(queue'.items) = queue'.index
    BY <1>2, <1>5 DEF GoodQueue
  <2> QED
    BY <1>1, <1>3, <1>4, <1>5, <2>1, <2>2 DEF StillKept
<1> QED
  BY <1>6, <1>7, <1>8 DEF IInv

\* The scheduler is done with a record.
LEMMA ContinuePreserves ==
    ASSUME IInv, cpUp, sched.at \notin Free, sched' = Continue,
           UNCHANGED <<db, cpUp, enqueued, stranded, cancel, dispatchers, calls, run>>,
           faults' \in 0..MaxFaults, nodes' \in R!NodeMap,
           GoodQueue(queue'), queue.index \subseteq queue'.index,
           status[sched.exp] # "PENDING" \/ sched.exp \in queue'.index
    PROVE  IInv'
<1>1. sched \in Sched
  BY DEF IInv, Shapes, MemoryTyped
<1>2. /\ sched' \in Sched /\ sched'.rest = sched.rest /\ sched'.exp = NoExperiment
      /\ sched'.at = IF sched.rest = <<>> THEN "idle" ELSE "next"
  BY <1>1, ContinueFacts
<1>3. /\ Shapes' /\ OnePlace' /\ RowsAreGood' /\ ReportsAreGood' /\ StopsAreGood'
      /\ CancelAnswerIsFinal'
  BY <1>2, InMemory
<1>4. SchedIsGood'
  BY <1>2 DEF SchedIsGood, InHand, Free
<1>5. NoPendingForgotten'
  <2>1. status' = status
    BY DEF db
  <2> QED
    BY <1>2, <2>1, HandsEmptied
<1> QED
  BY <1>3, <1>4, <1>5 DEF IInv

\* What the scheduler has in hand.
LEMMA HasInHand ==
    ASSUME IInv, sched.at \notin Free
    PROVE  /\ sched \in Sched /\ sched.exp \in Experiments /\ sched.node \in Nodes
           /\ nodes \in R!NodeMap /\ GoodQueue(queue) /\ faults \in 0..MaxFaults
  BY DEF IInv, Shapes, MemoryTyped, RestTyped, SchedIsGood

\* The claim finds the row taken.
LEMMA NoLongerPendingPreserves == IInv /\ NoLongerPending => IInv'
<1> SUFFICES ASSUME IInv, NoLongerPending PROVE IInv'
  OBVIOUS
<1>1. /\ cpUp /\ sched.at = "claim" /\ status[sched.exp] # "PENDING"
      /\ nodes' = R!ReleaseReservation(nodes, sched.node, 0)
      /\ sched' = Continue /\ queue' = queue
      /\ UNCHANGED <<db, cpUp, enqueued, stranded, cancel, dispatchers, calls, run>>
      /\ faults' = faults
  BY DEF NoLongerPending, Scheduling, NoFault
<1>2. sched.at \notin Free
  BY <1>1 DEF Free
<1>3. nodes' \in R!NodeMap
  BY <1>1, <1>2, HasInHand, ReleaseFacts
<1> QED
  BY <1>1, <1>2, <1>3, HasInHand, ContinuePreserves

\* The reservation is kept for the run.
LEMMA KeepStartingPreserves == IInv /\ KeepStarting => IInv'
<1> SUFFICES ASSUME IInv, KeepStarting PROVE IInv'
  OBVIOUS
<1>1. /\ cpUp /\ sched.at = "decided"
      /\ nodes' = R!MarkNodeSucceeded(nodes, sched.node)
      /\ sched' = Continue /\ queue' = queue
      /\ UNCHANGED <<db, cpUp, enqueued, stranded, cancel, dispatchers, calls, run>>
      /\ faults' = faults
  BY DEF KeepStarting, Scheduling, NoFault
<1>2. sched.at \notin Free /\ status[sched.exp] # "PENDING"
  BY <1>1 DEF Free, IInv, SchedIsGood, InHand
<1>3. nodes' \in R!NodeMap
  BY <1>1, <1>2, HasInHand, SucceededFacts
<1> QED
  BY <1>1, <1>2, <1>3, HasInHand, ContinuePreserves

\* It goes back to the queue.
LEMMA RequeuePreserves == IInv /\ Requeue => IInv'
<1> SUFFICES ASSUME IInv, Requeue PROVE IInv'
  OBVIOUS
<1>1. /\ cpUp /\ sched.at = "requeue"
      /\ queue' = Q!Enqueue(queue, sched.exp) /\ sched' = Continue /\ nodes' = nodes
      /\ UNCHANGED <<db, cpUp, enqueued, stranded, cancel, dispatchers, calls, run>>
      /\ faults' = faults
  BY DEF Requeue, Scheduling, NoFault
<1>2. sched.at \notin Free
  BY <1>1 DEF Free
<1>3. GoodQueue(queue') /\ queue'.index = queue.index \cup {sched.exp}
  BY <1>1, <1>2, HasInHand, EnqueueFacts
<1> QED
  BY <1>1, <1>2, <1>3, HasInHand, ContinuePreserves

\* Giving the reservation back and resetting the failures.
LEMMA RollbackType ==
    ASSUME IInv, sched.at \notin Free PROVE Rollback \in R!NodeMap
  BY HasInHand, ReleaseFacts, SucceededFacts DEF Rollback

\* No answer: the row stays STARTING.
LEMMA LeaveStartingPreserves == IInv /\ LeaveStarting => IInv'
<1> SUFFICES ASSUME IInv, LeaveStarting PROVE IInv'
  OBVIOUS
<1>1. /\ cpUp /\ sched.at = "decided"
      /\ nodes' = R!MarkNodeFailed(nodes, sched.node, MaxNodeFailures)
      /\ sched' = Continue /\ queue' = queue
      /\ UNCHANGED <<db, cpUp, enqueued, stranded, cancel, dispatchers, calls, run>>
      /\ faults' = faults
  BY DEF LeaveStarting, Decided, Scheduling, NoFault
<1>2. sched.at \notin Free /\ status[sched.exp] # "PENDING"
  BY <1>1 DEF Free, IInv, SchedIsGood, InHand
<1>3. nodes' \in R!NodeMap
  BY <1>1, <1>2, HasInHand, FailedType
<1> QED
  BY <1>1, <1>2, <1>3, HasInHand, ContinuePreserves

-----------------------------------------------------------------------------
(* The statements of the scheduler. *)

\* A statement that writes one row: the execution and the cancellations are as before.
LEMMA RowWritten ==
    ASSUME IInv, NEW e \in Experiments,
           status' = [status EXCEPT ![e] = status'[e]], nodeOf' = [nodeOf EXCEPT ![e] = nodeOf'[e]],
           status'[e] \in {"PENDING", "STARTING"} \cup Terminal, nodeOf'[e] \in Nodes \cup {NoNode},
           UNCHANGED <<cpUp, enqueued, cancel, dispatchers, calls, run>>,
           stranded' \subseteq Experiments, faults' \in 0..MaxFaults,
           GoodQueue(queue'), nodes' \in R!NodeMap, sched' \in Sched,
           cancel[e].at = "canceled" => status'[e] = "CANCELED",
           RowIsGood(e)'
    PROVE  /\ Shapes' /\ OnePlace' /\ RowsAreGood' /\ ReportsAreGood' /\ StopsAreGood'
           /\ CancelAnswerIsFinal'
           /\ \A x \in Experiments : Untouched(x)' = Untouched(x)
<1>1. UNCHANGED execution /\ UNCHANGED <<reporter, journal>>
  BY DEF execution, dispatchers
<1>2. Flags'
  <2>1. cpUp' = cpUp /\ enqueued' = enqueued
    OBVIOUS
  <2> QED
    BY <2>1 DEF IInv, Shapes, Flags
<1>3. RowsTyped' /\ RestTyped'
  BY DEF IInv, Shapes, RowsTyped, RestTyped
<1>4. MemoryTyped'
  BY DEF IInv, Shapes, MemoryTyped
<1>5. DispatchersTyped'
  BY DEF IInv, Shapes, DispatchersTyped, dispatchers
<1>6. \A x \in Experiments \ {e} : status'[x] = status[x] /\ nodeOf'[x] = nodeOf[x]
  BY DEF IInv, Shapes, RowsTyped
<1>7. OnePlace' /\ \A x \in Experiments : Untouched(x)' = Untouched(x)
  BY <1>1, SameExecution DEF IInv
<1>8. RowsAreGood'
  <2> SUFFICES ASSUME NEW x \in Experiments \ {e} PROVE RowIsGood(x)'
    BY DEF RowsAreGood
  <2>1. run' = run
    OBVIOUS
  <2>2. RowIsGood(x)
    BY DEF IInv, RowsAreGood
  <2> QED
    BY <1>6, <1>7, <2>1, <2>2 DEF RowIsGood
<1>9. CancelAnswerIsFinal'
  BY <1>6 DEF IInv, CancelAnswerIsFinal
<1> QED
  BY <1>1, <1>2, <1>3, <1>4, <1>5, <1>7, <1>8, <1>9, SameReports, SameCancels DEF IInv, Shapes

\* The row of a pending experiment goes to STARTING.
LEMMA ClaimedRow ==
    ASSUME IInv, cpUp, sched.at = "claim", NEW e \in Experiments, e = sched.exp,
           status[e] = "PENDING",
           status' = [status EXCEPT ![e] = "STARTING"], nodeOf' = [nodeOf EXCEPT ![e] = sched.node],
           UNCHANGED <<cpUp, enqueued, stranded, cancel, dispatchers, calls, run>>, faults' \in 0..MaxFaults,
           GoodQueue(queue'), nodes' \in R!NodeMap, sched' \in Sched
    PROVE  /\ Shapes' /\ OnePlace' /\ RowsAreGood' /\ ReportsAreGood' /\ StopsAreGood'
           /\ CancelAnswerIsFinal'
           /\ Untouched(e)' /\ status'[e] = "STARTING"
           /\ \A x \in Experiments \ {e} : status'[x] = status[x]
<1>1. sched.node \in Nodes
  BY HasInHand DEF Free
<1>2. /\ status'[e] = "STARTING" /\ nodeOf'[e] = sched.node
      /\ \A x \in Experiments \ {e} : status'[x] = status[x]
  BY <1>1 DEF IInv, Shapes, RowsTyped
<1>3. Untouched(e)
  BY <1>1 DEF IInv, RowsAreGood, RowIsGood
<1>4. Untouched(e)'
  <2>1. UNCHANGED execution
    BY DEF execution, dispatchers
  <2> QED
    BY <1>1, <1>3, <2>1, SameExecution
<1>5. RowIsGood(e)'
  BY <1>1, <1>2, <1>4 DEF RowIsGood
<1>6. cancel[e].at # "canceled" /\ stranded' \subseteq Experiments
  BY <1>1 DEF IInv, CancelAnswerIsFinal, Shapes, Flags
<1> QED
  BY <1>1, <1>2, <1>4, <1>5, <1>6, RowWritten

\* The claim succeeds.
LEMMA ClaimPreserves == IInv /\ TryMarkExperimentStarting => IInv'
<1> SUFFICES ASSUME IInv, TryMarkExperimentStarting PROVE IInv'
  OBVIOUS
<1>0. PICK e : e = sched.exp
  OBVIOUS
<1>1. /\ cpUp /\ sched.at = "claim" /\ status[e] = "PENDING"
      /\ status' = [status EXCEPT ![e] = "STARTING"]
      /\ nodeOf' = [nodeOf EXCEPT ![e] = sched.node]
      /\ sched' = [sched EXCEPT !.at = "call"]
      /\ UNCHANGED <<cpUp, enqueued, stranded, queue, nodes, cancel, dispatchers, calls, run>>
      /\ faults' = faults
  BY <1>0 DEF TryMarkExperimentStarting, Scheduling, NoFault, SetStatus
<1>2. /\ e \in Experiments /\ sched \in Sched /\ sched.node \in Nodes /\ nodes \in R!NodeMap
      /\ GoodQueue(queue) /\ faults \in 0..MaxFaults
  BY <1>0, <1>1, HasInHand DEF Free
<1>3. /\ sched' \in Sched /\ sched'.at = "call" /\ sched'.exp = e /\ sched'.node = sched.node
      /\ sched'.rest = sched.rest
  BY <1>0, <1>1, <1>2 DEF Sched, SchedStep
<1>4. /\ Shapes' /\ OnePlace' /\ RowsAreGood' /\ ReportsAreGood' /\ StopsAreGood'
      /\ CancelAnswerIsFinal'
      /\ Untouched(e)' /\ status'[e] = "STARTING"
      /\ \A x \in Experiments \ {e} : status'[x] = status[x]
  BY <1>0, <1>1, <1>2, <1>3, ClaimedRow
<1>5. SchedIsGood'
  BY <1>1, <1>2, <1>3, <1>4 DEF SchedIsGood, InHand, Free, Untouched
<1>6. NoPendingForgotten'
  <2>1. \A x \in Experiments : status'[x] = "PENDING" => status[x] = "PENDING"
    BY <1>1, <1>4
  <2> QED
    BY <1>0, <1>1, <1>2, <1>3, <1>4, <2>1, HandsEmptied
<1> QED
  BY <1>4, <1>5, <1>6 DEF IInv

\* The claim fails, whether or not the row was written.
LEMMA ClaimFailsPreserves == IInv /\ ClaimFails => IInv'
<1> SUFFICES ASSUME IInv, ClaimFails PROVE IInv'
  OBVIOUS
<1>0. PICK e : e = sched.exp
  OBVIOUS
<1>1. /\ cpUp /\ sched.at = "claim" /\ Fault("sql_error")
      /\ \/ UNCHANGED db
         \/ /\ status[e] = "PENDING" /\ status' = [status EXCEPT ![e] = "STARTING"]
            /\ nodeOf' = [nodeOf EXCEPT ![e] = sched.node]
      /\ nodes' = R!ReleaseReservation(nodes, sched.node, 0)
      /\ queue' = Q!Enqueue(queue, e) /\ sched' = Continue
      /\ UNCHANGED <<cpUp, enqueued, stranded, cancel, dispatchers, calls, run>>
  BY <1>0 DEF ClaimFails, Scheduling, SetStatus
<1>2. /\ e \in Experiments /\ sched \in Sched /\ sched.node \in Nodes /\ nodes \in R!NodeMap
      /\ GoodQueue(queue) /\ faults \in 0..MaxFaults /\ sched.at \notin Free
  BY <1>0, <1>1, HasInHand DEF Free
<1>3. nodes' \in R!NodeMap /\ faults' \in 0..MaxFaults
  BY <1>1, <1>2, ReleaseFacts, FaultsTyped DEF FaultKinds
<1>4. GoodQueue(queue') /\ queue'.index = queue.index \cup {e}
  BY <1>1, <1>2, EnqueueFacts
<1>5. CASE UNCHANGED db
  BY <1>0, <1>1, <1>2, <1>3, <1>4, <1>5, ContinuePreserves
<1>6. CASE /\ status[e] = "PENDING" /\ status' = [status EXCEPT ![e] = "STARTING"]
           /\ nodeOf' = [nodeOf EXCEPT ![e] = sched.node]
  <2>1. /\ sched' \in Sched /\ sched'.rest = sched.rest /\ sched'.exp = NoExperiment
        /\ sched'.at = IF sched.rest = <<>> THEN "idle" ELSE "next"
    BY <1>1, <1>2, ContinueFacts
  <2>2. /\ Shapes' /\ OnePlace' /\ RowsAreGood' /\ ReportsAreGood' /\ StopsAreGood'
        /\ CancelAnswerIsFinal'
        /\ \A x \in Experiments \ {e} : status'[x] = status[x]
    BY <1>0, <1>1, <1>2, <1>3, <1>4, <1>6, <2>1, ClaimedRow
  <2>3. SchedIsGood'
    BY <1>1, <2>1 DEF SchedIsGood, InHand, Free
  <2>4. NoPendingForgotten'
    <3>1. \A x \in Experiments : status'[x] = "PENDING" => status[x] = "PENDING"
      BY <1>6, <2>2
    <3> QED
      BY <1>0, <1>1, <1>4, <2>1, <3>1, HandsEmptied
  <2> QED
    BY <2>2, <2>3, <2>4 DEF IInv
<1> QED
  BY <1>1, <1>5, <1>6

\* The call is made.
LEMMA StartPreserves == IInv /\ StartExperiment => IInv'
<1> SUFFICES ASSUME IInv, StartExperiment PROVE IInv'
  OBVIOUS
<1>0. PICK e, n : e = sched.exp /\ n = sched.node
  OBVIOUS
<1>1. /\ cpUp /\ sched.at = "call"
      /\ calls' = calls \cup {<<e, n>>}
      /\ sched' = [sched EXCEPT !.at = "waiting"]
      /\ UNCHANGED <<status, nodeOf, cpUp, enqueued, stranded, queue, nodes, cancel>>
      /\ UNCHANGED <<up, registry, answering, running, journal, reporter, run>>
      /\ faults' = faults
  BY <1>0 DEF StartExperiment, Scheduling, NoFault, db, dispatchers
<1>2. /\ e \in Experiments /\ sched \in Sched /\ n \in Nodes
      /\ status[e] = "STARTING" /\ Untouched(e)
  BY <1>0, <1>1, HasInHand DEF Free, IInv, SchedIsGood, InHand
<1>3. /\ sched' \in Sched /\ sched'.at = "waiting" /\ sched'.exp = e /\ sched'.node = n
      /\ sched'.rest = sched.rest
  BY <1>0, <1>1, <1>2 DEF Sched, SchedStep
<1>4. Shapes'
  <2>1. Flags'
    BY <1>1 DEF IInv, Shapes, Flags
  <2>2. RowsTyped' /\ RestTyped'
    BY <1>1, <1>2 DEF IInv, Shapes, RowsTyped, RestTyped
  <2>3. MemoryTyped' /\ DispatchersTyped'
    BY <1>1, <1>3 DEF IInv, Shapes, MemoryTyped, DispatchersTyped
  <2> QED
    BY <2>1, <2>2, <2>3 DEF Shapes
<1>5. OnePlace'
  <2>1. \A m \in Nodes : <<e, m>> \notin calls /\ e \notin answering[m]
    BY <1>2 DEF Untouched
  <2> SUFFICES ASSUME NEW x \in Experiments, NEW m \in Nodes PROVE InOnePlace(x, m)'
    BY DEF OnePlace
  <2>2. InOnePlace(x, m)
    BY DEF IInv, OnePlace
  <2>3. CASE x = e
    BY <1>1, <1>2, <2>1, <2>2, <2>3 DEF InOnePlace, Untouched
  <2>4. CASE x # e
    BY <1>1, <2>2, <2>4 DEF InOnePlace
  <2> QED
    BY <2>3, <2>4
<1>6. RowsAreGood'
  <2> SUFFICES ASSUME NEW x \in Experiments PROVE RowIsGood(x)'
    BY DEF RowsAreGood
  <2>1. RowIsGood(x)
    BY DEF IInv, RowsAreGood
  <2> QED
    BY <1>1, <1>2, <2>1 DEF RowIsGood, Untouched
<1>7. SchedIsGood'
  <2>1. InHand'
    BY <1>1, <1>2, <1>3 DEF InHand, Untouched
  <2> QED
    BY <1>1, <1>2, <1>3, <2>1 DEF SchedIsGood, Free
<1>8. ReportsAreGood' /\ StopsAreGood' /\ CancelAnswerIsFinal'
  BY <1>1, SameReports, SameCancels DEF IInv
<1>9. NoPendingForgotten'
  BY <1>1, <1>3, <1>0 DEF IInv, NoPendingForgotten, Attended
<1> QED
  BY <1>4, <1>5, <1>6, <1>7, <1>8, <1>9 DEF IInv

\* No answer comes; the call may be lost, or still be on its way.
LEMMA NoAnswerPreserves == IInv /\ NoAnswer => IInv'
<1> SUFFICES ASSUME IInv, NoAnswer PROVE IInv'
  OBVIOUS
<1>0. PICK e, n : e = sched.exp /\ n = sched.node
  OBVIOUS
<1>1. /\ cpUp /\ sched.at = "waiting"
      /\ calls' \subseteq calls
      /\ sched' = [sched EXCEPT !.at = "decided", !.outcome = "ambiguous"]
      /\ UNCHANGED <<status, nodeOf, cpUp, enqueued, stranded, queue, nodes, cancel>>
      /\ UNCHANGED <<up, registry, answering, running, journal, reporter, run>>
      /\ NoFault \/ Fault("lost_call")
  BY DEF NoAnswer, Scheduling, db, dispatchers
<1>2. /\ e \in Experiments /\ sched \in Sched /\ n \in Nodes /\ status[e] = "STARTING"
  BY <1>0, <1>1, HasInHand DEF Free, IInv, SchedIsGood, InHand
<1>3. /\ sched' \in Sched /\ sched'.at = "decided" /\ sched'.exp = e /\ sched'.node = n
      /\ sched'.rest = sched.rest /\ sched'.outcome = "ambiguous"
  BY <1>0, <1>1, <1>2 DEF Sched, SchedStep, Outcomes
<1>4. Shapes'
  <2>1. Flags'
    BY <1>1 DEF IInv, Shapes, Flags
  <2>2. faults' \in 0..MaxFaults
    BY <1>1, FaultsTyped DEF FaultKinds, IInv, Shapes, RestTyped
  <2>3. RowsTyped' /\ RestTyped'
    BY <1>1, <2>2 DEF IInv, Shapes, RowsTyped, RestTyped
  <2>4. MemoryTyped' /\ DispatchersTyped'
    BY <1>1, <1>3 DEF IInv, Shapes, MemoryTyped, DispatchersTyped
  <2> QED
    BY <2>1, <2>3, <2>4 DEF Shapes
<1>5. OnePlace' /\ RowsAreGood'
  <2>1. \A x \in Experiments, m \in Nodes : InOnePlace(x, m)'
    BY <1>1 DEF IInv, OnePlace, InOnePlace
  <2>2. ASSUME NEW x \in Experiments PROVE RowIsGood(x)'
    <3>1. RowIsGood(x)
      BY DEF IInv, RowsAreGood
    <3> QED
      BY <1>1, <3>1 DEF RowIsGood, Untouched
  <2> QED
    BY <2>1, <2>2 DEF OnePlace, RowsAreGood
<1>6. SchedIsGood'
  <2>1. InHand'
    BY <1>1, <1>2, <1>3 DEF InHand
  <2> QED
    BY <1>1, <1>2, <1>3, <2>1 DEF SchedIsGood, Free
<1>7. ReportsAreGood' /\ StopsAreGood' /\ CancelAnswerIsFinal'
  BY <1>1, SameReports, SameCancels DEF IInv
<1>8. NoPendingForgotten'
  BY <1>1, <1>3, <1>0 DEF IInv, NoPendingForgotten, Attended
<1> QED
  BY <1>4, <1>5, <1>6, <1>7, <1>8 DEF IInv

\* What the scheduler has in hand when a start has been refused.
LEMMA RefusedInHand ==
    ASSUME IInv, sched.at = "decided", sched.outcome \in {"retryable", "fatal"}
    PROVE  /\ sched.exp \in Experiments /\ sched \in Sched /\ sched.at \notin Free
           /\ GoodQueue(queue) /\ Rollback \in R!NodeMap
           /\ faults \in 0..MaxFaults /\ stranded \subseteq Experiments
           /\ status[sched.exp] = "STARTING" /\ Untouched(sched.exp)
           /\ cancel[sched.exp].at # "canceled"
<1>1. sched.at \notin Free
  BY DEF Free
<1>2. /\ sched.exp \in Experiments /\ sched \in Sched /\ GoodQueue(queue)
      /\ Rollback \in R!NodeMap /\ faults \in 0..MaxFaults
  BY <1>1, HasInHand, RollbackType
<1>3. status[sched.exp] = "STARTING" /\ Untouched(sched.exp)
  BY DEF IInv, SchedIsGood, InHand
<1>4. cancel[sched.exp].at # "canceled"
  BY <1>2, <1>3 DEF IInv, CancelAnswerIsFinal
<1>5. stranded \subseteq Experiments
  BY DEF IInv, Shapes, Flags
<1> QED
  BY <1>1, <1>2, <1>3, <1>4, <1>5

\* The row of a refused start goes back to PENDING.
LEMMA RowGoesBack ==
    ASSUME IInv, sched.at = "decided", sched.outcome = "retryable", NEW e, e = sched.exp,
           status' = [status EXCEPT ![e] = "PENDING"], nodeOf' = [nodeOf EXCEPT ![e] = NoNode],
           UNCHANGED <<cpUp, enqueued, queue, cancel, dispatchers, calls, run>>,
           nodes' = Rollback, sched' \in Sched,
           stranded' \subseteq Experiments, faults' \in 0..MaxFaults
    PROVE  /\ Shapes' /\ OnePlace' /\ RowsAreGood' /\ ReportsAreGood' /\ StopsAreGood'
           /\ CancelAnswerIsFinal'
           /\ e \in Experiments /\ \A x \in Experiments \ {e} : status'[x] = status[x]
<1>1. /\ e \in Experiments /\ GoodQueue(queue') /\ nodes' \in R!NodeMap
      /\ status[e] = "STARTING" /\ Untouched(e) /\ cancel[e].at # "canceled"
  BY RefusedInHand
<1>2. /\ status'[e] = "PENDING" /\ nodeOf'[e] = NoNode
      /\ \A x \in Experiments \ {e} : status'[x] = status[x]
  BY <1>1 DEF IInv, Shapes, RowsTyped
<1>3. RowIsGood(e)'
  <2>1. Untouched(e)'
    <3>1. UNCHANGED execution
      BY DEF execution, dispatchers
    <3> QED
      BY <1>1, <3>1, SameExecution
  <2> QED
    BY <1>2, <2>1 DEF RowIsGood
<1> QED
  BY <1>1, <1>2, <1>3, RowWritten

\* The row of a refused start becomes FAILED.
LEMMA RowGivenUp ==
    ASSUME IInv, sched.at = "decided", sched.outcome = "fatal", NEW e, e = sched.exp,
           status' = [status EXCEPT ![e] = "FAILED"], nodeOf' = nodeOf,
           UNCHANGED <<cpUp, enqueued, stranded, queue, cancel, dispatchers, calls, run>>,
           nodes' = Rollback, sched' = Continue, faults' \in 0..MaxFaults
    PROVE  IInv'
<1>1. /\ e \in Experiments /\ sched \in Sched /\ GoodQueue(queue') /\ nodes' \in R!NodeMap
      /\ queue' = queue /\ stranded' \subseteq Experiments
      /\ status[e] = "STARTING" /\ Untouched(e) /\ cancel[e].at # "canceled"
  BY RefusedInHand
<1>3. /\ sched' \in Sched /\ sched'.rest = sched.rest /\ sched'.exp = NoExperiment
      /\ sched'.at = IF sched.rest = <<>> THEN "idle" ELSE "next"
  BY <1>1, ContinueFacts
<1>4. /\ status'[e] = "FAILED" /\ nodeOf'[e] \in Nodes \cup {NoNode}
      /\ nodeOf' = [nodeOf EXCEPT ![e] = nodeOf'[e]]
      /\ \A x \in Experiments \ {e} : status'[x] = status[x]
  BY <1>1 DEF IInv, Shapes, RowsTyped
<1>6. RowIsGood(e)'
  BY <1>4 DEF RowIsGood
<1>7. /\ Shapes' /\ OnePlace' /\ RowsAreGood' /\ ReportsAreGood' /\ StopsAreGood'
      /\ CancelAnswerIsFinal'
  <2>1. status'[e] \in {"PENDING", "STARTING"} \cup Terminal
    BY <1>4 DEF Terminal
  <2> QED
    BY <1>1, <1>3, <1>4, <1>6, <2>1, RowWritten
<1>8. SchedIsGood'
  <2>1. cpUp' = cpUp /\ cpUp
    <3>1. sched # IdleSched
      BY IdleSchedFacts
    <3> QED
      BY <3>1 DEF IInv, SchedIsGood, Shapes, Flags
  <2> QED
    BY <1>3, <2>1 DEF SchedIsGood, InHand, Free
<1>9. NoPendingForgotten'
  <2>1. \A x \in Experiments : status'[x] = "PENDING" => status[x] = "PENDING"
    BY <1>4
  <2> QED
    BY <1>1, <1>3, <1>4, <2>1, HandsEmptied
<1> QED
  BY <1>7, <1>8, <1>9 DEF IInv

\* A refusal that may be retried.
LEMMA MarkPendingPreserves == IInv /\ MarkExperimentPending => IInv'
<1> SUFFICES ASSUME IInv, MarkExperimentPending PROVE IInv'
  OBVIOUS
<1>0. PICK e : e = sched.exp
  OBVIOUS
<1>1. /\ cpUp /\ sched.at = "decided" /\ sched.outcome = "retryable"
      /\ nodes' = Rollback
      /\ status' = [status EXCEPT ![e] = "PENDING"]
      /\ nodeOf' = [nodeOf EXCEPT ![e] = NoNode]
      /\ sched' = [sched EXCEPT !.at = "requeue"]
      /\ UNCHANGED <<cpUp, enqueued, stranded, queue, cancel, dispatchers, calls, run>>
      /\ faults' = faults
  BY <1>0 DEF MarkExperimentPending, RowPending, Decided, Scheduling, NoFault, SetStatus
<1>2. /\ e \in Experiments /\ sched \in Sched /\ sched.node \in Nodes
      /\ faults' \in 0..MaxFaults /\ stranded' \subseteq Experiments
  BY <1>0, <1>1, RefusedInHand, HasInHand DEF Free
<1>3. /\ sched' \in Sched /\ sched'.at = "requeue" /\ sched'.exp = e /\ sched'.node = sched.node
      /\ sched'.rest = sched.rest
  BY <1>0, <1>1, <1>2 DEF Sched, SchedStep
<1>7. /\ Shapes' /\ OnePlace' /\ RowsAreGood' /\ ReportsAreGood' /\ StopsAreGood'
      /\ CancelAnswerIsFinal'
      /\ \A x \in Experiments \ {e} : status'[x] = status[x]
  BY <1>0, <1>1, <1>2, <1>3, RowGoesBack
<1>8. SchedIsGood'
  BY <1>1, <1>2, <1>3 DEF SchedIsGood, InHand, Free
<1>9. NoPendingForgotten'
  BY <1>0, <1>1, <1>3, <1>7 DEF IInv, NoPendingForgotten, Attended
<1> QED
  BY <1>7, <1>8, <1>9 DEF IInv

\* A refusal for good.
LEMMA FailedToStartPreserves == IInv /\ MarkExperimentFailedToStart => IInv'
<1> SUFFICES ASSUME IInv, MarkExperimentFailedToStart PROVE IInv'
  OBVIOUS
<1>0. PICK e : e = sched.exp
  OBVIOUS
<1>1. /\ sched.at = "decided" /\ sched.outcome = "fatal"
      /\ nodes' = Rollback
      /\ status' = [status EXCEPT ![e] = "FAILED"] /\ nodeOf' = nodeOf
      /\ sched' = Continue
      /\ UNCHANGED <<cpUp, enqueued, stranded, queue, cancel, dispatchers, calls, run>>
      /\ faults' = faults
  BY <1>0 DEF MarkExperimentFailedToStart, RowFailed, Decided, Scheduling, NoFault, SetStatus
<1>2. faults' \in 0..MaxFaults
  BY <1>1, RefusedInHand
<1> QED
  BY <1>0, <1>1, <1>2, RowGivenUp

\* The rollback fails: the row stays STARTING, or it was written and nobody has the
\* experiment in hand any more.
LEMMA RollbackFailsPreserves == IInv /\ RollbackFails => IInv'
<1> SUFFICES ASSUME IInv, RollbackFails PROVE IInv'
  OBVIOUS
<1>0. PICK e : e = sched.exp
  OBVIOUS
<1>1. /\ cpUp /\ sched.at = "decided" /\ sched.outcome \in {"retryable", "fatal"}
      /\ nodes' = Rollback /\ sched' = Continue /\ queue' = queue
      /\ UNCHANGED <<cpUp, enqueued, queue, cancel, dispatchers, calls, run>>
      /\ Fault("sql_error")
      /\ \/ UNCHANGED <<db, stranded>>
         \/ sched.outcome = "retryable" /\ RowPending /\ stranded' = stranded \cup {e}
         \/ sched.outcome = "fatal" /\ RowFailed /\ stranded' = stranded
  BY <1>0 DEF RollbackFails, Scheduling
<1>2. /\ e \in Experiments /\ sched \in Sched /\ sched.at \notin Free /\ GoodQueue(queue)
      /\ nodes' \in R!NodeMap /\ faults' \in 0..MaxFaults /\ stranded \subseteq Experiments
      /\ status[e] = "STARTING"
  BY <1>0, <1>1, RefusedInHand, FaultsTyped DEF FaultKinds
<1>3. CASE UNCHANGED <<db, stranded>>
  BY <1>0, <1>1, <1>2, <1>3, ContinuePreserves
<1>4. CASE sched.outcome = "retryable" /\ RowPending /\ stranded' = stranded \cup {e}
  <2>1. /\ sched' \in Sched /\ sched'.rest = sched.rest /\ sched'.exp = NoExperiment
        /\ sched'.at = IF sched.rest = <<>> THEN "idle" ELSE "next"
    BY <1>1, <1>2, ContinueFacts
  <2>2. /\ status' = [status EXCEPT ![e] = "PENDING"] /\ nodeOf' = [nodeOf EXCEPT ![e] = NoNode]
        /\ stranded' \subseteq Experiments
    BY <1>0, <1>2, <1>4 DEF RowPending, SetStatus
  <2>3. /\ Shapes' /\ OnePlace' /\ RowsAreGood' /\ ReportsAreGood' /\ StopsAreGood'
        /\ CancelAnswerIsFinal'
        /\ \A x \in Experiments \ {e} : status'[x] = status[x]
    BY <1>0, <1>1, <1>2, <1>4, <2>1, <2>2, RowGoesBack
  <2>4. SchedIsGood'
    BY <1>1, <2>1 DEF SchedIsGood, InHand, Free
  <2>5. NoPendingForgotten'
    BY <1>0, <1>1, <1>2, <1>4, <2>1, <2>3, HandsEmptied
  <2> QED
    BY <2>3, <2>4, <2>5 DEF IInv
<1>5. CASE sched.outcome = "fatal" /\ RowFailed /\ stranded' = stranded
  <2>1. status' = [status EXCEPT ![e] = "FAILED"] /\ nodeOf' = nodeOf
    BY <1>0, <1>5 DEF RowFailed, SetStatus
  <2> QED
    BY <1>0, <1>1, <1>2, <1>5, <2>1, RowGivenUp
<1> QED
  BY <1>1, <1>3, <1>4, <1>5

\* The registry is read.
LEMMA ReadActivePreserves == IInv /\ ReadActiveNodes => IInv'
<1> SUFFICES ASSUME IInv, ReadActiveNodes PROVE IInv'
  OBVIOUS
<1>1. /\ cpUp /\ sched.at = "idle"
      /\ sched' = [sched EXCEPT !.at = "reconcile", !.active = R!ActiveNodeIDs(nodes)]
      /\ UNCHANGED <<db, cpUp, enqueued, stranded, queue, nodes, cancel, dispatchers, calls, run>>
      /\ faults' = faults
  BY DEF ReadActiveNodes, Scheduling, NoFault
<1>2. /\ sched \in Sched /\ nodes \in R!NodeMap /\ GoodQueue(queue) /\ faults \in 0..MaxFaults
      /\ sched.rest = <<>> /\ sched.exp = NoExperiment
  BY <1>1 DEF IInv, Shapes, MemoryTyped, RestTyped, SchedIsGood, Free
<1>3. /\ sched' \in Sched /\ sched'.at = "reconcile" /\ sched'.rest = <<>>
      /\ sched'.exp = NoExperiment
  BY <1>1, <1>2 DEF Sched, SchedStep, R!ActiveNodeIDs
<1>4. /\ Shapes' /\ OnePlace' /\ RowsAreGood' /\ ReportsAreGood' /\ StopsAreGood'
      /\ CancelAnswerIsFinal'
  BY <1>1, <1>2, <1>3, InMemory
<1>5. SchedIsGood'
  BY <1>1, <1>3 DEF SchedIsGood, InHand, Free
<1>6. NoPendingForgotten'
  BY <1>1, <1>2, <1>3 DEF IInv, NoPendingForgotten, Attended, db
<1> QED
  BY <1>4, <1>5, <1>6 DEF IInv

\* The orphans of a dispatcher that is gone fail.
LEMMA ReconcilePreserves == IInv /\ Reconcile => IInv'
<1> SUFFICES ASSUME IInv, Reconcile PROVE IInv'
  OBVIOUS
<1>1. PICK es \in SUBSET Orphans(sched.active) : MarkOrphanedExperimentsFailed(es)
  BY DEF Reconcile
<1>2. /\ cpUp /\ sched.at = "reconcile"
      /\ status' = [e \in Experiments |-> IF e \in es THEN "FAILED" ELSE status[e]]
      /\ sched' = IdleSched
      /\ UNCHANGED <<nodeOf, cpUp, enqueued, stranded, queue, nodes, cancel, calls, run>>
      /\ UNCHANGED <<up, registry, answering, running, journal, reporter>>
      /\ faults' = faults
  BY <1>1 DEF MarkOrphanedExperimentsFailed, Scheduling, NoFault, dispatchers
<1>3. \A e \in es : e \in Experiments /\ status[e] = "STARTING"
  BY <1>1 DEF Orphans
<1>4. sched.rest = <<>> /\ sched.exp = NoExperiment
  BY <1>2 DEF IInv, SchedIsGood, Free
<1>5. UNCHANGED execution
  BY <1>2 DEF execution
<1>6. Shapes'
  <2>1. Flags'
    BY <1>2 DEF IInv, Shapes, Flags
  <2>2. RowsTyped' /\ RestTyped'
    BY <1>2 DEF IInv, Shapes, RowsTyped, RestTyped, Terminal
  <2>3. MemoryTyped' /\ DispatchersTyped'
    BY <1>2, IdleSchedFacts DEF IInv, Shapes, MemoryTyped, DispatchersTyped
  <2> QED
    BY <2>1, <2>2, <2>3 DEF Shapes
<1>7. OnePlace' /\ \A e \in Experiments : Untouched(e)' = Untouched(e)
  BY <1>5, SameExecution DEF IInv
<1>8. RowsAreGood'
  <2> SUFFICES ASSUME NEW e \in Experiments PROVE RowIsGood(e)'
    BY DEF RowsAreGood
  <2>1. RowIsGood(e)
    BY DEF IInv, RowsAreGood
  <2>2. CASE e \in es
    <3>1. (status[e])' = "FAILED"
      BY <1>2, <2>2
    <3> QED
      BY <3>1 DEF RowIsGood
  <2>3. CASE e \notin es
    <3>1. (status[e])' = status[e] /\ (nodeOf[e])' = nodeOf[e] /\ (run[e])' = run[e]
      BY <1>2, <2>3
    <3> QED
      BY <1>7, <2>1, <3>1 DEF RowIsGood
  <2> QED
    BY <2>2, <2>3
<1>9. SchedIsGood'
  BY <1>2, IdleSchedFacts DEF SchedIsGood, InHand, Free
<1>10. ReportsAreGood' /\ StopsAreGood'
  BY <1>2, SameReports, SameCancels DEF IInv
<1>11. CancelAnswerIsFinal'
  BY <1>2, <1>3 DEF IInv, CancelAnswerIsFinal
<1>12. NoPendingForgotten'
  <2>1. \A e \in Experiments : status'[e] = "PENDING" => status[e] = "PENDING"
    BY <1>2
  <2>2. sched'.rest = sched.rest /\ sched.exp \notin Experiments /\ GoodQueue(queue')
    BY <1>2, <1>4, IdleSchedFacts, LifecycleAssumption DEF IInv, Shapes, MemoryTyped
  <2> QED
    BY <1>2, <2>1, <2>2, HandsEmptied
<1> QED
  BY <1>6, <1>7, <1>8, <1>9, <1>10, <1>11, <1>12 DEF IInv

-----------------------------------------------------------------------------
(* Submission, the control plane's crash and bootstrap, and cancellation. *)

\* A step in the memory of the control plane, or of the reporters.
LEMMA InControlPlane ==
    ASSUME IInv, UNCHANGED <<db, up, answering, running, journal, calls, run>>,
           Flags', MemoryTyped', registry' \in [Nodes -> D!Registry],
           reporter' \in [Nodes -> Reports], faults' \in 0..MaxFaults
    PROVE  /\ Shapes' /\ OnePlace' /\ RowsAreGood'
           /\ \A e \in Experiments : Untouched(e)' = Untouched(e)
<1>1. UNCHANGED execution /\ UNCHANGED db
  BY DEF execution
<1>2. RowsTyped' /\ RestTyped'
  BY DEF IInv, Shapes, RowsTyped, RestTyped, db
<1>3. DispatchersTyped'
  BY DEF IInv, Shapes, DispatchersTyped
<1> QED
  BY <1>1, <1>2, <1>3, SameExecution, SameRows DEF IInv, Shapes

\* What the scheduler has in hand stays good when its row and its calls are left alone.
LEMMA SchedKept ==
    ASSUME SchedIsGood, UNCHANGED <<cpUp, sched, calls, answering, run>>,
           \A e \in Experiments : status[e] = "STARTING" /\ run[e] = "never" => status'[e] = "STARTING",
           \A e \in Experiments : status[e] # "PENDING" => status'[e] # "PENDING"
    PROVE  SchedIsGood'
<1> DEFINE e == sched.exp
<1>1. sched' = sched /\ cpUp' = cpUp /\ calls' = calls /\ answering' = answering /\ run' = run
  OBVIOUS
<1>2. Untouched(e)' = Untouched(e)
  BY <1>1 DEF Untouched
<1>3. sched.at \notin Free => e \in Experiments
  BY DEF SchedIsGood
<1>4. InHand'
  BY <1>1, <1>2, <1>3 DEF SchedIsGood, InHand, Free, Untouched
<1> QED
  BY <1>1, <1>4 DEF SchedIsGood

\* SubmitExperimentBatch enqueues what is PENDING.
LEMMA SubmitPreserves == IInv /\ SubmitEnqueues => IInv'
<1> SUFFICES ASSUME IInv, SubmitEnqueues PROVE IInv'
  OBVIOUS
<1>1. /\ cpUp /\ enqueued' = TRUE /\ stranded' = {} /\ queue' = Q!EnqueueMany(queue, Schedulable)
      /\ UNCHANGED <<db, cpUp, nodes, sched, cancel, dispatchers, calls, run>>
      /\ faults' = faults
  BY DEF SubmitEnqueues, NoFault
<1>2. /\ GoodQueue(queue')
      /\ queue'.index = queue.index \cup {e \in Experiments : status[e] = "PENDING"}
  BY <1>1, SchedulableFacts, EnqueueManyFacts DEF IInv, Shapes, MemoryTyped
<1>3. Shapes' /\ OnePlace' /\ RowsAreGood'
  <2>1. Flags'
    <3>1. cpUp' = cpUp
      BY <1>1
    <3> QED
      BY <1>1, <3>1 DEF IInv, Shapes, Flags
  <2>2. MemoryTyped'
    BY <1>1, <1>2 DEF IInv, Shapes, MemoryTyped
  <2>3. /\ registry' \in [Nodes -> D!Registry] /\ reporter' \in [Nodes -> Reports]
        /\ faults' \in 0..MaxFaults
    BY <1>1 DEF IInv, Shapes, DispatchersTyped, RestTyped, dispatchers
  <2>4. UNCHANGED <<db, up, answering, running, journal, calls, run>>
    BY <1>1 DEF dispatchers
  <2> QED
    BY <2>1, <2>2, <2>3, <2>4, InControlPlane
<1>4. UNCHANGED <<status, calls, answering, run, reporter, journal, cpUp, sched, cancel>>
  BY <1>1 DEF db, dispatchers
<1>5. SchedIsGood'
  BY <1>4, SchedKept DEF IInv
<1>6. ReportsAreGood' /\ StopsAreGood' /\ CancelAnswerIsFinal'
  BY <1>4, SameReports, SameCancels DEF IInv
<1>7. NoPendingForgotten'
  <2>1. \A e \in Experiments : status'[e] = "PENDING" => e \in ToSet(queue'.items)
    BY <1>2, <1>4 DEF GoodQueue
  <2> QED
    BY <2>1 DEF NoPendingForgotten, Attended
<1> QED
  BY <1>3, <1>5, <1>6, <1>7 DEF IInv

\* Its query fails: nobody has what is PENDING.
LEMMA SubmitFailsPreserves == IInv /\ SubmitFails => IInv'
<1> SUFFICES ASSUME IInv, SubmitFails PROVE IInv'
  OBVIOUS
<1>1. /\ cpUp /\ enqueued' = TRUE /\ stranded' = ToSet(Schedulable) /\ queue' = queue
      /\ UNCHANGED <<db, cpUp, nodes, sched, cancel, dispatchers, calls, run>>
      /\ Fault("sql_error")
  BY DEF SubmitFails
<1>2. /\ GoodQueue(queue')
      /\ stranded' = {e \in Experiments : status[e] = "PENDING"}
  BY <1>1, SchedulableFacts DEF IInv, Shapes, MemoryTyped
<1>3. Shapes' /\ OnePlace' /\ RowsAreGood'
  <2>1. Flags'
    <3>1. cpUp' = cpUp
      BY <1>1
    <3> QED
      BY <1>1, <1>2, <3>1 DEF IInv, Shapes, Flags
  <2>2. MemoryTyped'
    BY <1>1, <1>2 DEF IInv, Shapes, MemoryTyped
  <2>3. /\ registry' \in [Nodes -> D!Registry] /\ reporter' \in [Nodes -> Reports]
        /\ faults' \in 0..MaxFaults
    BY <1>1, FaultsTyped DEF FaultKinds, IInv, Shapes, DispatchersTyped, RestTyped, dispatchers
  <2>4. UNCHANGED <<db, up, answering, running, journal, calls, run>>
    BY <1>1 DEF dispatchers
  <2> QED
    BY <2>1, <2>2, <2>3, <2>4, InControlPlane
<1>4. UNCHANGED <<status, calls, answering, run, reporter, journal, cpUp, sched, cancel>>
  BY <1>1 DEF db, dispatchers
<1>5. SchedIsGood'
  BY <1>4, SchedKept DEF IInv
<1>6. ReportsAreGood' /\ StopsAreGood' /\ CancelAnswerIsFinal'
  BY <1>4, SameReports, SameCancels DEF IInv
<1>7. NoPendingForgotten'
  <2>1. \A e \in Experiments : status'[e] = "PENDING" => e \in stranded'
    BY <1>2, <1>4
  <2> QED
    BY <2>1 DEF NoPendingForgotten, Attended
<1> QED
  BY <1>3, <1>5, <1>6, <1>7 DEF IInv

\* The control plane loses its memory.
LEMMA ControlPlaneCrashPreserves == IInv /\ ControlPlaneCrash => IInv'
<1> SUFFICES ASSUME IInv, ControlPlaneCrash PROVE IInv'
  OBVIOUS
<1>1. /\ Fault("control_plane_crash")
      /\ cpUp' = FALSE /\ enqueued' = TRUE /\ stranded' = {}
      /\ queue' = Q!EmptyQueue /\ nodes' = R!NoNodes /\ sched' = IdleSched
      /\ cancel' = [e \in Experiments |->
                      IF cancel[e].at \in {"pending", "removed", "stop"}
                      THEN CancelAt("refused") ELSE cancel[e]]
      /\ reporter' = [n \in Nodes |-> NoReport]
      /\ UNCHANGED <<db, up, registry, answering, running, journal, calls, run>>
  BY DEF ControlPlaneCrash
<1>2. cancel' \in [Experiments -> Cancels]
  <2>1. CancelAt("refused") \in Cancels
    BY DEF CancelAt, Cancels, CancelStep
  <2> QED
    BY <1>1, <2>1 DEF IInv, Shapes, MemoryTyped
<1>3. Shapes' /\ OnePlace' /\ RowsAreGood'
  <2>1. Flags'
    BY <1>1 DEF Flags
  <2>2. MemoryTyped'
    BY <1>1, <1>2, NoNodesType, IdleSchedFacts
       DEF MemoryTyped, GoodQueue, Q!Queue, Q!EmptyQueue, ToSet
  <2>3. registry' \in [Nodes -> D!Registry] /\ reporter' \in [Nodes -> Reports]
    BY <1>1 DEF IInv, Shapes, DispatchersTyped, Reports, NoReport
  <2>4. faults' \in 0..MaxFaults
    BY <1>1, FaultsTyped DEF FaultKinds, IInv, Shapes, RestTyped
  <2>5. UNCHANGED <<db, up, answering, running, journal, calls, run>>
    BY <1>1
  <2> QED
    BY <2>1, <2>2, <2>3, <2>4, <2>5, InControlPlane
<1>4. SchedIsGood'
  BY <1>1, IdleSchedFacts DEF SchedIsGood, InHand, Free
<1>5. ReportsAreGood'
  BY <1>1 DEF ReportsAreGood, NoReport
<1>6. StopsAreGood' /\ CancelAnswerIsFinal'
  BY <1>1 DEF IInv, StopsAreGood, CancelAnswerIsFinal, CancelAt, db
<1>7. NoPendingForgotten'
  BY <1>1 DEF NoPendingForgotten, Attended
<1> QED
  BY <1>3, <1>4, <1>5, <1>6, <1>7 DEF IInv

\* Bootstrap enqueues what it lists of what is PENDING.
LEMMA ControlPlaneStartPreserves == IInv /\ ControlPlaneStart => IInv'
<1> SUFFICES ASSUME IInv, ControlPlaneStart PROVE IInv'
  OBVIOUS
<1>1. /\ cpUp' = TRUE /\ queue' = Q!EnqueueMany(Q!EmptyQueue, Listed)
      /\ stranded' = ToSet(Schedulable) \ ToSet(Listed)
      /\ UNCHANGED <<db, enqueued, nodes, sched, cancel, dispatchers, calls, run>>
      /\ faults' = faults /\ ~cpUp
  BY DEF ControlPlaneStart, NoFault
<1>2. GoodQueue(queue') /\ queue'.index = ToSet(Listed)
  <2>1. GoodQueue(Q!EmptyQueue) /\ Q!EmptyQueue.index = {}
    BY DEF GoodQueue, Q!Queue, Q!EmptyQueue, ToSet
  <2>2. PICK xs : xs = Listed
    OBVIOUS
  <2>3. PICK q : q = Q!EmptyQueue
    OBVIOUS
  <2>4. xs \in Seq(Experiments) /\ GoodQueue(q) /\ q.index = {}
    BY <2>1, <2>2, <2>3, ListedFacts
  <2>5. GoodQueue(Q!EnqueueMany(q, xs)) /\ Q!EnqueueMany(q, xs).index = q.index \cup ToSet(xs)
    BY <2>4, EnqueueManyFacts
  <2>6. queue' = Q!EnqueueMany(q, xs)
    BY <1>1, <2>2, <2>3
  <2>7. GoodQueue(queue') /\ queue'.index = ToSet(xs)
    BY <2>4, <2>5, <2>6
  <2> QED
    BY <2>2, <2>7
<1>3. Shapes' /\ OnePlace' /\ RowsAreGood'
  <2>1. Flags'
    <3>1. enqueued' = enqueued
      BY <1>1
    <3>2. stranded' \subseteq Experiments
      BY <1>1, SchedulableFacts
    <3> QED
      BY <1>1, <3>1, <3>2 DEF IInv, Shapes, Flags
  <2>2. MemoryTyped'
    BY <1>1, <1>2 DEF IInv, Shapes, MemoryTyped
  <2>3. /\ registry' \in [Nodes -> D!Registry] /\ reporter' \in [Nodes -> Reports]
        /\ faults' \in 0..MaxFaults
    BY <1>1 DEF IInv, Shapes, DispatchersTyped, RestTyped, dispatchers
  <2>4. UNCHANGED <<db, up, answering, running, journal, calls, run>>
    BY <1>1 DEF dispatchers
  <2> QED
    BY <2>1, <2>2, <2>3, <2>4, InControlPlane
<1>4. UNCHANGED <<status, calls, answering, run, reporter, journal, cancel>>
  BY <1>1 DEF db, dispatchers
<1>5. SchedIsGood'
  <2>1. sched' = IdleSched
    BY <1>1 DEF IInv, SchedIsGood
  <2> QED
    BY <1>1, <2>1, IdleSchedFacts DEF SchedIsGood, InHand, Free
<1>6. ReportsAreGood' /\ StopsAreGood' /\ CancelAnswerIsFinal'
  BY <1>4, SameReports, SameCancels DEF IInv
<1>7. NoPendingForgotten'
  <2>1. ToSet(queue'.items) = ToSet(Listed)
    BY <1>2 DEF GoodQueue, Q!Queue
  <2>2. \A e \in Experiments : status'[e] = "PENDING" => e \in ToSet(Schedulable)
    BY <1>4, SchedulableFacts
  <2>3. \A e \in ToSet(Schedulable) : e \in ToSet(queue'.items) \/ e \in stranded'
    BY <1>1, <2>1
  <2> HIDE DEF Listed
  <2> QED
    BY <2>2, <2>3 DEF NoPendingForgotten, Attended
<1> QED
  BY <1>3, <1>5, <1>6, <1>7 DEF IInv

\* A step of a cancellation that writes no row: the experiment stays in the hands it is in,
\* or the cancellation has it now.
LEMMA CancelMoves ==
    ASSUME IInv, NEW e \in Experiments, NEW c \in Cancels,
           cancel' = [cancel EXCEPT ![e] = c],
           stranded \subseteq stranded', stranded' \subseteq Experiments,
           UNCHANGED <<db, cpUp, enqueued, sched, up, answering, running, journal, reporter,
                       calls, run>>,
           registry' \in [Nodes -> D!Registry], faults' \in 0..MaxFaults,
           GoodQueue(queue'), nodes' \in R!NodeMap,
           c.at # "canceled", c.at = "stop" => c.node \in Nodes,
           queue.index \subseteq queue'.index \cup {e},
           \/ c.at = "removed" \/ status[e] # "PENDING" \/ e \in stranded'
           \/ (cancel[e].at # "removed" \/ Attended(e)) /\ queue' = queue
    PROVE  IInv'
<1>1. /\ cancel' \in [Experiments -> Cancels] /\ cancel'[e] = c
      /\ \A x \in Experiments \ {e} : cancel'[x] = cancel[x]
  BY DEF IInv, Shapes, MemoryTyped
<1>2. Shapes' /\ OnePlace' /\ RowsAreGood'
  <2>1. Flags'
    <3>1. enqueued' = enqueued /\ cpUp' = cpUp
      OBVIOUS
    <3> QED
      BY <3>1 DEF IInv, Shapes, Flags
  <2>2. MemoryTyped'
    BY <1>1 DEF IInv, Shapes, MemoryTyped
  <2>3. reporter' \in [Nodes -> Reports]
    BY DEF IInv, Shapes, DispatchersTyped
  <2> QED
    BY <2>1, <2>2, <2>3, InControlPlane
<1>3. UNCHANGED status
  BY DEF db
<1>4. SchedIsGood' /\ ReportsAreGood'
  BY <1>3, SchedKept, SameReports DEF IInv
<1>5. StopsAreGood' /\ CancelAnswerIsFinal'
  BY <1>1, <1>3 DEF IInv, StopsAreGood, CancelAnswerIsFinal
<1>6. NoPendingForgotten'
  <2> SUFFICES ASSUME cpUp, enqueued, NEW x \in Experiments, status[x] = "PENDING"
               PROVE  StillKept(x)'
    BY <1>3, KeptMeansNotForgotten
  <2>1. StillKept(x)
    BY KeptMeansNotForgotten DEF IInv
  <2>2. ToSet(queue.items) = queue.index /\ ToSet(queue'.items) = queue'.index
    BY DEF IInv, Shapes, MemoryTyped, GoodQueue
  <2>3. CASE x = e
    BY <1>1, <2>1, <2>2, <2>3 DEF StillKept, Attended
  <2>4. CASE x # e
    BY <1>1, <2>1, <2>2, <2>4 DEF StillKept
  <2> QED
    BY <2>3, <2>4
<1> QED
  BY <1>2, <1>4, <1>5, <1>6 DEF IInv

\* The states of a cancellation.
LEMMA CancelAtFacts ==
    ASSUME NEW at \in CancelStep
    PROVE  CancelAt(at) \in Cancels /\ CancelAt(at).at = at
  BY DEF CancelAt, Cancels

\* The row is read.
LEMMA GetForCancelPreserves ==
    ASSUME IInv, NEW e \in Experiments, GetExperimentForCancel(e) PROVE IInv'
<1>1. /\ cpUp /\ cancel[e].at = "idle"
      /\ nodes' = IF status[e] = "STARTING" THEN R!AfterGet(nodes, nodeOf[e]) ELSE nodes
      /\ UNCHANGED <<db, cpUp, enqueued, stranded, queue, sched, dispatchers, calls, run>>
      /\ faults' = faults
  BY DEF GetExperimentForCancel, Canceling, NoFault
<1>2. /\ nodes' \in R!NodeMap /\ GoodQueue(queue') /\ queue' = queue
      /\ registry' \in [Nodes -> D!Registry] /\ faults' \in 0..MaxFaults
      /\ UNCHANGED <<up, answering, running, journal, reporter>>
  <2>1. nodes' \in R!NodeMap
    BY <1>1, EvictType DEF R!AfterGet, IInv, Shapes, MemoryTyped
  <2> QED
    BY <1>1, <2>1 DEF IInv, Shapes, MemoryTyped, DispatchersTyped, RestTyped, dispatchers
<1>3. PICK c \in Cancels : /\ cancel' = [cancel EXCEPT ![e] = c]
                           /\ c.at \in {"pending", "stop", "already_canceled", "refused"}
                           /\ c.at = "stop" => c.node \in Nodes
  <2>1. CASE status[e] = "PENDING"
    <3>1. cancel' = [cancel EXCEPT ![e] = CancelAt("pending")]
      BY <2>1 DEF GetExperimentForCancel, CancelTo
    <3> QED
      BY <3>1, CancelAtFacts DEF CancelStep
  <2>2. CASE status[e] = "STARTING" /\ R!Fresh(nodes, nodeOf[e])
    <3>1. nodeOf[e] \in Nodes
      BY <2>2 DEF IInv, RowsAreGood, RowIsGood
    <3>2. cancel' = [cancel EXCEPT ![e] = [at |-> "stop", node |-> nodeOf[e]]]
      BY <2>2 DEF GetExperimentForCancel
    <3> DEFINE c == [at |-> "stop", node |-> nodeOf[e]]
    <3>3. c \in Cancels /\ c.at = "stop" /\ c.node \in Nodes
      BY <3>1 DEF Cancels, CancelStep
    <3> HIDE DEF c
    <3>4. cancel' = [cancel EXCEPT ![e] = c]
      BY <3>2 DEF c
    <3> QED
      BY <3>3, <3>4
  <2>3. CASE status[e] = "CANCELED"
    <3>1. cancel' = [cancel EXCEPT ![e] = CancelAt("already_canceled")]
      BY <2>3 DEF GetExperimentForCancel, CancelTo
    <3> QED
      BY <3>1, CancelAtFacts DEF CancelStep
  <2>4. CASE /\ status[e] \notin {"PENDING", "CANCELED"}
             /\ ~(status[e] = "STARTING" /\ R!Fresh(nodes, nodeOf[e]))
    <3>1. cancel' = [cancel EXCEPT ![e] = CancelAt("refused")]
      BY <2>4 DEF GetExperimentForCancel, CancelTo
    <3> QED
      BY <3>1, CancelAtFacts DEF CancelStep
  <2> QED
    BY <2>1, <2>2, <2>3, <2>4
<1>4. /\ c.at # "canceled" /\ cancel[e].at # "removed"
      /\ stranded' = stranded /\ stranded \subseteq Experiments
  BY <1>1, <1>3 DEF IInv, Shapes, Flags
<1> QED
  BY <1>1, <1>2, <1>3, <1>4, CancelMoves

\* The record leaves the queue.
LEMMA RemoveFromQueuePreserves ==
    ASSUME IInv, NEW e \in Experiments, RemoveFromQueue(e) PROVE IInv'
<1>1. /\ queue' = Q!RemoveKey(queue, e) /\ cancel' = [cancel EXCEPT ![e] = CancelAt("removed")]
      /\ UNCHANGED <<db, cpUp, enqueued, stranded, nodes, sched, dispatchers, calls, run>>
      /\ faults' = faults
  BY DEF RemoveFromQueue, CancelTo, NoFault
<1>2. GoodQueue(queue') /\ queue'.index = queue.index \ {e}
  BY <1>1, RemoveFacts DEF IInv, Shapes, MemoryTyped
<1>3. /\ nodes' \in R!NodeMap /\ registry' \in [Nodes -> D!Registry] /\ faults' \in 0..MaxFaults
      /\ UNCHANGED <<up, answering, running, journal, reporter>>
      /\ stranded' = stranded /\ stranded \subseteq Experiments
  BY <1>1 DEF IInv, Shapes, Flags, MemoryTyped, DispatchersTyped, RestTyped, dispatchers
<1>4. CancelAt("removed") \in Cancels /\ CancelAt("removed").at = "removed"
  BY CancelAtFacts DEF CancelStep
<1> QED
  BY <1>1, <1>2, <1>3, <1>4, CancelMoves

\* The node is told to stop it.
LEMMA StopPreserves ==
    ASSUME IInv, NEW e \in Experiments, StopExperiment(e) PROVE IInv'
<1>0. PICK n : n = cancel[e].node
  OBVIOUS
<1>1. /\ cancel[e].at = "stop"
      /\ registry' = IF up[n] /\ D!CanCancel(registry[n], e)
                     THEN [registry EXCEPT ![n] = D!Cancel(@, e)] ELSE registry
      /\ cancel' = [cancel EXCEPT ![e] = CancelAt("refused")]
      /\ UNCHANGED <<db, cpUp, enqueued, stranded, queue, nodes, sched,
                     up, answering, running, journal, reporter, calls, run>>
      /\ faults' = faults
  BY <1>0 DEF StopExperiment, Canceling, CancelTo, NoFault
<1>2. n \in Nodes
  BY <1>0, <1>1 DEF IInv, StopsAreGood
<1>3. registry' \in [Nodes -> D!Registry]
  BY <1>1, <1>2, CancelFacts DEF IInv, Shapes, DispatchersTyped
<1>4. /\ nodes' \in R!NodeMap /\ GoodQueue(queue') /\ queue' = queue /\ faults' \in 0..MaxFaults
      /\ stranded' = stranded /\ stranded \subseteq Experiments
  BY <1>1 DEF IInv, Shapes, Flags, MemoryTyped, RestTyped
<1>5. CancelAt("refused") \in Cancels /\ CancelAt("refused").at = "refused"
  BY CancelAtFacts DEF CancelStep
<1> QED
  BY <1>1, <1>3, <1>4, <1>5, CancelMoves

\* The row of a pending experiment becomes CANCELED, whatever the answer is.
LEMMA RowCanceled ==
    ASSUME IInv, NEW e \in Experiments, cancel[e].at = "removed", status[e] = "PENDING",
           NEW at \in {"canceled", "failed"},
           status' = [status EXCEPT ![e] = "CANCELED"],
           cancel' = [cancel EXCEPT ![e] = CancelAt(at)],
           UNCHANGED <<nodeOf, cpUp, enqueued, stranded, queue, nodes, sched, calls, run>>,
           UNCHANGED <<up, registry, answering, running, journal, reporter>>,
           faults' \in 0..MaxFaults
    PROVE  IInv'
<1>2. /\ status'[e] = "CANCELED" /\ \A x \in Experiments \ {e} : status'[x] = status[x]
      /\ CancelAt(at) \in Cancels /\ CancelAt(at).at = at
  BY CancelAtFacts DEF CancelStep, IInv, Shapes, RowsTyped
<1>3. /\ cancel' \in [Experiments -> Cancels] /\ cancel'[e].at = at
      /\ \A x \in Experiments \ {e} : cancel'[x] = cancel[x]
  BY <1>2 DEF IInv, Shapes, MemoryTyped
<1>4. OnePlace' /\ \A x \in Experiments : Untouched(x)' = Untouched(x)
  BY SameExecution DEF execution, IInv
<1>5. Untouched(e)
  BY DEF IInv, RowsAreGood, RowIsGood
<1>6. Shapes'
  <2>1. Flags'
    BY DEF IInv, Shapes, Flags
  <2>2. RowsTyped' /\ RestTyped'
    BY DEF IInv, Shapes, RowsTyped, RestTyped, Terminal
  <2>3. MemoryTyped' /\ DispatchersTyped'
    BY <1>3 DEF IInv, Shapes, MemoryTyped, DispatchersTyped
  <2> QED
    BY <2>1, <2>2, <2>3 DEF Shapes
<1>7. RowsAreGood'
  <2> SUFFICES ASSUME NEW x \in Experiments PROVE RowIsGood(x)'
    BY DEF RowsAreGood
  <2>1. CASE x = e
    BY <1>2, <1>4, <1>5, <2>1 DEF RowIsGood
  <2>2. CASE x # e
    BY <1>2, <1>4, <2>2 DEF IInv, RowsAreGood, RowIsGood
  <2> QED
    BY <2>1, <2>2
<1>8. SchedIsGood'
  <2>1. \A x \in Experiments : status[x] = "STARTING" /\ run[x] = "never" => status'[x] = "STARTING"
    BY <1>2
  <2>2. \A x \in Experiments : status[x] # "PENDING" => status'[x] # "PENDING"
    BY <1>2
  <2> QED
    BY <2>1, <2>2, SchedKept DEF IInv
<1>9. ReportsAreGood' /\ StopsAreGood'
  BY <1>3, SameReports DEF IInv, StopsAreGood
<1>10. CancelAnswerIsFinal'
  BY <1>2, <1>3, <1>5 DEF IInv, CancelAnswerIsFinal, Untouched
<1>11. NoPendingForgotten'
  BY <1>2, <1>3 DEF IInv, NoPendingForgotten, Attended
<1> QED
  BY <1>4, <1>6, <1>7, <1>8, <1>9, <1>10, <1>11 DEF IInv

\* The statement fails, whether or not the row was written.
LEMMA CancelFailsPreserves ==
    ASSUME IInv, NEW e \in Experiments, CancelFails(e) PROVE IInv'
<1>1. /\ cancel[e].at = "removed"
      /\ cancel' = [cancel EXCEPT ![e] = CancelAt("failed")] /\ Fault("sql_error")
      /\ \/ /\ status' = status
            /\ stranded' = IF status[e] = "PENDING" /\ ~Attended(e)
                           THEN stranded \cup {e} ELSE stranded
         \/ /\ status[e] = "PENDING" /\ status' = [status EXCEPT ![e] = "CANCELED"]
            /\ stranded' = stranded
      /\ UNCHANGED <<nodeOf, cpUp, enqueued, queue, nodes, sched, calls, run>>
      /\ UNCHANGED <<up, registry, answering, running, journal, reporter>>
  BY DEF CancelFails, Canceling, CancelTo, SetStatus, dispatchers
<1>2. faults' \in 0..MaxFaults
  BY <1>1, FaultsTyped DEF FaultKinds, IInv, Shapes, RestTyped
<1>3. /\ nodes' \in R!NodeMap /\ registry' \in [Nodes -> D!Registry] /\ GoodQueue(queue')
      /\ queue' = queue /\ stranded \subseteq Experiments
  BY <1>1 DEF IInv, Shapes, Flags, MemoryTyped, DispatchersTyped
<1>4. CancelAt("failed") \in Cancels /\ CancelAt("failed").at = "failed"
  BY CancelAtFacts DEF CancelStep
<1>5. CASE /\ status' = status
           /\ stranded' = IF status[e] = "PENDING" /\ ~Attended(e)
                          THEN stranded \cup {e} ELSE stranded
  <2>1. UNCHANGED db
    BY <1>1, <1>5 DEF db
  <2>2. /\ stranded \subseteq stranded' /\ stranded' \subseteq Experiments
        /\ status[e] # "PENDING" \/ e \in stranded' \/ Attended(e)
    BY <1>3, <1>5
  <2> QED
    BY <1>1, <1>2, <1>3, <1>4, <2>1, <2>2, CancelMoves
<1>6. CASE /\ status[e] = "PENDING" /\ status' = [status EXCEPT ![e] = "CANCELED"]
           /\ stranded' = stranded
  BY <1>1, <1>2, <1>6, RowCanceled
<1> QED
  BY <1>1, <1>5, <1>6

\* UPDATE ... SET CANCELED WHERE status = PENDING.
LEMMA MarkCanceledPreserves ==
    ASSUME IInv, NEW e \in Experiments, MarkPendingExperimentCanceled(e) PROVE IInv'
<1>1. /\ cancel[e].at = "removed"
      /\ IF status[e] = "PENDING"
         THEN /\ status' = [status EXCEPT ![e] = "CANCELED"]
              /\ cancel' = [cancel EXCEPT ![e] = CancelAt("canceled")]
         ELSE status' = status /\ cancel' = [cancel EXCEPT ![e] = CancelAt("refused")]
      /\ UNCHANGED <<nodeOf, cpUp, enqueued, stranded, queue, nodes, sched, calls, run>>
      /\ UNCHANGED <<up, registry, answering, running, journal, reporter>>
      /\ faults' = faults
  BY DEF MarkPendingExperimentCanceled, Canceling, SetStatus, CancelTo, NoFault, dispatchers
<1>2. /\ nodes' \in R!NodeMap /\ GoodQueue(queue') /\ queue' = queue /\ faults' \in 0..MaxFaults
      /\ registry' \in [Nodes -> D!Registry]
      /\ stranded' = stranded /\ stranded \subseteq Experiments
  BY <1>1 DEF IInv, Shapes, Flags, MemoryTyped, RestTyped, DispatchersTyped
<1>3. CASE status[e] # "PENDING"
  <2>1. CancelAt("refused") \in Cancels /\ CancelAt("refused").at = "refused"
    BY CancelAtFacts DEF CancelStep
  <2>2. UNCHANGED db
    BY <1>1, <1>3 DEF db
  <2> QED
    BY <1>1, <1>2, <1>3, <2>1, <2>2, CancelMoves
<1>4. CASE status[e] = "PENDING"
  <2>1. /\ status' = [status EXCEPT ![e] = "CANCELED"]
        /\ cancel' = [cancel EXCEPT ![e] = CancelAt("canceled")]
    BY <1>1, <1>4
  <2> QED
    BY <1>1, <1>2, <1>4, <2>1, RowCanceled
<1> QED
  BY <1>3, <1>4

-----------------------------------------------------------------------------
(* The dispatchers' handlers and runs. *)

\* An answer moves the scheduler only when it waits for it.
LEMMA ReplyFacts ==
    ASSUME sched \in Sched, NEW e \in Experiments, NEW n \in Nodes, NEW outcome \in Outcomes,
           Reply(e, n, outcome)
    PROVE  /\ sched' \in Sched /\ sched'.rest = sched.rest
           /\ sched'.exp = sched.exp /\ sched'.node = sched.node
           /\ \/ /\ cpUp /\ sched.at = "waiting" /\ sched.exp = e /\ sched.node = n
                 /\ sched'.at = "decided" /\ sched'.outcome = outcome
              \/ /\ ~(sched.at = "waiting" /\ cpUp /\ sched.exp = e /\ sched.node = n)
                 /\ sched' = sched
<1>1. CASE cpUp /\ sched.at = "waiting" /\ sched.exp = e /\ sched.node = n
  <2>1. sched' = [sched EXCEPT !.at = "decided", !.outcome = outcome]
    BY <1>1 DEF Reply, Scheduling
  <2> QED
    BY <1>1, <2>1 DEF Sched, SchedStep
<1>2. CASE ~(sched.at = "waiting" /\ cpUp /\ sched.exp = e /\ sched.node = n)
  BY <1>2 DEF Reply, Scheduling
<1> QED
  BY <1>1, <1>2

\* A step of a dispatcher that may answer the scheduler.
LEMMA AtTheDispatcher ==
    ASSUME IInv, UNCHANGED <<status, nodeOf, cpUp, enqueued, stranded, queue, nodes, cancel, up>>,
           sched' \in Sched, sched'.rest = sched.rest, sched'.exp = sched.exp,
           DispatchersTyped', RestTyped'
    PROVE  Shapes' /\ StopsAreGood' /\ NoPendingForgotten'
<1>1. Flags'
  <2>1. enqueued' = enqueued /\ stranded' = stranded /\ cpUp' = cpUp
    OBVIOUS
  <2> QED
    BY <2>1 DEF IInv, Shapes, Flags
<1>2. RowsTyped' /\ MemoryTyped'
  BY DEF IInv, Shapes, RowsTyped, MemoryTyped
<1>3. NoPendingForgotten'
  BY DEF IInv, NoPendingForgotten, Attended
<1> QED
  BY <1>1, <1>2, <1>3, SameCancels DEF IInv, Shapes

\* A start is refused.
LEMMA CallRefusedPreserves ==
    ASSUME IInv, NEW e \in Experiments, NEW n \in Nodes, CallRefused(e, n) PROVE IInv'
<1>1. PICK outcome \in {"fatal", "already_running", "retryable"} : Reply(e, n, outcome)
  <2>1. \A code : OutcomeOf(code) \in {"already_running", "retryable"}
    BY DEF OutcomeOf
  <2> QED
    BY <2>1 DEF CallRefused
<1>2. /\ <<e, n>> \in calls /\ calls' = calls \ {<<e, n>>}
      /\ UNCHANGED <<status, nodeOf, cpUp, enqueued, stranded, queue, nodes, cancel, up>>
      /\ UNCHANGED <<registry, answering, running, journal, reporter, run>>
      /\ faults' = faults
  BY DEF CallRefused, NoFault, db, dispatchers
<1>3. /\ sched' \in Sched /\ sched'.rest = sched.rest
      /\ sched'.exp = sched.exp /\ sched'.node = sched.node
      /\ \/ /\ cpUp /\ sched.at = "waiting" /\ sched.exp = e /\ sched.node = n
            /\ sched'.at = "decided" /\ sched'.outcome = outcome
         \/ /\ ~(sched.at = "waiting" /\ cpUp /\ sched.exp = e /\ sched.node = n)
            /\ sched' = sched
  <2>1. outcome \in Outcomes /\ sched \in Sched
    BY DEF Outcomes, IInv, Shapes, MemoryTyped
  <2> QED
    BY <1>1, <2>1, ReplyFacts
<1>4. Shapes' /\ StopsAreGood' /\ NoPendingForgotten'
  <2>1. DispatchersTyped' /\ RestTyped'
    BY <1>2 DEF IInv, Shapes, DispatchersTyped, RestTyped
  <2> QED
    BY <1>2, <1>3, <2>1, AtTheDispatcher
<1>5. InOnePlace(e, n)
  BY DEF IInv, OnePlace
<1>6. OnePlace' /\ RowsAreGood'
  <2>1. ASSUME NEW x \in Experiments, NEW m \in Nodes PROVE InOnePlace(x, m)'
    BY <1>2 DEF IInv, OnePlace, InOnePlace
  <2>2. ASSUME NEW x \in Experiments PROVE RowIsGood(x)'
    <3>1. RowIsGood(x)
      BY DEF IInv, RowsAreGood
    <3> QED
      BY <1>2, <3>1 DEF RowIsGood, Untouched
  <2> QED
    BY <2>1, <2>2 DEF OnePlace, RowsAreGood
<1>7. SchedIsGood'
  <2>1. CASE sched' = sched
    <3>1. SchedIsGood
      BY DEF IInv
    <3>2. InHand'
      BY <1>2, <2>1, <3>1 DEF SchedIsGood, InHand, Untouched
    <3> QED
      BY <1>2, <2>1, <3>1, <3>2 DEF SchedIsGood
  <2>2. CASE /\ cpUp /\ sched.at = "waiting" /\ sched.exp = e /\ sched.node = n
             /\ sched'.at = "decided" /\ sched'.outcome = outcome
    <3>1. /\ status[e] = "STARTING" /\ run[e] = "never"
          /\ \A m \in Nodes \ {n} : <<e, m>> \notin calls
      BY <2>2 DEF IInv, SchedIsGood, InHand
    <3>2. Untouched(e)'
      BY <1>2, <1>5, <3>1 DEF InOnePlace, Untouched
    <3>3. InHand'
      BY <1>2, <1>3, <2>2, <3>1, <3>2 DEF InHand, Untouched
    <3> QED
      BY <1>2, <1>3, <2>2, <3>3 DEF SchedIsGood, Free
  <2> QED
    BY <1>3, <2>1, <2>2
<1>8. ReportsAreGood' /\ CancelAnswerIsFinal'
  BY <1>2, SameReports, SameCancels DEF IInv
<1> QED
  BY <1>4, <1>6, <1>7, <1>8 DEF IInv

\* A start is admitted: from the call to its handler.
LEMMA CallAdmittedPreserves ==
    ASSUME IInv, NEW e \in Experiments, NEW n \in Nodes, CallAdmitted(e, n) PROVE IInv'
<1>1. /\ <<e, n>> \in calls /\ calls' = calls \ {<<e, n>>}
      /\ registry' = [registry EXCEPT ![n] = D!SetCancel(D!TryStart(@, e, 0), e, e)]
      /\ answering' = [answering EXCEPT ![n] = @ \cup {e}]
      /\ UNCHANGED <<status, nodeOf, cpUp, enqueued, stranded, queue, nodes, cancel, up>>
      /\ UNCHANGED <<sched, running, journal, reporter, run>>
      /\ faults' = faults
  BY DEF CallAdmitted, NoFault, db, cp
<1>2. /\ answering'[n] = answering[n] \cup {e}
      /\ \A m \in Nodes \ {n} : answering'[m] = answering[m]
  BY <1>1 DEF IInv, Shapes, DispatchersTyped
<1>3. Shapes' /\ StopsAreGood' /\ NoPendingForgotten'
  <2>1. registry' \in [Nodes -> D!Registry]
    BY <1>1, StartFacts DEF IInv, Shapes, DispatchersTyped
  <2>2. DispatchersTyped' /\ RestTyped'
    BY <1>1, <2>1 DEF IInv, Shapes, DispatchersTyped, RestTyped
  <2>3. sched' \in Sched
    BY <1>1 DEF IInv, Shapes, MemoryTyped
  <2> QED
    BY <1>1, <2>2, <2>3, AtTheDispatcher
<1>4. /\ run[e] = "never" /\ \A m \in Nodes : e \notin answering[m]
      /\ \A m \in Nodes : <<e, m>> \in calls => m = n
  BY <1>1 DEF IInv, OnePlace, InOnePlace
<1>5. \A x \in Experiments \ {e} : Untouched(x)' = Untouched(x)
  BY <1>1, <1>2 DEF Untouched
<1>6. ~Untouched(e)
  BY <1>1 DEF Untouched
<1>7. OnePlace'
  <2> SUFFICES ASSUME NEW x \in Experiments, NEW m \in Nodes PROVE InOnePlace(x, m)'
    BY DEF OnePlace
  <2>1. InOnePlace(x, m)
    BY DEF IInv, OnePlace
  <2>2. CASE x = e
    BY <1>1, <1>2, <1>4, <2>1, <2>2 DEF InOnePlace
  <2>3. CASE x # e
    BY <1>1, <1>2, <2>1, <2>3 DEF InOnePlace
  <2> QED
    BY <2>2, <2>3
<1>8. RowsAreGood'
  <2> SUFFICES ASSUME NEW x \in Experiments PROVE RowIsGood(x)'
    BY DEF RowsAreGood
  <2>1. RowIsGood(x)
    BY DEF IInv, RowsAreGood
  <2>2. CASE x = e
    BY <1>1, <1>6, <2>1, <2>2 DEF RowIsGood
  <2>3. CASE x # e
    BY <1>1, <1>5, <2>1, <2>3 DEF RowIsGood
  <2> QED
    BY <2>2, <2>3
<1>9. SchedIsGood'
  <2>0. SchedIsGood
    BY DEF IInv
  <2>1. sched.at \notin Free => sched.exp \in Experiments
    BY <2>0 DEF SchedIsGood
  <2>2. CASE sched.exp = e
    <3>1. /\ sched.at # "call" /\ ~(sched.at = "decided" /\ sched.outcome \in {"retryable", "fatal"})
      BY <1>6, <2>0, <2>2 DEF SchedIsGood, InHand
    <3>2. sched.at = "waiting" => sched.node = n
      BY <1>1, <2>0, <2>2 DEF SchedIsGood, InHand
    <3>3. InHand'
      BY <1>1, <1>2, <2>0, <2>2, <3>1, <3>2 DEF SchedIsGood, InHand
    <3> QED
      BY <1>1, <2>0, <3>3 DEF SchedIsGood
  <2>3. CASE sched.exp # e
    <3>1. InHand'
      BY <1>1, <1>2, <1>5, <2>0, <2>1, <2>3 DEF SchedIsGood, InHand, Free
    <3> QED
      BY <1>1, <2>0, <3>1 DEF SchedIsGood
  <2> QED
    BY <2>2, <2>3
<1>10. ReportsAreGood' /\ CancelAnswerIsFinal'
  BY <1>1, SameReports, SameCancels DEF IInv
<1> QED
  BY <1>3, <1>7, <1>8, <1>9, <1>10 DEF IInv

\* What is being answered was asked for, and has not been launched.
LEMMA BeingAnswered ==
    ASSUME IInv, NEW e \in Experiments, NEW n \in Nodes, e \in answering[n]
    PROVE  /\ run[e] = "never" /\ ~Untouched(e) /\ status[e] \in {"STARTING", "FAILED"}
           /\ \A m \in Nodes : <<e, m>> \notin calls /\ e \notin running[m] /\ journal[m][e] = "none"
           /\ \A m \in Nodes \ {n} : e \notin answering[m]
           /\ cancel[e].at # "canceled"
<1>1. run[e] = "never" /\ \A m \in Nodes \ {n} : e \notin answering[m]
  BY DEF IInv, OnePlace, InOnePlace
<1>2. ~Untouched(e)
  BY DEF Untouched
<1>3. status[e] \in {"STARTING", "FAILED"}
  BY <1>1, <1>2 DEF IInv, RowsAreGood, RowIsGood, Shapes, RowsTyped, Terminal
<1>4. \A m \in Nodes : <<e, m>> \notin calls /\ e \notin running[m]
  BY <1>1 DEF IInv, OnePlace, InOnePlace
<1>5. ASSUME NEW m \in Nodes PROVE journal[m][e] = "none"
  <2>1. journal[m][e] # "never"
    BY DEF IInv, Shapes, DispatchersTyped, Terminal
  <2>2. journal[m][e] # "none" => run[e] = journal[m][e]
    BY DEF IInv, OnePlace, InOnePlace
  <2> QED
    BY <1>1, <2>1, <2>2
<1>6. cancel[e].at # "canceled"
  BY <1>3 DEF IInv, CancelAnswerIsFinal
<1> QED
  BY <1>1, <1>2, <1>3, <1>4, <1>5, <1>6

\* The hand-off to a worker: from the handler to a run.
LEMMA HandOffPreserves ==
    ASSUME IInv, NEW e \in Experiments, NEW n \in Nodes, HandOff(e, n) PROVE IInv'
<1>1. /\ e \in answering[n]
      /\ answering' = [answering EXCEPT ![n] = @ \ {e}]
      /\ running' = [running EXCEPT ![n] = @ \cup {e}]
      /\ registry' = [registry EXCEPT ![n] = D!SetStatus(@, e, "RUNNING")]
      /\ run' = [run EXCEPT ![e] = "running"]
      /\ Reply(e, n, "accepted")
      /\ UNCHANGED <<status, nodeOf, cpUp, enqueued, stranded, queue, nodes, cancel, up>>
      /\ UNCHANGED <<journal, reporter, calls>>
      /\ faults' = faults
  BY DEF HandOff, NoFault, db
<1>2. /\ run[e] = "never" /\ ~Untouched(e) /\ status[e] \in {"STARTING", "FAILED"}
      /\ \A m \in Nodes : <<e, m>> \notin calls /\ e \notin running[m] /\ journal[m][e] = "none"
      /\ \A m \in Nodes \ {n} : e \notin answering[m]
      /\ cancel[e].at # "canceled"
  BY <1>1, BeingAnswered
<1>3. /\ answering'[n] = answering[n] \ {e} /\ \A m \in Nodes \ {n} : answering'[m] = answering[m]
      /\ running'[n] = running[n] \cup {e} /\ \A m \in Nodes \ {n} : running'[m] = running[m]
      /\ run'[e] = "running" /\ \A x \in Experiments \ {e} : run'[x] = run[x]
  BY <1>1 DEF IInv, Shapes, DispatchersTyped, RestTyped
<1>4. /\ sched' \in Sched /\ sched'.rest = sched.rest
      /\ sched'.exp = sched.exp /\ sched'.node = sched.node
      /\ \/ /\ cpUp /\ sched.at = "waiting" /\ sched.exp = e /\ sched.node = n
            /\ sched'.at = "decided" /\ sched'.outcome = "accepted"
         \/ /\ ~(sched.at = "waiting" /\ cpUp /\ sched.exp = e /\ sched.node = n)
            /\ sched' = sched
  <2>1. "accepted" \in Outcomes /\ sched \in Sched
    BY DEF Outcomes, IInv, Shapes, MemoryTyped
  <2> QED
    BY <1>1, <2>1, ReplyFacts
<1>5. Shapes' /\ StopsAreGood' /\ NoPendingForgotten'
  <2>1. registry' \in [Nodes -> D!Registry]
    BY <1>1, SetStatusFacts DEF IInv, Shapes, DispatchersTyped
  <2>2. DispatchersTyped' /\ RestTyped'
    BY <1>1, <2>1 DEF IInv, Shapes, DispatchersTyped, RestTyped
  <2> QED
    BY <1>1, <1>4, <2>2, AtTheDispatcher
<1>6. \A x \in Experiments \ {e} : Untouched(x)' = Untouched(x)
  BY <1>1, <1>3 DEF Untouched
<1>7. OnePlace'
  <2> SUFFICES ASSUME NEW x \in Experiments, NEW m \in Nodes PROVE InOnePlace(x, m)'
    BY DEF OnePlace
  <2>1. InOnePlace(x, m)
    BY DEF IInv, OnePlace
  <2>2. CASE x = e
    BY <1>1, <1>2, <1>3, <2>1, <2>2 DEF InOnePlace
  <2>3. CASE x # e
    BY <1>1, <1>3, <2>1, <2>3 DEF InOnePlace
  <2> QED
    BY <2>2, <2>3
<1>8. RowsAreGood'
  <2> SUFFICES ASSUME NEW x \in Experiments PROVE RowIsGood(x)'
    BY DEF RowsAreGood
  <2>1. RowIsGood(x)
    BY DEF IInv, RowsAreGood
  <2>2. CASE x = e
    BY <1>1, <1>2, <2>1, <2>2 DEF RowIsGood
  <2>3. CASE x # e
    BY <1>1, <1>3, <1>6, <2>1, <2>3 DEF RowIsGood
  <2> QED
    BY <2>2, <2>3
<1>9. SchedIsGood'
  <2>0. SchedIsGood
    BY DEF IInv
  <2>1. sched.at \notin Free => sched.exp \in Experiments
    BY <2>0 DEF SchedIsGood
  <2>2. CASE sched.exp = e /\ sched' = sched
    <3>1. /\ sched.at # "call" /\ ~(sched.at = "decided" /\ sched.outcome \in {"retryable", "fatal"})
      BY <1>2, <2>0, <2>2 DEF SchedIsGood, InHand
    <3>2. sched.at # "waiting"
      BY <1>1, <1>4, <2>0, <2>2, IdleSchedFacts DEF SchedIsGood, InHand
    <3>3. InHand'
      BY <1>1, <2>0, <2>2, <3>1, <3>2 DEF SchedIsGood, InHand
    <3> QED
      BY <1>1, <2>0, <2>2, <3>3 DEF SchedIsGood
  <2>3. CASE sched.exp # e
    <3>1. sched' = sched
      BY <1>4, <2>3
    <3>2. InHand'
      BY <1>1, <1>3, <1>6, <2>0, <2>1, <2>3, <3>1 DEF SchedIsGood, InHand, Free
    <3> QED
      BY <1>1, <2>0, <3>1, <3>2 DEF SchedIsGood
  <2>4. CASE /\ cpUp /\ sched.at = "waiting" /\ sched.exp = e /\ sched.node = n
             /\ sched'.at = "decided" /\ sched'.outcome = "accepted"
    <3>1. InHand'
      BY <1>1, <1>2, <1>4, <2>4 DEF InHand
    <3> QED
      BY <1>1, <1>4, <2>4, <3>1 DEF SchedIsGood, Free
  <2> QED
    BY <1>4, <2>2, <2>3, <2>4
<1>10. ReportsAreGood'
  BY <1>1, SameReports DEF IInv
<1>11. CancelAnswerIsFinal'
  BY <1>1, <1>2, <1>3 DEF IInv, CancelAnswerIsFinal
<1> QED
  BY <1>5, <1>7, <1>8, <1>9, <1>10, <1>11 DEF IInv

\* The request is given up.
LEMMA RequestCanceledPreserves ==
    ASSUME IInv, NEW e \in Experiments, NEW n \in Nodes, RequestCanceled(e, n) PROVE IInv'
<1>1. /\ e \in answering[n]
      /\ NoFault \/ Fault("lost_call")
      /\ answering' = [answering EXCEPT ![n] = @ \ {e}]
      /\ registry' = [registry EXCEPT ![n] = D!Finish(@, e, "FAILED")]
      /\ Reply(e, n, "retryable")
      /\ UNCHANGED <<status, nodeOf, cpUp, enqueued, stranded, queue, nodes, cancel, up>>
      /\ UNCHANGED <<running, journal, reporter, calls, run>>
  BY DEF RequestCanceled, db
<1>2. /\ run[e] = "never" /\ ~Untouched(e) /\ status[e] \in {"STARTING", "FAILED"}
      /\ \A m \in Nodes : <<e, m>> \notin calls
      /\ \A m \in Nodes \ {n} : e \notin answering[m]
  BY <1>1, BeingAnswered
<1>3. /\ answering'[n] = answering[n] \ {e} /\ \A m \in Nodes \ {n} : answering'[m] = answering[m]
  BY <1>1 DEF IInv, Shapes, DispatchersTyped
<1>4. /\ sched' \in Sched /\ sched'.rest = sched.rest
      /\ sched'.exp = sched.exp /\ sched'.node = sched.node
      /\ \/ /\ cpUp /\ sched.at = "waiting" /\ sched.exp = e /\ sched.node = n
            /\ sched'.at = "decided" /\ sched'.outcome = "retryable"
         \/ /\ ~(sched.at = "waiting" /\ cpUp /\ sched.exp = e /\ sched.node = n)
            /\ sched' = sched
  <2>1. "retryable" \in Outcomes /\ sched \in Sched
    BY DEF Outcomes, IInv, Shapes, MemoryTyped
  <2> QED
    BY <1>1, <2>1, ReplyFacts
<1>5. Shapes' /\ StopsAreGood' /\ NoPendingForgotten'
  <2>1. registry' \in [Nodes -> D!Registry]
    BY <1>1, FinishFacts DEF IInv, Shapes, DispatchersTyped, Terminal
  <2>2. faults' \in 0..MaxFaults
    BY <1>1, FaultsTyped DEF FaultKinds, IInv, Shapes, RestTyped
  <2>3. DispatchersTyped' /\ RestTyped'
    BY <1>1, <2>1, <2>2 DEF IInv, Shapes, DispatchersTyped, RestTyped
  <2> QED
    BY <1>1, <1>4, <2>3, AtTheDispatcher
<1>6. \A x \in Experiments : Untouched(x) => Untouched(x)'
  BY <1>1, <1>3 DEF Untouched
<1>7. OnePlace'
  <2>1. ASSUME NEW x \in Experiments, NEW m \in Nodes PROVE InOnePlace(x, m)'
    <3>1. InOnePlace(x, m)
      BY DEF IInv, OnePlace
    <3>2. \A o \in Nodes : answering'[o] \subseteq answering[o]
      BY <1>3
    <3> QED
      BY <1>1, <3>1, <3>2 DEF InOnePlace
  <2> QED
    BY <2>1 DEF OnePlace
<1>8. RowsAreGood'
  <2> SUFFICES ASSUME NEW x \in Experiments PROVE RowIsGood(x)'
    BY DEF RowsAreGood
  <2>1. RowIsGood(x)
    BY DEF IInv, RowsAreGood
  <2> QED
    BY <1>1, <1>6, <2>1 DEF RowIsGood
<1>9. SchedIsGood'
  <2>0. SchedIsGood
    BY DEF IInv
  <2>1. sched.at \notin Free => sched.exp \in Experiments
    BY <2>0 DEF SchedIsGood
  <2>2. CASE sched' = sched
    <3>1. InHand'
      BY <1>1, <1>3, <1>6, <2>0, <2>1, <2>2 DEF SchedIsGood, InHand, Free
    <3> QED
      BY <1>1, <2>0, <2>2, <3>1 DEF SchedIsGood
  <2>3. CASE /\ cpUp /\ sched.at = "waiting" /\ sched.exp = e /\ sched.node = n
             /\ sched'.at = "decided" /\ sched'.outcome = "retryable"
    <3>1. Untouched(e)'
      BY <1>1, <1>2, <1>3 DEF Untouched
    <3>2. status[e] = "STARTING"
      BY <2>0, <2>3 DEF SchedIsGood, InHand
    <3>3. InHand'
      BY <1>1, <1>4, <2>3, <3>1, <3>2 DEF InHand, Untouched
    <3> QED
      BY <1>1, <1>4, <2>3, <3>3 DEF SchedIsGood, Free
  <2> QED
    BY <1>4, <2>2, <2>3
<1>10. ReportsAreGood' /\ CancelAnswerIsFinal'
  BY <1>1, SameReports, SameCancels DEF IInv
<1> QED
  BY <1>5, <1>7, <1>8, <1>9, <1>10 DEF IInv

\* A run ends, and its result is persisted.
LEMMA RunEndsPreserves ==
    ASSUME IInv, NEW e \in Experiments, NEW n \in Nodes, RunEnds(e, n) PROVE IInv'
<1>1. /\ e \in running[n]
      /\ running' = [running EXCEPT ![n] = @ \ {e}]
      /\ UNCHANGED <<status, nodeOf, cpUp, enqueued, stranded, queue, nodes, cancel, up>>
      /\ UNCHANGED <<sched, answering, reporter, calls>>
      /\ faults' = faults
  BY DEF RunEnds, NoFault, db, cp
<1>2. PICK result \in Terminal :
          /\ registry' = [registry EXCEPT ![n] = D!Finish(@, e, result)]
          /\ journal' = [journal EXCEPT ![n][e] = D!FinalStatus(registry[n], e, result)]
          /\ run' = [run EXCEPT ![e] = D!FinalStatus(registry[n], e, result)]
  BY DEF RunEnds, Terminal
<1>3. PICK final : final = D!FinalStatus(registry[n], e, result)
  OBVIOUS
<1>4. registry[n] \in D!Registry
  BY DEF IInv, Shapes, DispatchersTyped
<1>5. final \in Terminal /\ D!Finish(registry[n], e, result) \in D!Registry
  BY <1>3, <1>4, FinishFacts
<1>6. /\ journal' = [journal EXCEPT ![n][e] = final] /\ run' = [run EXCEPT ![e] = final]
      /\ run'[e] = final /\ \A x \in Experiments \ {e} : run'[x] = run[x]
      /\ journal'[n][e] = final
      /\ \A x \in Experiments, m \in Nodes :
            x # e \/ m # n => journal'[m][x] = journal[m][x]
      /\ \A m \in Nodes : running'[m] = running[m] \ (IF m = n THEN {e} ELSE {})
  BY <1>1, <1>2, <1>3 DEF IInv, Shapes, DispatchersTyped, RestTyped
<1>7. /\ run[e] = "running" /\ ~Untouched(e) /\ status[e] \in {"STARTING", "FAILED"}
      /\ \A m \in Nodes : <<e, m>> \notin calls /\ e \notin answering[m] /\ journal[m][e] = "none"
      /\ \A m \in Nodes \ {n} : e \notin running[m]
      /\ cancel[e].at # "canceled"
  <2>1. run[e] = "running" /\ \A m \in Nodes \ {n} : e \notin running[m]
    BY <1>1 DEF IInv, OnePlace, InOnePlace
  <2>2. ~Untouched(e)
    BY <2>1 DEF Untouched
  <2>3. status[e] \in {"STARTING", "FAILED"}
    BY <2>1, <2>2 DEF IInv, RowsAreGood, RowIsGood, Shapes, RowsTyped, Terminal
  <2>4. \A m \in Nodes : <<e, m>> \notin calls /\ e \notin answering[m]
    BY <2>1 DEF IInv, OnePlace, InOnePlace
  <2>5. ASSUME NEW m \in Nodes PROVE journal[m][e] = "none"
    <3>1. journal[m][e] # "running"
      BY DEF IInv, Shapes, DispatchersTyped, Terminal
    <3>2. journal[m][e] # "none" => run[e] = journal[m][e]
      BY DEF IInv, OnePlace, InOnePlace
    <3> QED
      BY <2>1, <3>1, <3>2
  <2>6. cancel[e].at # "canceled"
    BY <2>3 DEF IInv, CancelAnswerIsFinal
  <2> QED
    BY <2>1, <2>2, <2>3, <2>4, <2>5, <2>6
<1>8. Shapes' /\ StopsAreGood' /\ NoPendingForgotten'
  <2>1. registry' \in [Nodes -> D!Registry]
    BY <1>2, <1>5 DEF IInv, Shapes, DispatchersTyped
  <2>2. journal' \in [Nodes -> [Experiments -> Terminal \cup {"none"}]]
    BY <1>5, <1>6 DEF IInv, Shapes, DispatchersTyped
  <2>3. running' \in [Nodes -> SUBSET Experiments]
    BY <1>1 DEF IInv, Shapes, DispatchersTyped
  <2>4. DispatchersTyped' /\ RestTyped'
    BY <1>1, <1>5, <1>6, <2>1, <2>2, <2>3 DEF IInv, Shapes, DispatchersTyped, RestTyped
  <2>5. sched' \in Sched
    BY <1>1 DEF IInv, Shapes, MemoryTyped
  <2> QED
    BY <1>1, <2>4, <2>5, AtTheDispatcher
<1>9. final # "never" /\ final # "none"
  BY <1>5 DEF Terminal
<1>10. \A x \in Experiments \ {e} : Untouched(x)' = Untouched(x)
  BY <1>1, <1>6 DEF Untouched
<1>11. OnePlace'
  <2> SUFFICES ASSUME NEW x \in Experiments, NEW m \in Nodes PROVE InOnePlace(x, m)'
    BY DEF OnePlace
  <2>1. InOnePlace(x, m)
    BY DEF IInv, OnePlace
  <2>2. CASE x = e
    BY <1>1, <1>6, <1>7, <2>2 DEF InOnePlace
  <2>3. CASE x # e
    BY <1>1, <1>6, <2>1, <2>3 DEF InOnePlace
  <2> QED
    BY <2>2, <2>3
<1>12. RowsAreGood'
  <2> SUFFICES ASSUME NEW x \in Experiments PROVE RowIsGood(x)'
    BY DEF RowsAreGood
  <2>1. RowIsGood(x)
    BY DEF IInv, RowsAreGood
  <2>2. CASE x = e
    BY <1>1, <1>7, <2>1, <2>2 DEF RowIsGood
  <2>3. CASE x # e
    BY <1>1, <1>6, <1>10, <2>1, <2>3 DEF RowIsGood
  <2> QED
    BY <2>2, <2>3
<1>13. SchedIsGood'
  <2>0. SchedIsGood
    BY DEF IInv
  <2>1. sched.at \notin Free => sched.exp \in Experiments
    BY <2>0 DEF SchedIsGood
  <2>2. \A x \in Experiments : Untouched(x) => Untouched(x)'
    BY <1>7, <1>10
  <2>3. \A x \in Experiments : run[x] = "never" => run'[x] = "never"
    BY <1>6, <1>7
  <2>4. InHand'
    BY <1>1, <2>0, <2>1, <2>2, <2>3 DEF SchedIsGood, InHand, Free
  <2> QED
    BY <1>1, <2>0, <2>4 DEF SchedIsGood
<1>14. ReportsAreGood'
  BY <1>1, <1>6, <1>9 DEF IInv, ReportsAreGood
<1>15. CancelAnswerIsFinal'
  BY <1>1, <1>6, <1>7 DEF IInv, CancelAnswerIsFinal
<1> QED
  BY <1>8, <1>11, <1>12, <1>13, <1>14, <1>15 DEF IInv

-----------------------------------------------------------------------------
(* The reporter and the ReportExperimentResult handler. *)

\* What a report is about, in the words of the run.
LEMMA BeingReported ==
    ASSUME IInv, NEW n \in Nodes, reporter[n].at # "idle", NEW e, e = reporter[n].exp
    PROVE  /\ e \in Experiments /\ journal[n][e] \in Terminal /\ run[e] = journal[n][e]
           /\ ~Untouched(e) /\ status[e] \in {"STARTING", "FAILED", run[e]}
           /\ cancel[e].at # "canceled"
<1>1. e \in Experiments /\ journal[n][e] # "none"
  BY DEF IInv, ReportsAreGood
<1>2. journal[n][e] \in Terminal /\ run[e] = journal[n][e]
  <2>1. journal[n][e] \in Terminal \cup {"none"}
    BY <1>1 DEF IInv, Shapes, DispatchersTyped
  <2>2. run[e] = journal[n][e]
    BY <1>1 DEF IInv, OnePlace, InOnePlace
  <2> QED
    BY <1>1, <2>1, <2>2
<1>3. run[e] # "never"
  BY <1>2 DEF Terminal
<1>4. ~Untouched(e)
  BY <1>3 DEF Untouched
<1>5. status[e] \in {"STARTING", "FAILED", run[e]}
  BY <1>1, <1>4 DEF IInv, RowsAreGood, RowIsGood
<1>6. cancel[e].at # "canceled"
  BY <1>1, <1>3 DEF IInv, CancelAnswerIsFinal
<1> QED
  BY <1>1, <1>2, <1>4, <1>5, <1>6

\* The state of a reporter.
LEMMA ReporterMoves ==
    ASSUME IInv, NEW n \in Nodes, NEW at \in {"idle", "sent", "stored"},
           NEW e \in Experiments \cup {NoExperiment},
           ReportTo(n, at, e)
    PROVE  /\ reporter' \in [Nodes -> Reports] /\ reporter'[n].at = at /\ reporter'[n].exp = e
           /\ \A m \in Nodes \ {n} : reporter'[m] = reporter[m]
<1> DEFINE rep == [at |-> at, exp |-> e]
<1>1. rep \in Reports /\ rep.at = at /\ rep.exp = e
  BY DEF Reports
<1>2. reporter' = [reporter EXCEPT ![n] = rep]
  BY DEF ReportTo
<1> HIDE DEF rep
<1> QED
  BY <1>1, <1>2 DEF IInv, Shapes, DispatchersTyped

\* A step of a reporter or of the registry of nodes that touches neither the table, nor
\* the queue, nor a run.
LEMMA AroundTheRuns ==
    ASSUME IInv, UNCHANGED <<db, cpUp, enqueued, stranded, queue, sched, cancel, registry,
                             answering, running, calls, run>>,
           nodes' \in R!NodeMap, reporter' \in [Nodes -> Reports], up' \in [Nodes -> BOOLEAN],
           journal' \in [Nodes -> [Experiments -> Terminal \cup {"none"}]],
           \A n \in Nodes, e \in Experiments : journal'[n][e] \in {journal[n][e], "none"},
           faults' \in 0..MaxFaults, ReportsAreGood'
    PROVE  IInv'
<1>1. UNCHANGED <<status, nodeOf, calls, answering, run>>
  BY DEF db
<1>2. Shapes'
  <2>1. Flags'
    <3>1. enqueued' = enqueued /\ stranded' = stranded /\ cpUp' = cpUp
      OBVIOUS
    <3> QED
      BY <3>1 DEF IInv, Shapes, Flags
  <2>2. RowsTyped' /\ RestTyped'
    BY <1>1 DEF IInv, Shapes, RowsTyped, RestTyped
  <2>3. MemoryTyped' /\ DispatchersTyped'
    BY DEF IInv, Shapes, MemoryTyped, DispatchersTyped
  <2> QED
    BY <2>1, <2>2, <2>3 DEF Shapes
<1>3. OnePlace'
  <2>1. ASSUME NEW x \in Experiments, NEW m \in Nodes PROVE InOnePlace(x, m)'
    BY <1>1 DEF IInv, OnePlace, InOnePlace
  <2> QED
    BY <2>1 DEF OnePlace
<1>4. RowsAreGood'
  <2>1. \A x \in Experiments : Untouched(x)' = Untouched(x)
    BY <1>1 DEF Untouched
  <2> QED
    BY <1>1, <2>1 DEF IInv, RowsAreGood, RowIsGood
<1>5. SchedIsGood'
  BY <1>1, SchedKept DEF IInv
<1>6. StopsAreGood' /\ CancelAnswerIsFinal'
  BY <1>1, SameCancels DEF IInv
<1>7. NoPendingForgotten'
  BY <1>1 DEF IInv, NoPendingForgotten, Attended
<1> QED
  BY <1>2, <1>3, <1>4, <1>5, <1>6, <1>7 DEF IInv

\* A report is sent.
LEMMA ReportSentPreserves ==
    ASSUME IInv, NEW e \in Experiments, NEW n \in Nodes, ReportSent(e, n) PROVE IInv'
<1>1. /\ journal[n][e] # "none" /\ ReportTo(n, "sent", e)
      /\ UNCHANGED <<db, cpUp, enqueued, stranded, queue, sched, cancel, registry,
                     answering, running, calls, run>>
      /\ nodes' = nodes /\ up' = up /\ journal' = journal /\ faults' = faults
  BY DEF ReportSent, NoFault, cp
<1>2. /\ reporter' \in [Nodes -> Reports] /\ reporter'[n].at = "sent" /\ reporter'[n].exp = e
      /\ \A m \in Nodes \ {n} : reporter'[m] = reporter[m]
  BY <1>1, ReporterMoves
<1>3. ReportsAreGood'
  BY <1>1, <1>2 DEF IInv, ReportsAreGood
<1>4. /\ nodes' \in R!NodeMap /\ up' \in [Nodes -> BOOLEAN] /\ faults' \in 0..MaxFaults
      /\ journal' \in [Nodes -> [Experiments -> Terminal \cup {"none"}]]
      /\ \A m \in Nodes, x \in Experiments : journal'[m][x] \in {journal[m][x], "none"}
  BY <1>1 DEF IInv, Shapes, MemoryTyped, DispatchersTyped, RestTyped
<1> QED
  BY <1>1, <1>2, <1>3, <1>4, AroundTheRuns

\* The result is written to its row, which no scheduler step and no cancellation waits for.
LEMMA ResultWritten ==
    ASSUME IInv, NEW n \in Nodes, reporter[n].at # "idle", NEW e, e = reporter[n].exp,
           SetStatus(e, journal[n][e]), nodeOf' = [nodeOf EXCEPT ![e] = n],
           UNCHANGED <<cp, up, registry, answering, running, journal, calls, run>>,
           reporter' \in [Nodes -> Reports], ReportsAreGood', faults' \in 0..MaxFaults
    PROVE  IInv'
<1>1. /\ e \in Experiments /\ journal[n][e] \in Terminal /\ run[e] = journal[n][e]
      /\ ~Untouched(e) /\ status[e] \in {"STARTING", "FAILED", run[e]}
      /\ cancel[e].at # "canceled"
  BY BeingReported
<1>2. /\ UNCHANGED <<cpUp, enqueued, stranded, queue, nodes, sched, cancel>>
      /\ UNCHANGED <<up, registry, answering, running, journal, calls, run>>
  BY DEF cp
<1>3. /\ status' = [status EXCEPT ![e] = run[e]]
      /\ status'[e] = run[e] /\ \A x \in Experiments \ {e} : status'[x] = status[x]
      /\ nodeOf'[e] = n /\ \A x \in Experiments \ {e} : nodeOf'[x] = nodeOf[x]
  BY <1>1 DEF SetStatus, IInv, Shapes, RowsTyped
<1>4. Shapes'
  <2>1. Flags'
    BY <1>2 DEF IInv, Shapes, Flags
  <2>2. RowsTyped' /\ RestTyped'
    BY <1>1, <1>2, <1>3 DEF IInv, Shapes, RowsTyped, RestTyped
  <2>3. MemoryTyped' /\ DispatchersTyped'
    BY <1>2 DEF IInv, Shapes, MemoryTyped, DispatchersTyped
  <2> QED
    BY <2>1, <2>2, <2>3 DEF Shapes
<1>5. OnePlace' /\ \A x \in Experiments : Untouched(x)' = Untouched(x)
  BY <1>2, SameExecution DEF execution, IInv
<1>6. run[e] # "PENDING" /\ run[e] # "STARTING" /\ run[e] # "never"
  BY <1>1 DEF Terminal
<1>7. RowsAreGood'
  <2> SUFFICES ASSUME NEW x \in Experiments PROVE RowIsGood(x)'
    BY DEF RowsAreGood
  <2>1. RowIsGood(x)
    BY DEF IInv, RowsAreGood
  <2>2. CASE x = e
    BY <1>2, <1>3, <1>6, <2>2 DEF RowIsGood
  <2>3. CASE x # e
    BY <1>2, <1>3, <1>5, <2>1, <2>3 DEF RowIsGood
  <2> QED
    BY <2>2, <2>3
<1>8. SchedIsGood'
  <2>1. \A x \in Experiments : status[x] = "STARTING" /\ run[x] = "never" => status'[x] = "STARTING"
    BY <1>3, <1>6
  <2>2. \A x \in Experiments : status[x] # "PENDING" => status'[x] # "PENDING"
    BY <1>3, <1>6
  <2> QED
    BY <1>2, <2>1, <2>2, SchedKept DEF IInv
<1>9. StopsAreGood' /\ CancelAnswerIsFinal'
  BY <1>1, <1>2, <1>3 DEF IInv, StopsAreGood, CancelAnswerIsFinal
<1>10. NoPendingForgotten'
  <2>1. \A x \in Experiments : status'[x] = "PENDING" => status[x] = "PENDING"
    BY <1>3, <1>6
  <2> QED
    BY <1>2, <2>1 DEF IInv, NoPendingForgotten, Attended
<1> QED
  BY <1>4, <1>5, <1>7, <1>8, <1>9, <1>10 DEF IInv

\* The result is stored.
LEMMA UpdatePreserves ==
    ASSUME IInv, NEW n \in Nodes, UpdateExperimentResult(n) PROVE IInv'
<1>0. PICK e : e = reporter[n].exp
  OBVIOUS
<1>1. /\ reporter[n].at = "sent"
      /\ SetStatus(e, journal[n][e]) /\ nodeOf' = [nodeOf EXCEPT ![e] = n]
      /\ ReportTo(n, "stored", e)
      /\ UNCHANGED <<cp, up, registry, answering, running, journal, calls, run>>
      /\ faults' = faults
  BY <1>0 DEF UpdateExperimentResult, NoFault
<1>2. reporter[n].at # "idle"
  BY <1>1
<1>3. e \in Experiments /\ journal[n][e] # "none"
  BY <1>0, <1>2 DEF IInv, ReportsAreGood
<1>4. /\ reporter' \in [Nodes -> Reports] /\ reporter'[n].at = "stored" /\ reporter'[n].exp = e
      /\ \A m \in Nodes \ {n} : reporter'[m] = reporter[m]
  BY <1>1, <1>3, ReporterMoves
<1>5. ReportsAreGood'
  BY <1>1, <1>3, <1>4 DEF IInv, ReportsAreGood
<1>6. faults' \in 0..MaxFaults
  BY <1>1 DEF IInv, Shapes, RestTyped
<1> QED
  BY <1>0, <1>1, <1>2, <1>4, <1>5, <1>6, ResultWritten

\* Storing the result fails, or what follows it does.
LEMMA UpdateFailsPreserves ==
    ASSUME IInv, NEW n \in Nodes, UpdateFails(n) PROVE IInv'
<1>0. PICK e : e = reporter[n].exp
  OBVIOUS
<1>1. /\ reporter[n].at = "sent" /\ Fault("sql_error")
      /\ \/ UNCHANGED db
         \/ SetStatus(e, journal[n][e]) /\ nodeOf' = [nodeOf EXCEPT ![e] = n]
      /\ ReportTo(n, "idle", NoExperiment)
      /\ UNCHANGED <<cp, up, registry, answering, running, journal, calls, run>>
  BY <1>0 DEF UpdateFails
<1>2. reporter[n].at # "idle"
  BY <1>1
<1>3. /\ reporter' \in [Nodes -> Reports] /\ reporter'[n].at = "idle"
      /\ \A m \in Nodes \ {n} : reporter'[m] = reporter[m]
  BY <1>1, ReporterMoves
<1>4. ReportsAreGood'
  BY <1>1, <1>3 DEF IInv, ReportsAreGood
<1>5. faults' \in 0..MaxFaults
  BY <1>1, FaultsTyped DEF FaultKinds, IInv, Shapes, RestTyped
<1>6. CASE UNCHANGED db
  <2>1. /\ UNCHANGED <<db, cpUp, enqueued, stranded, queue, sched, cancel, registry,
                       answering, running, calls, run>>
        /\ nodes' = nodes /\ up' = up /\ journal' = journal
    BY <1>1, <1>6 DEF cp
  <2>2. /\ nodes' \in R!NodeMap /\ up' \in [Nodes -> BOOLEAN]
        /\ journal' \in [Nodes -> [Experiments -> Terminal \cup {"none"}]]
        /\ \A m \in Nodes, x \in Experiments : journal'[m][x] \in {journal[m][x], "none"}
    BY <2>1 DEF IInv, Shapes, MemoryTyped, DispatchersTyped
  <2> QED
    BY <1>3, <1>4, <1>5, <2>1, <2>2, AroundTheRuns
<1>7. CASE SetStatus(e, journal[n][e]) /\ nodeOf' = [nodeOf EXCEPT ![e] = n]
  BY <1>0, <1>1, <1>2, <1>3, <1>4, <1>5, <1>7, ResultWritten
<1> QED
  BY <1>1, <1>6, <1>7

\* The report is answered: the reservation is given back, and the reporter goes on.
LEMMA AnsweredPreserves ==
    ASSUME IInv, NEW n \in Nodes, ReportAnswered(n),
           journal' \in [Nodes -> [Experiments -> Terminal \cup {"none"}]],
           \A m \in Nodes \ {n} : journal'[m] = journal[m],
           \A e \in Experiments : journal'[n][e] \in {journal[n][e], "none"},
           faults' \in 0..MaxFaults
    PROVE  IInv'
<1>1. /\ nodes' = R!ReleaseReservation(nodes, n, 0) /\ ReportTo(n, "idle", NoExperiment)
      /\ UNCHANGED <<db, cpUp, enqueued, stranded, queue, sched, cancel, registry,
                     answering, running, calls, run>>
      /\ up' = up
  BY DEF ReportAnswered
<1>2. /\ reporter' \in [Nodes -> Reports] /\ reporter'[n].at = "idle"
      /\ \A m \in Nodes \ {n} : reporter'[m] = reporter[m]
  BY <1>1, ReporterMoves
<1>3. ReportsAreGood'
  BY <1>2 DEF IInv, ReportsAreGood
<1>4. nodes' \in R!NodeMap /\ up' \in [Nodes -> BOOLEAN]
  BY <1>1, ReleaseFacts DEF IInv, Shapes, MemoryTyped, DispatchersTyped
<1>5. \A m \in Nodes, x \in Experiments : journal'[m][x] \in {journal[m][x], "none"}
  OBVIOUS
<1> QED
  BY <1>1, <1>2, <1>3, <1>4, <1>5, AroundTheRuns

\* The reporter hears the answer, and takes the result out of its journal.
LEMMA AcknowledgedPreserves ==
    ASSUME IInv, NEW n \in Nodes, ReportAcknowledged(n) PROVE IInv'
<1>0. PICK e : e = reporter[n].exp
  OBVIOUS
<1>1. /\ ReportAnswered(n) /\ faults' = faults
      /\ journal' = [journal EXCEPT ![n][e] = "none"] /\ reporter[n].at = "stored"
  BY <1>0 DEF ReportAcknowledged, ReportAnswered, NoFault
<1>2. e \in Experiments
  BY <1>0, <1>1 DEF IInv, ReportsAreGood
<1>3. /\ journal' \in [Nodes -> [Experiments -> Terminal \cup {"none"}]]
      /\ \A m \in Nodes \ {n} : journal'[m] = journal[m]
      /\ \A x \in Experiments : journal'[n][x] \in {journal[n][x], "none"}
      /\ faults' \in 0..MaxFaults
  BY <1>1, <1>2 DEF IInv, Shapes, DispatchersTyped, RestTyped
<1> QED
  BY <1>1, <1>3, AnsweredPreserves

\* The answer is lost, and the result stays in the journal.
LEMMA ReplyLostPreserves ==
    ASSUME IInv, NEW n \in Nodes, ReportReplyLost(n) PROVE IInv'
<1>1. ReportAnswered(n) /\ Fault("lost_reply") /\ journal' = journal
  BY DEF ReportReplyLost
<1>2. faults' \in 0..MaxFaults
  BY <1>1, FaultsTyped DEF FaultKinds, IInv, Shapes, RestTyped
<1>3. /\ journal' \in [Nodes -> [Experiments -> Terminal \cup {"none"}]]
      /\ \A m \in Nodes \ {n} : journal'[m] = journal[m]
      /\ \A x \in Experiments : journal'[n][x] \in {journal[n][x], "none"}
  BY <1>1 DEF IInv, Shapes, DispatchersTyped
<1> QED
  BY <1>1, <1>2, <1>3, AnsweredPreserves

-----------------------------------------------------------------------------
(* Nodes come and go. *)

\* The load a node reports is of its type.
LEMMA LoadTyped ==
    ASSUME NEW n \in Nodes, NEW load \in Nat
    PROVE  [platform |-> "any", totalSlots |-> Slots, usedSlots |-> load,
            totalMemory |-> 0, reservedMemory |-> 0] \in R!NodeStatus
  BY LifecycleAssumption DEF R!NodeStatus

\* A node that is heard from has a record of the right type.
LEMMA HeardFromType ==
    ASSUME nodes \in R!NodeMap, NEW n \in Nodes, NEW load \in Nat, HeardFrom(n, load)
    PROVE  nodes' \in R!NodeMap
<1> DEFINE reported == [platform |-> "any", totalSlots |-> Slots, usedSlots |-> load,
                        totalMemory |-> 0, reservedMemory |-> 0]
<1>1. reported \in R!NodeStatus /\ nodes' = R!Heartbeat(nodes, n, reported)
  BY LoadTyped DEF HeardFrom
<1> HIDE DEF reported
<1> QED
  BY <1>1, HeartbeatFacts

\* A heartbeat changes nothing but the record of its node.
LEMMA HeartbeatPreserves ==
    ASSUME IInv, NEW n \in Nodes, Heartbeat(n) PROVE IInv'
<1>1. /\ HeardFrom(n, registry[n].usedSlots)
      /\ UNCHANGED <<db, cpUp, enqueued, stranded, queue, sched, cancel, registry,
                     answering, running, calls, run>>
      /\ up' = up /\ UNCHANGED <<reporter, journal>> /\ faults' = faults
  BY DEF Heartbeat, NoFault, dispatchers
<1>2. registry[n].usedSlots \in Nat /\ nodes \in R!NodeMap
  BY DEF IInv, Shapes, MemoryTyped, DispatchersTyped, D!Registry
<1>3. nodes' \in R!NodeMap
  BY <1>1, <1>2, HeardFromType
<1>4. /\ up' \in [Nodes -> BOOLEAN] /\ reporter' \in [Nodes -> Reports] /\ faults' \in 0..MaxFaults
      /\ journal' \in [Nodes -> [Experiments -> Terminal \cup {"none"}]]
      /\ \A m \in Nodes, x \in Experiments : journal'[m][x] \in {journal[m][x], "none"}
  BY <1>1 DEF IInv, Shapes, DispatchersTyped, RestTyped
<1>5. ReportsAreGood'
  BY <1>1, SameReports DEF IInv
<1> QED
  BY <1>1, <1>3, <1>4, <1>5, AroundTheRuns

\* A record's TTL runs out.
LEMMA ExpirePreserves ==
    ASSUME IInv, NEW n \in Nodes, Expire(n) PROVE IInv'
<1>1. /\ nodes[n].known /\ nodes' = [nodes EXCEPT ![n].fresh = FALSE]
      /\ NoFault \/ Fault("expiry")
      /\ UNCHANGED <<db, cpUp, enqueued, stranded, queue, sched, cancel, registry,
                     answering, running, calls, run>>
      /\ up' = up /\ UNCHANGED <<reporter, journal>>
  BY DEF Expire, R!Fresh, dispatchers
<1>2. nodes' \in R!NodeMap
  BY <1>1, ExpireType DEF IInv, Shapes, MemoryTyped
<1>3. faults' \in 0..MaxFaults
  BY <1>1, FaultsTyped DEF FaultKinds, IInv, Shapes, RestTyped
<1>4. /\ up' \in [Nodes -> BOOLEAN] /\ reporter' \in [Nodes -> Reports]
      /\ journal' \in [Nodes -> [Experiments -> Terminal \cup {"none"}]]
      /\ \A m \in Nodes, x \in Experiments : journal'[m][x] \in {journal[m][x], "none"}
  BY <1>1 DEF IInv, Shapes, DispatchersTyped
<1>5. ReportsAreGood'
  BY <1>1, SameReports DEF IInv
<1> QED
  BY <1>1, <1>2, <1>3, <1>4, <1>5, AroundTheRuns

\* A dispatcher starts again, with what its journal holds.
LEMMA NodeStartPreserves ==
    ASSUME IInv, NEW n \in Nodes, NodeStart(n) PROVE IInv'
<1>1. /\ up' = [up EXCEPT ![n] = TRUE] /\ HeardFrom(n, 0)
      /\ UNCHANGED <<db, cpUp, enqueued, stranded, queue, sched, cancel, registry,
                     answering, running, calls, run>>
      /\ UNCHANGED <<reporter, journal>> /\ faults' = faults
  BY DEF NodeStart, NoFault
<1>2. nodes' \in R!NodeMap
  BY <1>1, HeardFromType DEF IInv, Shapes, MemoryTyped
<1>3. up' \in [Nodes -> BOOLEAN]
  BY <1>1 DEF IInv, Shapes, DispatchersTyped
<1>4. /\ reporter' \in [Nodes -> Reports] /\ faults' \in 0..MaxFaults
      /\ journal' \in [Nodes -> [Experiments -> Terminal \cup {"none"}]]
      /\ \A m \in Nodes, x \in Experiments : journal'[m][x] \in {journal[m][x], "none"}
  BY <1>1 DEF IInv, Shapes, DispatchersTyped, RestTyped
<1>5. ReportsAreGood'
  BY <1>1, SameReports DEF IInv
<1> QED
  BY <1>1, <1>2, <1>3, <1>4, <1>5, AroundTheRuns

\* A dispatcher dies with what it is running; its journal stays.
LEMMA NodeCrashPreserves ==
    ASSUME IInv, NEW n \in Nodes, NodeCrash(n) PROVE IInv'
<1>1. /\ Fault("node_crash")
      /\ up' = [up EXCEPT ![n] = FALSE]
      /\ registry' = [registry EXCEPT ![n] = EmptyRegistry]
      /\ answering' = [answering EXCEPT ![n] = {}]
      /\ running' = [running EXCEPT ![n] = {}]
      /\ run' = [e \in Experiments |-> IF e \in running[n] THEN "lost" ELSE run[e]]
      /\ reporter' = [reporter EXCEPT ![n] = NoReport]
      /\ calls' = {c \in calls : c[2] # n}
      /\ UNCHANGED <<status, nodeOf, cpUp, enqueued, stranded, queue, nodes, cancel>>
      /\ UNCHANGED <<sched, journal>>
  BY DEF NodeCrash, db, cp
<1>2. Shapes'
  <2>1. Flags'
    BY <1>1 DEF IInv, Shapes, Flags
  <2>2. faults' \in 0..MaxFaults
    BY <1>1, FaultsTyped DEF FaultKinds, IInv, Shapes, RestTyped
  <2>3. RowsTyped' /\ RestTyped'
    BY <1>1, <2>2 DEF IInv, Shapes, RowsTyped, RestTyped
  <2>4. MemoryTyped'
    BY <1>1 DEF IInv, Shapes, MemoryTyped
  <2>5. NoReport \in Reports
    BY DEF NoReport, Reports
  <2>6. DispatchersTyped'
    BY <1>1, <2>5, EmptyRegistryFacts DEF IInv, Shapes, DispatchersTyped
  <2> QED
    BY <2>1, <2>3, <2>4, <2>6 DEF Shapes
<1>3. /\ \A m \in Nodes : answering'[m] \subseteq answering[m]
      /\ \A m \in Nodes : running'[m] = IF m = n THEN {} ELSE running[m]
      /\ calls' \subseteq calls
      /\ \A e \in Experiments : run[e] # "running" => run'[e] = run[e]
      /\ \A e \in Experiments : e \notin running[n] => run'[e] = run[e]
      /\ \A e \in Experiments : e \in running[n] => run'[e] = "lost"
  <2>1. \A e \in Experiments : e \in running[n] => run[e] = "running"
    BY DEF IInv, OnePlace, InOnePlace
  <2> QED
    BY <1>1, <2>1 DEF IInv, Shapes, DispatchersTyped
<1>4. \A e \in Experiments : Untouched(e) => Untouched(e)'
  BY <1>3 DEF Untouched
<1>5. OnePlace'
  <2> SUFFICES ASSUME NEW x \in Experiments, NEW m \in Nodes PROVE InOnePlace(x, m)'
    BY DEF OnePlace
  <2>1. InOnePlace(x, m) /\ InOnePlace(x, n)
    BY DEF IInv, OnePlace
  <2>2. (<<x, m>> \in calls => /\ run[x] = "never"
          /\ \A o \in Nodes : x \notin answering[o] /\ (<<x, o>> \in calls => o = m))'
    BY <1>3, <2>1 DEF InOnePlace
  <2>3. (x \in answering[m] => run[x] = "never" /\ \A o \in Nodes : x \in answering[o] => o = m)'
    BY <1>3, <2>1 DEF InOnePlace
  <2>4. (x \in running[m] => run[x] = "running" /\ \A o \in Nodes : x \in running[o] => o = m)'
    BY <1>3, <2>1 DEF InOnePlace
  <2>5. (journal[m][x] # "none" => run[x] = journal[m][x])'
    <3>1. journal[m][x] # "running"
      BY DEF IInv, Shapes, DispatchersTyped, Terminal
    <3> QED
      BY <1>1, <1>3, <2>1, <3>1 DEF InOnePlace
  <2> QED
    BY <2>2, <2>3, <2>4, <2>5 DEF InOnePlace
<1>6. RowsAreGood'
  <2> SUFFICES ASSUME NEW x \in Experiments PROVE RowIsGood(x)'
    BY DEF RowsAreGood
  <2>1. RowIsGood(x)
    BY DEF IInv, RowsAreGood
  <2>2. status[x] # "running"
    BY DEF IInv, Shapes, RowsTyped, Terminal
  <2>3. ~Untouched(x)' => status[x] \in {"STARTING", "FAILED", run'[x]}
    <3>1. run[x] # "running" => run'[x] = run[x]
      BY <1>3
    <3> QED
      BY <1>4, <2>1, <2>2, <3>1 DEF RowIsGood
  <2> QED
    BY <1>1, <1>4, <2>1, <2>3 DEF RowIsGood
<1>7. SchedIsGood'
  <2>0. SchedIsGood
    BY DEF IInv
  <2>1. sched.at \notin Free => sched.exp \in Experiments
    BY <2>0 DEF SchedIsGood
  <2>2. \A x \in Experiments : run[x] = "never" => run'[x] = "never"
    BY <1>3
  <2>3. InHand'
    BY <1>1, <1>3, <1>4, <2>0, <2>1, <2>2 DEF SchedIsGood, InHand, Free
  <2> QED
    BY <1>1, <2>0, <2>3 DEF SchedIsGood
<1>8. ReportsAreGood'
  <2>1. NoReport.at = "idle"
    BY DEF NoReport
  <2> QED
    BY <1>1, <2>1 DEF IInv, ReportsAreGood, Shapes, DispatchersTyped
<1>9. StopsAreGood' /\ CancelAnswerIsFinal'
  BY <1>1, <1>3 DEF IInv, StopsAreGood, CancelAnswerIsFinal
<1>10. NoPendingForgotten'
  BY <1>1 DEF IInv, NoPendingForgotten, Attended
<1> QED
  BY <1>2, <1>5, <1>6, <1>7, <1>8, <1>9, <1>10 DEF IInv

-----------------------------------------------------------------------------
(* The invariant of the specification, and what follows from it. *)

\* A step that changes nothing.
LEMMA StutterPreserves == IInv /\ UNCHANGED vars => IInv'
<1> SUFFICES ASSUME IInv, UNCHANGED vars PROVE IInv'
  OBVIOUS
<1>1. /\ UNCHANGED <<db, cpUp, enqueued, stranded, queue, sched, cancel, registry,
                     answering, running, calls, run>>
      /\ nodes' = nodes /\ up' = up /\ UNCHANGED <<reporter, journal>> /\ faults' = faults
  BY DEF vars, cp, dispatchers
<1>2. /\ up' \in [Nodes -> BOOLEAN] /\ reporter' \in [Nodes -> Reports] /\ faults' \in 0..MaxFaults
      /\ nodes' \in R!NodeMap
      /\ journal' \in [Nodes -> [Experiments -> Terminal \cup {"none"}]]
      /\ \A m \in Nodes, x \in Experiments : journal'[m][x] \in {journal[m][x], "none"}
  BY <1>1 DEF IInv, Shapes, MemoryTyped, DispatchersTyped, RestTyped
<1>3. ReportsAreGood'
  BY <1>1, SameReports DEF IInv
<1> QED
  BY <1>1, <1>2, <1>3, AroundTheRuns

\* Every step of the scheduler keeps the invariant.
LEMMA SchedulerPreserves == IInv /\ SchedulerStep => IInv'
  BY PopBatchPreserves, PickPreserves, NoNodeFitsPreserves, ClaimPreserves,
     NoLongerPendingPreserves, ClaimFailsPreserves, StartPreserves, NoAnswerPreserves,
     KeepStartingPreserves, MarkPendingPreserves, RequeuePreserves, FailedToStartPreserves,
     RollbackFailsPreserves, LeaveStartingPreserves, ReadActivePreserves, ReconcilePreserves
  DEF SchedulerStep

\* Every step keeps the invariant.
LEMMA NextPreserves == IInv /\ [Next]_vars => IInv'
<1> SUFFICES ASSUME IInv, [Next]_vars PROVE IInv'
  OBVIOUS
<1>1. CASE SubmitEnqueues \/ SubmitFails \/ ControlPlaneCrash \/ ControlPlaneStart
  BY <1>1, SubmitPreserves, SubmitFailsPreserves, ControlPlaneCrashPreserves, ControlPlaneStartPreserves
<1>2. CASE SchedulerStep
  BY <1>2, SchedulerPreserves
<1>3. CASE \E e \in Experiments : CancelHandler(e)
  BY <1>3, GetForCancelPreserves, RemoveFromQueuePreserves, MarkCanceledPreserves,
     CancelFailsPreserves, StopPreserves DEF CancelHandler
<1>4. CASE \E e \in Experiments, n \in Nodes : ExperimentAt(e, n)
  BY <1>4, CallRefusedPreserves, CallAdmittedPreserves, HandOffPreserves,
     RequestCanceledPreserves, RunEndsPreserves, ReportSentPreserves DEF ExperimentAt
<1>5. CASE \E n \in Nodes : Node(n)
  BY <1>5, UpdatePreserves, UpdateFailsPreserves, AcknowledgedPreserves, ReplyLostPreserves,
     HeartbeatPreserves, ExpirePreserves, NodeCrashPreserves, NodeStartPreserves DEF Node
<1>6. CASE UNCHANGED vars
  BY <1>6, StutterPreserves
<1> QED
  BY <1>1, <1>2, <1>3, <1>4, <1>5, <1>6 DEF Next

\* The inductive invariant holds throughout.
THEOREM Invariance == Spec => []IInv
  BY InitIInv, NextPreserves, PTL DEF Spec

\* Every variable has its type, whatever fails.
THEOREM TypeCorrect == Spec => []TypeOK
<1>1. IInv => TypeOK
  BY ShapesAreTypes DEF IInv
<1> QED
  BY <1>1, Invariance, PTL

\* An acknowledged cancellation is final: the row stays CANCELED and the experiment never
\* runs (server.go, CancelExperiment; repository.go, MarkPendingExperimentCanceled).
THEOREM CancellationsAreFinal == Spec => []CancelAnswerIsFinal
<1>1. IInv => CancelAnswerIsFinal
  BY DEF IInv
<1> QED
  BY <1>1, Invariance, PTL

\* While the control plane is up, a pending experiment is queued, in the scheduler's hands
\* or in those of a cancellation (scheduler.go, RunOnce; serve.go, bootstrap), but for the
\* rows let go of in the four ways that NoPendingForgotten names.
THEOREM NothingPendingIsForgotten == Spec => []NoPendingForgotten
<1>1. IInv => NoPendingForgotten
  BY DEF IInv
<1> QED
  BY <1>1, Invariance, PTL

-----------------------------------------------------------------------------
(* The platform implements its contract: each step is one of the contract's *)
(* or changes neither a row's status nor a run.                             *)

Promised == [Contract!Next]_<<status, run>>

\* The steps that change neither.
LEMMA QuietSteps ==
    ASSUME UNCHANGED <<status, run>> PROVE Promised
  BY DEF Promised

\* The scheduler's statements.
LEMMA SchedulerKeepsPromise ==
    ASSUME IInv, SchedulerStep PROVE Promised
<1>0. PICK e : e = sched.exp
  OBVIOUS
<1>1. sched.at \notin Free => e \in Experiments
  BY <1>0, HasInHand
<1>2. CASE TryMarkExperimentStarting
  <2>1. Contract!Claim(e)
    BY <1>0, <1>2 DEF TryMarkExperimentStarting, SetStatus, Contract!Claim, Contract!Move
  <2>2. e \in Experiments
    BY <1>1, <1>2 DEF TryMarkExperimentStarting, Scheduling, Free
  <2> QED
    BY <2>1, <2>2 DEF Promised, Contract!Next
<1>3. CASE ClaimFails
  <2>1. e \in Experiments
    BY <1>1, <1>3 DEF ClaimFails, Scheduling, Free
  <2>2. CASE UNCHANGED db
    BY <1>3, <2>2, QuietSteps DEF ClaimFails, db
  <2>3. CASE status[e] = "PENDING" /\ SetStatus(e, "STARTING")
    <3>1. Contract!Claim(e)
      BY <1>3, <2>3 DEF ClaimFails, SetStatus, Contract!Claim, Contract!Move
    <3> QED
      BY <2>1, <3>1 DEF Promised, Contract!Next
  <2> QED
    BY <1>0, <1>3, <2>2, <2>3 DEF ClaimFails
<1>4. CASE Decided("retryable") /\ RowPending /\ run' = run
  <2>1. /\ sched.at = "decided" /\ sched.outcome = "retryable"
        /\ status' = [status EXCEPT ![e] = "PENDING"] /\ run' = run
    BY <1>0, <1>4 DEF RowPending, Decided, Scheduling, SetStatus
  <2>2. e \in Experiments /\ status[e] = "STARTING" /\ run[e] = "never"
    BY <1>0, <1>1, <2>1 DEF Free, IInv, SchedIsGood, InHand, Untouched
  <2>3. Contract!GiveBack(e)
    BY <2>1, <2>2 DEF Contract!GiveBack, Contract!Move
  <2> QED
    BY <2>2, <2>3 DEF Promised, Contract!Next
<1>5. CASE Decided("fatal") /\ RowFailed /\ run' = run
  <2>1. /\ sched.at = "decided" /\ sched.outcome = "fatal"
        /\ status' = [status EXCEPT ![e] = "FAILED"] /\ run' = run
    BY <1>0, <1>5 DEF RowFailed, Decided, Scheduling, SetStatus
  <2>2. e \in Experiments /\ status[e] = "STARTING"
    BY <1>0, <1>1, <2>1 DEF Free, IInv, SchedIsGood, InHand
  <2>3. Contract!Fail(e)
    BY <2>1, <2>2 DEF Contract!Fail, Contract!Move
  <2> QED
    BY <2>2, <2>3 DEF Promised, Contract!Next
<1>6. CASE Reconcile
  <2>1. PICK es \in SUBSET Orphans(sched.active) : MarkOrphanedExperimentsFailed(es)
    BY <1>6 DEF Reconcile
  <2>2. es \subseteq Experiments /\ \A x \in es : status[x] = "STARTING"
    BY <2>1 DEF Orphans
  <2>3. Contract!FailMany
    BY <2>1, <2>2 DEF MarkOrphanedExperimentsFailed, Contract!FailMany
  <2> QED
    BY <2>3 DEF Promised, Contract!Next
<1>7. CASE \/ PopBatch \/ (\E n \in Nodes : PickAndReserve(n)) \/ NoNodeFits \/ NoLongerPending
           \/ StartExperiment \/ NoAnswer \/ KeepStarting \/ Requeue
           \/ LeaveStarting \/ ReadActiveNodes
  <2>1. UNCHANGED <<status, run>>
    BY <1>7 DEF PopBatch, PickAndReserve, NoNodeFits, NoLongerPending, StartExperiment, NoAnswer,
                KeepStarting, Requeue, LeaveStarting, ReadActiveNodes, db
  <2> QED
    BY <2>1, QuietSteps
<1>8. CASE MarkExperimentPending
  <2>1. Decided("retryable") /\ RowPending /\ run' = run
    BY <1>8 DEF MarkExperimentPending
  <2> QED
    BY <1>4, <2>1
<1>9. CASE MarkExperimentFailedToStart
  <2>1. Decided("fatal") /\ RowFailed /\ run' = run
    BY <1>9 DEF MarkExperimentFailedToStart
  <2> QED
    BY <1>5, <2>1
<1>10. CASE RollbackFails
  <2>1. /\ Scheduling("decided") /\ run' = run
        /\ \/ UNCHANGED db
           \/ sched.outcome = "retryable" /\ RowPending
           \/ sched.outcome = "fatal" /\ RowFailed
    BY <1>10 DEF RollbackFails
  <2>2. CASE UNCHANGED db
    BY <2>1, <2>2, QuietSteps DEF db
  <2>3. CASE sched.outcome = "retryable" /\ RowPending
    BY <1>4, <2>1, <2>3 DEF Decided
  <2>4. CASE sched.outcome = "fatal" /\ RowFailed
    BY <1>5, <2>1, <2>4 DEF Decided
  <2> QED
    BY <2>1, <2>2, <2>3, <2>4
<1> QED
  BY <1>2, <1>3, <1>6, <1>7, <1>8, <1>9, <1>10 DEF SchedulerStep

\* The cancellations.
LEMMA CancelKeepsPromise ==
    ASSUME IInv, NEW e \in Experiments, CancelHandler(e) PROVE Promised
<1>1. CASE \/ MarkPendingExperimentCanceled(e) /\ status[e] = "PENDING"
           \/ CancelFails(e) /\ status[e] = "PENDING" /\ SetStatus(e, "CANCELED")
  <2>1. status' = [status EXCEPT ![e] = "CANCELED"] /\ run' = run
    BY <1>1 DEF MarkPendingExperimentCanceled, CancelFails, SetStatus
  <2>2. run[e] = "never"
    BY <1>1 DEF IInv, RowsAreGood, RowIsGood, Untouched
  <2>3. Contract!Withdraw(e)
    BY <1>1, <2>1, <2>2 DEF Contract!Withdraw, Contract!Move
  <2> QED
    BY <2>3 DEF Promised, Contract!Next
<1>2. CASE \/ GetExperimentForCancel(e) \/ RemoveFromQueue(e) \/ StopExperiment(e)
           \/ CancelFails(e) /\ UNCHANGED status
           \/ MarkPendingExperimentCanceled(e) /\ status[e] # "PENDING"
  <2>1. UNCHANGED <<status, run>>
    BY <1>2 DEF GetExperimentForCancel, RemoveFromQueue, CancelFails, StopExperiment,
                MarkPendingExperimentCanceled, db
  <2> QED
    BY <2>1, QuietSteps
<1>3. CancelFails(e) => \/ CancelFails(e) /\ UNCHANGED status
                        \/ CancelFails(e) /\ status[e] = "PENDING" /\ SetStatus(e, "CANCELED")
  BY DEF CancelFails
<1> QED
  BY <1>1, <1>2, <1>3 DEF CancelHandler

\* A hand-off launches an experiment that has never run, and its end ends it.
LEMMA RunsKeepPromise ==
    ASSUME IInv, NEW e \in Experiments, NEW n \in Nodes, ExperimentAt(e, n) PROVE Promised
<1>1. CASE HandOff(e, n)
  <2>1. e \in answering[n] /\ run' = [run EXCEPT ![e] = "running"] /\ status' = status
    BY <1>1 DEF HandOff, db
  <2>2. run[e] = "never" /\ status[e] \in {"STARTING", "FAILED"}
    BY <2>1, BeingAnswered
  <2>3. Contract!Launch(e)
    BY <2>1, <2>2 DEF Contract!Launch, Contract!Advance
  <2> QED
    BY <2>3 DEF Promised, Contract!Next
<1>2. CASE RunEnds(e, n)
  <2>1. e \in running[n] /\ status' = status
    BY <1>2 DEF RunEnds, db
  <2>2. PICK result \in Terminal : run' = [run EXCEPT ![e] = D!FinalStatus(registry[n], e, result)]
    BY <1>2 DEF RunEnds, Terminal
  <2>3. D!FinalStatus(registry[n], e, result) \in Terminal
    BY FinishFacts DEF IInv, Shapes, DispatchersTyped
  <2>4. run[e] = "running"
    BY <2>1 DEF IInv, OnePlace, InOnePlace
  <2>5. Contract!End(e)
    BY <2>1, <2>2, <2>3, <2>4 DEF Contract!End, Contract!Advance, Contract!Outcome, Terminal
  <2> QED
    BY <2>5 DEF Promised, Contract!Next
<1>3. CASE CallRefused(e, n) \/ CallAdmitted(e, n) \/ RequestCanceled(e, n) \/ ReportSent(e, n)
  <2>1. UNCHANGED <<status, run>>
    BY <1>3 DEF CallRefused, CallAdmitted, RequestCanceled, ReportSent, db
  <2> QED
    BY <2>1, QuietSteps
<1> QED
  BY <1>1, <1>2, <1>3 DEF ExperimentAt

\* A result settles the row, which had been left STARTING, or FAILED for want of a sign of life.
LEMMA ResultSettles ==
    ASSUME IInv, NEW n \in Nodes, reporter[n].at # "idle", NEW e, e = reporter[n].exp,
           SetStatus(e, journal[n][e]), run' = run
    PROVE  Promised
<1>1. /\ e \in Experiments /\ journal[n][e] \in Terminal /\ run[e] = journal[n][e]
      /\ status[e] \in {"STARTING", "FAILED", run[e]}
  BY BeingReported
<1>2. status' = [status EXCEPT ![e] = run[e]]
  BY <1>1 DEF SetStatus
<1>3. CASE status[e] \in {"STARTING", "FAILED"}
  <2>1. Contract!Settle(e)
    BY <1>1, <1>2, <1>3 DEF Contract!Settle, Contract!Move, Contract!Outcome, Terminal
  <2> QED
    BY <1>1, <2>1 DEF Promised, Contract!Next
<1>4. CASE status[e] = run[e]
  <2>1. status' = status
    BY <1>1, <1>2, <1>4 DEF IInv, Shapes, RowsTyped
  <2> QED
    BY <2>1, QuietSteps
<1> QED
  BY <1>1, <1>3, <1>4

\* The reports, the heartbeats and the crashes.
LEMMA NodesKeepPromise ==
    ASSUME IInv, NEW n \in Nodes, Node(n) PROVE Promised
<1>0. PICK e : e = reporter[n].exp
  OBVIOUS
<1>1. CASE UpdateExperimentResult(n)
  <2>1. reporter[n].at # "idle" /\ SetStatus(e, journal[n][e]) /\ run' = run
    BY <1>0, <1>1 DEF UpdateExperimentResult
  <2> QED
    BY <1>0, <2>1, ResultSettles
<1>2. CASE UpdateFails(n)
  <2>1. /\ reporter[n].at # "idle" /\ run' = run
        /\ UNCHANGED db \/ SetStatus(e, journal[n][e])
    BY <1>0, <1>2 DEF UpdateFails
  <2>2. CASE UNCHANGED db
    BY <2>1, <2>2, QuietSteps DEF db
  <2>3. CASE SetStatus(e, journal[n][e])
    BY <1>0, <2>1, <2>3, ResultSettles
  <2> QED
    BY <2>1, <2>2, <2>3
<1>3. CASE NodeCrash(n)
  <2>1. /\ status' = status
        /\ run' = [x \in Experiments |-> IF x \in running[n] THEN "lost" ELSE run[x]]
    BY <1>3 DEF NodeCrash, db
  <2>2. running[n] \subseteq Experiments
    BY DEF IInv, Shapes, DispatchersTyped
  <2>3. \A x \in running[n] : run[x] = "running"
    BY <2>2 DEF IInv, OnePlace, InOnePlace
  <2>4. Contract!LoseMany
    BY <2>1, <2>2, <2>3 DEF Contract!LoseMany
  <2> QED
    BY <2>4 DEF Promised, Contract!Next
<1>4. CASE \/ ReportAcknowledged(n) \/ ReportReplyLost(n)
           \/ Heartbeat(n) \/ Expire(n) \/ NodeStart(n)
  <2>1. UNCHANGED <<status, run>>
    BY <1>4 DEF ReportAcknowledged, ReportReplyLost, ReportAnswered, Heartbeat, Expire, NodeStart, db
  <2> QED
    BY <2>1, QuietSteps
<1> QED
  BY <1>1, <1>2, <1>3, <1>4 DEF Node

\* Every step is one the contract allows.
LEMMA NextKeepsPromise == IInv /\ [Next]_vars => Promised
<1> SUFFICES ASSUME IInv, [Next]_vars PROVE Promised
  OBVIOUS
<1>1. CASE SubmitEnqueues \/ SubmitFails \/ ControlPlaneCrash \/ ControlPlaneStart \/ UNCHANGED vars
  <2>1. UNCHANGED <<status, run>>
    BY <1>1 DEF SubmitEnqueues, SubmitFails, ControlPlaneCrash, ControlPlaneStart, vars, db
  <2> QED
    BY <2>1, QuietSteps
<1> QED
  BY <1>1, SchedulerKeepsPromise, CancelKeepsPromise, RunsKeepPromise, NodesKeepPromise DEF Next

\* Whatever is lost or crashes, an experiment is executed at most once, one that is
\* canceled while it is pending is never executed, and a terminal row is never scheduled
\* again (dispatcher/server.go, StartExperiment; scheduler.go, processRecord).
THEOREM ContractIsKept == Spec => ContractSpec
<1>1. Init => Contract!Init
  BY DEF Init, Contract!Init
<1>2. IInv /\ [Next]_vars => [Contract!Next]_<<status, run>>
  BY NextKeepsPromise DEF Promised
<1> QED
  BY <1>1, <1>2, Invariance, PTL DEF Spec, ContractSpec, Contract!Spec

-----------------------------------------------------------------------------
(* The slots in use on a dispatcher. *)

\* Sets of experiments and their sizes.
LEMMA CountFacts ==
    ASSUME NEW S \in SUBSET Experiments, NEW e \in Experiments
    PROVE  /\ Cardinality(S) \in Nat /\ Cardinality({}) = 0
           /\ Cardinality(S \cup {e}) <= Cardinality(S) + 1
           /\ e \notin S => Cardinality(S \cup {e}) = Cardinality(S) + 1
           /\ e \in S => Cardinality(S) > 0 /\ Cardinality(S \ {e}) = Cardinality(S) - 1
<1>1. IsFiniteSet(S)
  BY LifecycleAssumption, FS_Subset
<1>2. Cardinality(S) \in Nat
  BY <1>1, FS_CardinalityType
<1>3. Cardinality(S \cup {e}) = IF e \in S THEN Cardinality(S) ELSE Cardinality(S) + 1
  BY <1>1, FS_AddElement
<1>4. Cardinality(S \ {e}) = IF e \in S THEN Cardinality(S) - 1 ELSE Cardinality(S)
  BY <1>1, FS_RemoveElement
<1>5. e \in S => Cardinality(S) # 0
  BY <1>1, FS_EmptySet
<1>6. Cardinality({}) = 0
  BY FS_EmptySet
<1> QED
  BY <1>2, <1>3, <1>4, <1>5, <1>6

\* A part of a set is no larger than the set.
LEMMA SmallerSet ==
    ASSUME NEW S \in SUBSET Experiments, NEW T \in SUBSET S
    PROVE  Cardinality(T) <= Cardinality(S)
  BY LifecycleAssumption, FS_Subset

\* A dispatcher's registry, given the experiments its handlers and workers hold: each has a
\* record and a slot, and only they are active.
GoodRegistry(r, held) ==
    /\ \A e \in Experiments : (D!CanCancel(r, e) => e \in held) /\ (e \in held => D!Known(r, e))
    /\ r.usedSlots = Cardinality(held)
    /\ r.totalSlots = Slots /\ r.totalMemoryBytes = 0

Held(n) == answering[n] \cup running[n]

RegistriesAreGood == \A n \in Nodes : GoodRegistry(registry[n], Held(n))

\* Two registries that agree on e agree on whether it is known and active.
LEMMA OnlyAtFacts ==
    ASSUME NEW r, NEW s, NEW e, OnlyAt(r, s, e)
    PROVE  \A x \in Experiments \ {e} : /\ D!CanCancel(s, x) = D!CanCancel(r, x)
                                        /\ D!Known(s, x) = D!Known(r, x)
  BY DEF OnlyAt, D!CanCancel, D!Known

\* An empty registry is good for a dispatcher that holds nothing.
LEMMA EmptyIsGood == GoodRegistry(EmptyRegistry, {})
  BY EmptyRegistryFacts, FS_EmptySet DEF GoodRegistry

\* A start that is admitted takes a slot.
LEMMA AdmittedIsGood ==
    ASSUME NEW r \in D!Registry, NEW held \in SUBSET Experiments, GoodRegistry(r, held),
           NEW e \in Experiments, e \notin held
    PROVE  GoodRegistry(D!SetCancel(D!TryStart(r, e, 0), e, e), held \cup {e})
<1> DEFINE s == D!SetCancel(D!TryStart(r, e, 0), e, e)
<1>1. OnlyAt(r, s, e) /\ D!Known(s, e) /\ s.usedSlots = r.usedSlots + 1
  BY StartFacts
<1> HIDE DEF s
<1>2. \A x \in Experiments : (D!CanCancel(s, x) => x \in held \cup {e})
                             /\ (x \in held \cup {e} => D!Known(s, x))
  BY <1>1, OnlyAtFacts DEF GoodRegistry
<1>3. s.usedSlots = Cardinality(held \cup {e})
  BY <1>1, CountFacts DEF GoodRegistry
<1>4. s.totalSlots = Slots /\ s.totalMemoryBytes = 0
  BY <1>1 DEF GoodRegistry, OnlyAt
<1>5. GoodRegistry(s, held \cup {e})
  BY <1>2, <1>3, <1>4 DEF GoodRegistry
<1> QED
  BY <1>5 DEF s

\* A hand-off leaves the slot to the run.
LEMMA HandedOffIsGood ==
    ASSUME NEW r \in D!Registry, NEW held \in SUBSET Experiments, GoodRegistry(r, held),
           NEW e \in held
    PROVE  GoodRegistry(D!SetStatus(r, e, "RUNNING"), held)
<1> DEFINE s == D!SetStatus(r, e, "RUNNING")
<1>1. OnlyAt(r, s, e) /\ s.usedSlots = r.usedSlots /\ D!Known(s, e)
  BY SetStatusFacts DEF GoodRegistry
<1> HIDE DEF s
<1>2. \A x \in Experiments : (D!CanCancel(s, x) => x \in held) /\ (x \in held => D!Known(s, x))
  BY <1>1, OnlyAtFacts DEF GoodRegistry
<1>3. GoodRegistry(s, held)
  BY <1>1, <1>2 DEF GoodRegistry, OnlyAt
<1> QED
  BY <1>3 DEF s

\* A stop leaves the slot to the run.
LEMMA StoppedIsGood ==
    ASSUME NEW r \in D!Registry, NEW held \in SUBSET Experiments, GoodRegistry(r, held),
           NEW e \in Experiments, D!CanCancel(r, e)
    PROVE  GoodRegistry(D!Cancel(r, e), held)
<1> DEFINE s == D!Cancel(r, e)
<1>1. OnlyAt(r, s, e) /\ s.usedSlots = r.usedSlots /\ D!Known(s, e) /\ e \in held
  BY CancelFacts DEF GoodRegistry
<1> HIDE DEF s
<1>2. \A x \in Experiments : (D!CanCancel(s, x) => x \in held) /\ (x \in held => D!Known(s, x))
  BY <1>1, OnlyAtFacts DEF GoodRegistry
<1>3. GoodRegistry(s, held)
  BY <1>1, <1>2 DEF GoodRegistry, OnlyAt
<1> QED
  BY <1>3 DEF s

\* What is over gives its slot back.
LEMMA FinishedIsGood ==
    ASSUME NEW r \in D!Registry, NEW held \in SUBSET Experiments, GoodRegistry(r, held),
           NEW e \in held, NEW result \in Terminal
    PROVE  GoodRegistry(D!Finish(r, e, result), held \ {e})
<1> DEFINE s == D!Finish(r, e, result)
<1>0. r.usedSlots > 0 /\ Cardinality(held \ {e}) = r.usedSlots - 1
  BY CountFacts DEF GoodRegistry
<1>1. /\ OnlyAt(r, s, e) /\ ~D!CanCancel(s, e) /\ s.usedSlots = r.usedSlots - 1
  BY <1>0, FinishFacts DEF GoodRegistry
<1> HIDE DEF s
<1>2. \A x \in Experiments : (D!CanCancel(s, x) => x \in held \ {e})
                             /\ (x \in held \ {e} => D!Known(s, x))
  BY <1>1, OnlyAtFacts DEF GoodRegistry
<1>3. GoodRegistry(s, held \ {e})
  BY <1>0, <1>1, <1>2 DEF GoodRegistry, OnlyAt
<1> QED
  BY <1>3 DEF s

\* A step at one dispatcher, or at none.
LEMMA OtherRegistriesSame ==
    ASSUME RegistriesAreGood, NEW n \in Nodes,
           \A m \in Nodes \ {n} : /\ registry'[m] = registry[m]
                                  /\ answering'[m] = answering[m] /\ running'[m] = running[m],
           GoodRegistry(registry'[n], answering'[n] \cup running'[n])
    PROVE  RegistriesAreGood'
  BY DEF RegistriesAreGood, Held

\* A step that touches no dispatcher keeps the registries good.
LEMMA RegistriesSame ==
    ASSUME RegistriesAreGood, UNCHANGED <<registry, answering, running>> PROVE RegistriesAreGood'
  BY DEF RegistriesAreGood, Held

\* At the start no dispatcher holds anything.
LEMMA InitRegistries == Init => RegistriesAreGood
  BY EmptyIsGood DEF Init, RegistriesAreGood, Held

\* The registries stay good.
LEMMA RegistriesPreserved == IInv /\ RegistriesAreGood /\ [Next]_vars => RegistriesAreGood'
<1> SUFFICES ASSUME IInv, RegistriesAreGood, [Next]_vars PROVE RegistriesAreGood'
  OBVIOUS
<1>0. ASSUME NEW n \in Nodes
      PROVE  /\ registry[n] \in D!Registry /\ Held(n) \in SUBSET Experiments
             /\ GoodRegistry(registry[n], Held(n))
  BY <1>0 DEF IInv, Shapes, DispatchersTyped, Held, RegistriesAreGood
<1>1. CASE SubmitEnqueues \/ SubmitFails \/ ControlPlaneCrash \/ ControlPlaneStart \/ UNCHANGED vars
  <2>1. UNCHANGED <<registry, answering, running>>
    BY <1>1 DEF SubmitEnqueues, SubmitFails, ControlPlaneCrash, ControlPlaneStart, vars, dispatchers
  <2> QED
    BY <2>1, RegistriesSame
<1>2. CASE SchedulerStep
  <2>1. UNCHANGED <<registry, answering, running>>
    BY <1>2 DEF SchedulerStep, PopBatch, PickAndReserve, NoNodeFits, TryMarkExperimentStarting,
                NoLongerPending, ClaimFails, StartExperiment, NoAnswer, KeepStarting,
                MarkExperimentPending, Requeue, MarkExperimentFailedToStart, RollbackFails,
                LeaveStarting, ReadActiveNodes, Reconcile, MarkOrphanedExperimentsFailed, dispatchers
  <2> QED
    BY <2>1, RegistriesSame
<1>3. ASSUME NEW e \in Experiments, CancelHandler(e) PROVE RegistriesAreGood'
  <2>1. CASE StopExperiment(e)
    <3>0. PICK n : n = cancel[e].node
      OBVIOUS
    <3>1. /\ UNCHANGED <<answering, running>>
          /\ registry' = IF up[n] /\ D!CanCancel(registry[n], e)
                         THEN [registry EXCEPT ![n] = D!Cancel(@, e)] ELSE registry
      BY <2>1, <3>0 DEF StopExperiment
    <3>2. n \in Nodes
      BY <2>1, <3>0 DEF StopExperiment, Canceling, IInv, StopsAreGood
    <3>3. CASE up[n] /\ D!CanCancel(registry[n], e)
      <4>1. registry' = [registry EXCEPT ![n] = D!Cancel(registry[n], e)]
        BY <3>1, <3>3
      <4>2. /\ registry'[n] = D!Cancel(registry[n], e)
            /\ \A m \in Nodes \ {n} : registry'[m] = registry[m]
        BY <3>2, <4>1 DEF IInv, Shapes, DispatchersTyped
      <4>3. GoodRegistry(registry'[n], answering'[n] \cup running'[n])
        BY <1>0, <3>1, <3>2, <3>3, <4>2, StoppedIsGood DEF Held
      <4> QED
        BY <3>1, <3>2, <4>2, <4>3, OtherRegistriesSame
    <3>4. CASE ~(up[n] /\ D!CanCancel(registry[n], e))
      BY <3>1, <3>4, RegistriesSame
    <3> QED
      BY <3>3, <3>4
  <2>2. CASE \/ GetExperimentForCancel(e) \/ RemoveFromQueue(e)
             \/ MarkPendingExperimentCanceled(e) \/ CancelFails(e)
    <3>1. UNCHANGED <<registry, answering, running>>
      BY <2>2 DEF GetExperimentForCancel, RemoveFromQueue, MarkPendingExperimentCanceled,
                  CancelFails, dispatchers
    <3> QED
      BY <3>1, RegistriesSame
  <2> QED
    BY <1>3, <2>1, <2>2 DEF CancelHandler
<1>4. ASSUME NEW e \in Experiments, NEW n \in Nodes, ExperimentAt(e, n) PROVE RegistriesAreGood'
  <2>1. CASE CallAdmitted(e, n)
    <3>1. /\ <<e, n>> \in calls /\ running' = running
          /\ registry' = [registry EXCEPT ![n] = D!SetCancel(D!TryStart(registry[n], e, 0), e, e)]
          /\ answering' = [answering EXCEPT ![n] = answering[n] \cup {e}]
      BY <2>1 DEF CallAdmitted
    <3>2. e \notin Held(n)
      BY <3>1 DEF Held, IInv, OnePlace, InOnePlace
    <3>3. /\ registry'[n] = D!SetCancel(D!TryStart(registry[n], e, 0), e, e)
          /\ answering'[n] \cup running'[n] = Held(n) \cup {e}
          /\ \A m \in Nodes \ {n} : registry'[m] = registry[m] /\ answering'[m] = answering[m]
      BY <3>1 DEF IInv, Shapes, DispatchersTyped, Held
    <3>4. GoodRegistry(registry'[n], answering'[n] \cup running'[n])
      BY <1>0, <3>2, <3>3, AdmittedIsGood
    <3> QED
      BY <3>1, <3>3, <3>4, OtherRegistriesSame
  <2>2. CASE HandOff(e, n)
    <3>1. /\ e \in answering[n]
          /\ answering' = [answering EXCEPT ![n] = answering[n] \ {e}]
          /\ running' = [running EXCEPT ![n] = running[n] \cup {e}]
          /\ registry' = [registry EXCEPT ![n] = D!SetStatus(registry[n], e, "RUNNING")]
      BY <2>2 DEF HandOff
    <3>2. /\ registry'[n] = D!SetStatus(registry[n], e, "RUNNING")
          /\ answering'[n] \cup running'[n] = Held(n) /\ e \in Held(n)
          /\ \A m \in Nodes \ {n} : /\ registry'[m] = registry[m]
                                    /\ answering'[m] = answering[m] /\ running'[m] = running[m]
      BY <3>1 DEF IInv, Shapes, DispatchersTyped, Held
    <3>3. GoodRegistry(registry'[n], answering'[n] \cup running'[n])
      BY <1>0, <3>2, HandedOffIsGood
    <3> QED
      BY <3>2, <3>3, OtherRegistriesSame
  <2>3. CASE RequestCanceled(e, n)
    <3>1. /\ e \in answering[n] /\ running' = running
          /\ answering' = [answering EXCEPT ![n] = answering[n] \ {e}]
          /\ registry' = [registry EXCEPT ![n] = D!Finish(registry[n], e, "FAILED")]
      BY <2>3 DEF RequestCanceled
    <3>2. e \notin running[n]
      BY <3>1, BeingAnswered
    <3>3. /\ registry'[n] = D!Finish(registry[n], e, "FAILED")
          /\ answering'[n] \cup running'[n] = Held(n) \ {e} /\ e \in Held(n)
          /\ \A m \in Nodes \ {n} : registry'[m] = registry[m] /\ answering'[m] = answering[m]
      BY <3>1, <3>2 DEF IInv, Shapes, DispatchersTyped, Held
    <3>4. GoodRegistry(registry'[n], answering'[n] \cup running'[n])
      BY <1>0, <3>3, FinishedIsGood DEF Terminal
    <3> QED
      BY <3>1, <3>3, <3>4, OtherRegistriesSame
  <2>4. CASE RunEnds(e, n)
    <3>1. /\ e \in running[n] /\ answering' = answering
          /\ running' = [running EXCEPT ![n] = running[n] \ {e}]
      BY <2>4 DEF RunEnds
    <3>2. PICK result \in Terminal :
              registry' = [registry EXCEPT ![n] = D!Finish(registry[n], e, result)]
      BY <2>4 DEF RunEnds, Terminal
    <3>3. e \notin answering[n]
      BY <3>1 DEF IInv, OnePlace, InOnePlace
    <3>4. /\ registry'[n] = D!Finish(registry[n], e, result)
          /\ answering'[n] \cup running'[n] = Held(n) \ {e} /\ e \in Held(n)
          /\ \A m \in Nodes \ {n} : registry'[m] = registry[m] /\ running'[m] = running[m]
      BY <3>1, <3>2, <3>3 DEF IInv, Shapes, DispatchersTyped, Held
    <3>5. GoodRegistry(registry'[n], answering'[n] \cup running'[n])
      BY <1>0, <3>4, FinishedIsGood
    <3> QED
      BY <3>1, <3>4, <3>5, OtherRegistriesSame
  <2>5. CASE CallRefused(e, n) \/ ReportSent(e, n)
    <3>1. UNCHANGED <<registry, answering, running>>
      BY <2>5 DEF CallRefused, ReportSent, dispatchers
    <3> QED
      BY <3>1, RegistriesSame
  <2> QED
    BY <1>4, <2>1, <2>2, <2>3, <2>4, <2>5 DEF ExperimentAt
<1>5. ASSUME NEW n \in Nodes, Node(n) PROVE RegistriesAreGood'
  <2>1. CASE NodeCrash(n)
    <3>1. /\ registry'[n] = EmptyRegistry /\ answering'[n] = {} /\ running'[n] = {}
          /\ \A m \in Nodes \ {n} : /\ registry'[m] = registry[m]
                                    /\ answering'[m] = answering[m] /\ running'[m] = running[m]
      BY <2>1 DEF NodeCrash, IInv, Shapes, DispatchersTyped
    <3>2. {} \cup {} = {}
      OBVIOUS
    <3>3. GoodRegistry(registry'[n], answering'[n] \cup running'[n])
      BY <3>1, <3>2, EmptyIsGood
    <3> QED
      BY <3>1, <3>3, OtherRegistriesSame
  <2>2. CASE \/ UpdateExperimentResult(n) \/ UpdateFails(n)
             \/ ReportAcknowledged(n) \/ ReportReplyLost(n)
             \/ Heartbeat(n) \/ Expire(n) \/ NodeStart(n)
    <3>1. UNCHANGED <<registry, answering, running>>
      BY <2>2 DEF UpdateExperimentResult, UpdateFails, ReportAcknowledged, ReportReplyLost,
                  ReportAnswered, Heartbeat, Expire, NodeStart, dispatchers
    <3> QED
      BY <3>1, RegistriesSame
  <2> QED
    BY <1>5, <2>1, <2>2 DEF Node
<1> QED
  BY <1>1, <1>2, <1>3, <1>4, <1>5 DEF Next

-----------------------------------------------------------------------------
(* The load of each dispatcher while nothing has failed. *)

\* Every dispatcher is alive, and the control plane knows it and its slots.
Alive ==
    /\ cpUp
    /\ \A n \in Nodes : up[n] /\ R!Fresh(nodes, n) /\ nodes[n].reported.totalSlots = Slots

Waited(e, n) == sched.at = "waiting" /\ sched.exp = e /\ sched.node = n

\* Only the call the scheduler waits for is under way.
OneCall ==
    \A e \in Experiments, n \in Nodes :
        <<e, n>> \in calls \/ e \in answering[n] <=> Waited(e, n)

\* The scheduler is about to place e on n, has asked for it, or has been refused for good.
Placing(e, n) ==
    /\ sched.exp = e /\ sched.node = n
    /\ \/ sched.at \in {"call", "waiting"}
       \/ sched.at = "decided" /\ sched.outcome = "fatal"

\* What the promises of n stand for: starts, runs, and results not yet acknowledged.
Load(n) == {e \in Experiments : Placing(e, n) \/ e \in running[n] \/ journal[n][e] # "none"}

Claiming(n) == IF sched.at = "claim" /\ sched.node = n THEN 1 ELSE 0

Covered ==
    \A n \in Nodes : /\ Cardinality(Load(n)) + Claiming(n) <= nodes[n].promisedSlots
                     /\ nodes[n].promisedSlots <= Slots

NoRefusal == sched.outcome \in {"none", "accepted", "fatal"}

Sound == Alive /\ OneCall /\ Covered /\ NoRefusal

NothingLost == faults = 0 => Sound

LoadInv == IInv /\ RegistriesAreGood /\ NothingLost

\* The records of the nodes, while all are alive.
LEMMA AliveRecords ==
    ASSUME IInv, Alive, NEW n \in Nodes
    PROVE  /\ nodes \in R!NodeMap /\ nodes[n].known /\ nodes[n].fresh
           /\ nodes[n].promisedSlots \in Nat
           /\ Load(n) \in SUBSET Experiments /\ Cardinality(Load(n)) \in Nat
           /\ Slots \in Nat
<1>1. nodes \in R!NodeMap /\ nodes[n].known /\ nodes[n].fresh
  BY DEF IInv, Shapes, MemoryTyped, Alive, R!Fresh
<1>2. nodes[n].promisedSlots \in Nat
  BY <1>1, KnownHasRecord, RecordNumbers
<1>3. Load(n) \in SUBSET Experiments
  BY DEF Load
<1>4. Cardinality(Load(n)) \in Nat
  BY <1>3, LifecycleAssumption, FS_Subset, FS_CardinalityType
<1> QED
  BY <1>1, <1>2, <1>3, <1>4, LifecycleAssumption

\* No record is expired, so none is evicted.
LEMMA NoneExpired ==
    ASSUME IInv, Alive
    PROVE  /\ R!Expired(nodes) = {}
           /\ R!Evict(nodes, {}) = nodes
           /\ \A n \in Nodes : R!AfterGet(nodes, n) = nodes
<1>1. R!Expired(nodes) = {}
  BY DEF Alive, R!Fresh, R!Expired
<1>2. R!Evict(nodes, {}) = nodes
  BY DEF IInv, Shapes, MemoryTyped, R!Evict, R!NodeMap
<1> QED
  BY <1>1, <1>2 DEF R!AfterGet

\* Everyone is still alive when no one stops and the records of the nodes are kept.
LEMMA AliveKept ==
    ASSUME Alive, UNCHANGED <<cpUp, up>>, SameNodes(nodes, nodes') PROVE Alive'
  BY DEF Alive, SameNodes, R!Fresh

\* Nodes that are not touched are the same.
LEMMA SameNodesSame == SameNodes(nodes, nodes)
  BY DEF SameNodes

\* A step that touches neither calls nor runs, and keeps the promises.
LEMMA QuietLoad ==
    ASSUME Sound, Alive', UNCHANGED <<sched, calls, answering, running, journal>>,
           \A n \in Nodes : nodes'[n].promisedSlots = nodes[n].promisedSlots
    PROVE  Sound'
<1>1. \A n \in Nodes : Load(n)' = Load(n) /\ Claiming(n)' = Claiming(n)
  BY DEF Load, Placing, Claiming
<1>2. Covered'
  BY <1>1 DEF Sound, Covered
<1>3. OneCall' /\ NoRefusal'
  BY DEF Sound, OneCall, Waited, NoRefusal
<1> QED
  BY <1>2, <1>3 DEF Sound

\* A step of the scheduler that has placed nothing and leaves it without a record.
LEMMA FreeLoad ==
    ASSUME Sound, Alive', UNCHANGED <<calls, answering, running, journal>>,
           sched.at \notin {"claim", "call", "waiting"},
           ~(sched.at = "decided" /\ sched.outcome = "fatal"),
           sched'.at \in Free, sched'.outcome \in {"none", "accepted", "fatal"},
           \A n \in Nodes : nodes'[n].promisedSlots = nodes[n].promisedSlots
    PROVE  Sound'
<1>1. \A n \in Nodes : Load(n)' = Load(n) /\ Claiming(n)' = Claiming(n)
  BY DEF Load, Placing, Claiming, Free
<1>2. Covered'
  BY <1>1 DEF Sound, Covered
<1>3. OneCall' /\ NoRefusal'
  BY DEF Sound, OneCall, Waited, NoRefusal, Free
<1> QED
  BY <1>2, <1>3 DEF Sound

\* A step that takes one experiment off the load, or one claim, and one promise.
LEMMA ReleasedLoad ==
    ASSUME IInv, Alive, Covered, NEW n \in Nodes,
           \A m \in Nodes \ {n} : /\ Load(m)' = Load(m) /\ Claiming(m)' = Claiming(m)
                                  /\ nodes'[m].promisedSlots = nodes[m].promisedSlots,
           nodes[n].promisedSlots > 0 => nodes'[n].promisedSlots = nodes[n].promisedSlots - 1,
           Claiming(n)' = 0,
           \/ Load(n)' = Load(n) /\ Claiming(n) = 1
           \/ \E e \in Load(n) : Load(n)' = Load(n) \ {e}
    PROVE  Covered'
<1>1. /\ nodes[n].promisedSlots \in Nat /\ Load(n) \in SUBSET Experiments
      /\ Cardinality(Load(n)) \in Nat /\ Slots \in Nat
  BY AliveRecords
<1>2. Cardinality(Load(n)) + Claiming(n) <= nodes[n].promisedSlots /\ nodes[n].promisedSlots <= Slots
  BY DEF Covered
<1>3. Claiming(n) \in {0, 1}
  BY DEF Claiming
<1>4. CASE Load(n)' = Load(n) /\ Claiming(n) = 1
  <2>1. /\ nodes'[n].promisedSlots = nodes[n].promisedSlots - 1
        /\ Cardinality(Load(n)') + Claiming(n)' <= nodes'[n].promisedSlots
        /\ nodes'[n].promisedSlots <= Slots
    BY <1>1, <1>2, <1>4
  <2> QED
    BY <2>1 DEF Covered
<1>5. CASE \E e \in Load(n) : Load(n)' = Load(n) \ {e}
  <2>1. PICK e \in Load(n) : Load(n)' = Load(n) \ {e}
    BY <1>5
  <2>2. Cardinality(Load(n)) > 0 /\ Cardinality(Load(n)') = Cardinality(Load(n)) - 1
    BY <1>1, <2>1, CountFacts
  <2>3. /\ nodes'[n].promisedSlots = nodes[n].promisedSlots - 1
        /\ Cardinality(Load(n)') + Claiming(n)' <= nodes'[n].promisedSlots
        /\ nodes'[n].promisedSlots <= Slots
    BY <1>1, <1>2, <1>3, <2>2
  <2> QED
    BY <2>3 DEF Covered
<1> QED
  BY <1>4, <1>5

\* Where there has been no fault, there was none before.
LEMMA FaultCounts ==
    ASSUME IInv
    PROVE  /\ \A kind \in FaultKinds : Fault(kind) => faults' # 0
           /\ NoFault => faults' = faults
<1>1. faults \in Nat
  BY LifecycleAssumption DEF IInv, Shapes, RestTyped
<1> QED
  BY <1>1 DEF Fault, NoFault

\* A node is picked: its promise and the claim grow together.
LEMMA PickLoad ==
    ASSUME IInv, Sound, NEW n \in Nodes, PickAndReserve(n) PROVE Sound'
<1>1. /\ sched.at = "next" /\ n \in R!Candidates(nodes, "any", 0)
      /\ nodes' \in R!Picks(nodes, n, 0)
      /\ sched' = [sched EXCEPT !.at = "claim", !.rest = Tail(@), !.exp = Head(sched.rest), !.node = n]
      /\ UNCHANGED <<calls, answering, running, journal, cpUp, up>>
  BY DEF PickAndReserve, Scheduling, dispatchers
<1>2. /\ sched'.at = "claim" /\ sched'.node = n /\ sched'.outcome = sched.outcome
  BY <1>1 DEF IInv, Shapes, MemoryTyped, Sched
<1>3. Alive
  BY DEF Sound
<1>4. /\ nodes' = R!Reserve(nodes, n, 0) /\ nodes[n].known
      /\ nodes[n].promisedSlots < nodes[n].reported.totalSlots
  BY <1>1, <1>3, NoneExpired, AliveRecords, PickFacts
<1>5. /\ SameNodes(nodes, nodes') /\ nodes'[n].promisedSlots = nodes[n].promisedSlots + 1
      /\ \A m \in Nodes \ {n} : nodes'[m] = nodes[m]
  BY <1>3, <1>4, AliveRecords, ReserveFacts
<1>6. Alive'
  BY <1>1, <1>3, <1>5, AliveKept
<1>7. /\ \A m \in Nodes : Load(m)' = Load(m)
      /\ Claiming(n) = 0 /\ Claiming(n)' = 1
      /\ \A m \in Nodes \ {n} : Claiming(m)' = Claiming(m)
  BY <1>1, <1>2 DEF Load, Placing, Claiming
<1>8. Covered'
  <2>1. ASSUME NEW m \in Nodes \ {n}
        PROVE  /\ Cardinality(Load(m)') + Claiming(m)' <= nodes'[m].promisedSlots
               /\ nodes'[m].promisedSlots <= Slots
    BY <1>5, <1>7 DEF Sound, Covered
  <2>2. /\ Cardinality(Load(n)') + Claiming(n)' <= nodes'[n].promisedSlots
        /\ nodes'[n].promisedSlots <= Slots
    <3>1. /\ Cardinality(Load(n)) \in Nat /\ nodes[n].promisedSlots \in Nat /\ Slots \in Nat
          /\ Cardinality(Load(n)) + Claiming(n) <= nodes[n].promisedSlots
          /\ nodes[n].promisedSlots < Slots
      BY <1>3, <1>4, AliveRecords DEF Sound, Covered, Alive
    <3>2. Cardinality(Load(n)') = Cardinality(Load(n))
      BY <1>7
    <3> QED
      BY <1>5, <1>7, <3>1, <3>2
  <2> QED
    BY <2>1, <2>2 DEF Covered
<1>9. OneCall' /\ NoRefusal'
  BY <1>1, <1>2 DEF Sound, OneCall, Waited, NoRefusal
<1> QED
  BY <1>6, <1>8, <1>9 DEF Sound

\* The claim becomes a start.
LEMMA ClaimLoad ==
    ASSUME IInv, Sound, TryMarkExperimentStarting PROVE Sound'
<1>0. PICK e, n : e = sched.exp /\ n = sched.node
  OBVIOUS
<1>1. /\ sched.at = "claim" /\ sched' = [sched EXCEPT !.at = "call"] /\ nodes' = nodes
      /\ UNCHANGED <<calls, answering, running, journal, cpUp, up>>
  BY DEF TryMarkExperimentStarting, Scheduling, dispatchers
<1>2. /\ e \in Experiments /\ n \in Nodes /\ sched \in Sched
  BY <1>0, <1>1, HasInHand DEF Free
<1>3. /\ sched'.at = "call" /\ sched'.exp = e /\ sched'.node = n /\ sched'.outcome = sched.outcome
  BY <1>0, <1>1, <1>2 DEF Sched
<1>4. Alive /\ Alive'
  BY <1>1, AliveKept, SameNodesSame DEF Sound
<1>5. /\ Load(n)' = Load(n) \cup {e} /\ \A m \in Nodes \ {n} : Load(m)' = Load(m)
      /\ Claiming(n) = 1 /\ \A m \in Nodes : Claiming(m)' = 0
  BY <1>0, <1>1, <1>2, <1>3 DEF Load, Placing, Claiming
<1>6. Covered'
  <2>1. ASSUME NEW m \in Nodes \ {n}
        PROVE  /\ Cardinality(Load(m)') + Claiming(m)' <= nodes'[m].promisedSlots
               /\ nodes'[m].promisedSlots <= Slots
    <3>1. Claiming(m)' = Claiming(m)
      BY <1>0, <1>5 DEF Claiming
    <3> QED
      BY <1>1, <1>5, <3>1 DEF Sound, Covered
  <2>2. /\ Cardinality(Load(n)') + Claiming(n)' <= nodes'[n].promisedSlots
        /\ nodes'[n].promisedSlots <= Slots
    <3>1. /\ Cardinality(Load(n)) \in Nat /\ nodes[n].promisedSlots \in Nat
          /\ Load(n) \in SUBSET Experiments
          /\ Cardinality(Load(n)) + Claiming(n) <= nodes[n].promisedSlots
          /\ nodes[n].promisedSlots <= Slots
      BY <1>2, <1>4, AliveRecords DEF Sound, Covered
    <3>2. Cardinality(Load(n) \cup {e}) <= Cardinality(Load(n)) + 1 /\ Cardinality(Load(n) \cup {e}) \in Nat
      <4>1. Load(n) \cup {e} \in SUBSET Experiments
        BY <1>2, <3>1
      <4> QED
        BY <1>2, <3>1, <4>1, CountFacts
    <3>3. nodes'[n].promisedSlots = nodes[n].promisedSlots
      BY <1>1
    <3> QED
      BY <1>2, <1>5, <3>1, <3>2, <3>3
  <2> QED
    BY <2>1, <2>2 DEF Covered
<1>7. OneCall' /\ NoRefusal'
  BY <1>1, <1>3 DEF Sound, OneCall, Waited, NoRefusal
<1> QED
  BY <1>4, <1>6, <1>7 DEF Sound

\* The claim is lost: the promise goes with it.
LEMMA NoLongerPendingLoad ==
    ASSUME IInv, Sound, NoLongerPending PROVE Sound'
<1>0. PICK n : n = sched.node
  OBVIOUS
<1>1. /\ sched.at = "claim" /\ sched' = Continue
      /\ nodes' = R!ReleaseReservation(nodes, n, 0)
      /\ UNCHANGED <<calls, answering, running, journal, cpUp, up>>
  BY <1>0 DEF NoLongerPending, Scheduling, dispatchers
<1>2. n \in Nodes /\ sched \in Sched /\ Alive /\ Covered
  BY <1>0, <1>1, HasInHand DEF Free, Sound
<1>3. sched'.at \in Free /\ sched'.outcome = "none"
  BY <1>1, <1>2, ContinueFacts DEF Free
<1>4. /\ SameNodes(nodes, nodes') /\ \A m \in Nodes \ {n} : nodes'[m] = nodes[m]
      /\ nodes[n].promisedSlots > 0 => nodes'[n].promisedSlots = nodes[n].promisedSlots - 1
  BY <1>1, <1>2, AliveRecords, ReleaseFacts
<1>5. Alive'
  BY <1>1, <1>2, <1>4, AliveKept
<1>6. /\ \A m \in Nodes : Load(m)' = Load(m) /\ Claiming(m)' = 0
      /\ Claiming(n) = 1 /\ \A m \in Nodes \ {n} : Claiming(m) = 0
  BY <1>0, <1>1, <1>3 DEF Load, Placing, Claiming, Free
<1>7. Covered'
  BY <1>2, <1>4, <1>6, ReleasedLoad
<1>8. OneCall' /\ NoRefusal'
  BY <1>1, <1>3 DEF Sound, OneCall, Waited, NoRefusal, Free
<1> QED
  BY <1>5, <1>7, <1>8 DEF Sound

\* The call goes out, the only one.
LEMMA StartLoad ==
    ASSUME IInv, Sound, StartExperiment PROVE Sound'
<1>0. PICK e, n : e = sched.exp /\ n = sched.node
  OBVIOUS
<1>1. /\ sched.at = "call" /\ sched' = [sched EXCEPT !.at = "waiting"] /\ nodes' = nodes
      /\ calls' = calls \cup {<<e, n>>}
      /\ UNCHANGED <<answering, running, journal, cpUp, up>>
  BY <1>0 DEF StartExperiment, Scheduling, dispatchers
<1>2. /\ e \in Experiments /\ n \in Nodes /\ sched \in Sched
  BY <1>0, <1>1, HasInHand DEF Free
<1>3. /\ sched'.at = "waiting" /\ sched'.exp = e /\ sched'.node = n /\ sched'.outcome = sched.outcome
  BY <1>0, <1>1, <1>2 DEF Sched
<1>4. Alive'
  BY <1>1, AliveKept, SameNodesSame DEF Sound
<1>5. Covered'
  <2>1. \A m \in Nodes : Load(m)' = Load(m) /\ Claiming(m)' = Claiming(m)
    BY <1>0, <1>1, <1>3 DEF Load, Placing, Claiming
  <2> QED
    BY <1>1, <2>1 DEF Sound, Covered
<1>6. OneCall'
  BY <1>1, <1>3 DEF Sound, OneCall, Waited
<1>7. NoRefusal'
  BY <1>3 DEF Sound, NoRefusal
<1> QED
  BY <1>4, <1>5, <1>6, <1>7 DEF Sound

\* A refusal for good: the row fails and the promise goes.
LEMMA FailedToStartLoad ==
    ASSUME IInv, Sound, MarkExperimentFailedToStart PROVE Sound'
<1>0. PICK e, n : e = sched.exp /\ n = sched.node
  OBVIOUS
<1>1. /\ sched.at = "decided" /\ sched.outcome = "fatal" /\ sched' = Continue /\ nodes' = Rollback
      /\ UNCHANGED <<calls, answering, running, journal, cpUp, up>>
  BY DEF MarkExperimentFailedToStart, Decided, Scheduling, dispatchers
<1>2. /\ e \in Experiments /\ n \in Nodes /\ sched \in Sched /\ Alive /\ Covered
      /\ run[e] = "never"
  BY <1>0, <1>1, HasInHand DEF Free, Sound, IInv, SchedIsGood, InHand, Untouched
<1>3. sched'.at \in Free /\ sched'.outcome = "none"
  BY <1>1, <1>2, ContinueFacts DEF Free
<1>4. /\ SameNodes(nodes, nodes') /\ \A m \in Nodes \ {n} : nodes'[m] = nodes[m]
      /\ nodes[n].promisedSlots > 0 => nodes'[n].promisedSlots = nodes[n].promisedSlots - 1
  <2> DEFINE released == R!ReleaseReservation(nodes, n, 0)
  <2>1. /\ released \in R!NodeMap /\ SameNodes(nodes, released) /\ released[n].known
        /\ \A m \in Nodes \ {n} : released[m] = nodes[m]
        /\ nodes[n].promisedSlots > 0 => released[n].promisedSlots = nodes[n].promisedSlots - 1
    BY <1>2, AliveRecords, ReleaseFacts DEF SameNodes
  <2> HIDE DEF released
  <2>2. nodes' = R!MarkNodeSucceeded(released, n)
    BY <1>0, <1>1 DEF Rollback, released
  <2>3. /\ SameNodes(released, nodes') /\ \A m \in Nodes \ {n} : nodes'[m] = released[m]
        /\ nodes'[n].promisedSlots = released[n].promisedSlots
    BY <1>2, <2>1, <2>2, SucceededFacts
  <2> QED
    BY <2>1, <2>3 DEF SameNodes
<1>5. Alive'
  BY <1>1, <1>2, <1>4, AliveKept
<1>6. \A m \in Nodes : e \notin running[m] /\ journal[m][e] = "none"
  <2>1. \A m \in Nodes : e \notin running[m]
    BY <1>2 DEF IInv, OnePlace, InOnePlace
  <2>2. ASSUME NEW m \in Nodes PROVE journal[m][e] = "none"
    <3>1. journal[m][e] # "never"
      BY <1>2 DEF IInv, Shapes, DispatchersTyped, Terminal
    <3>2. journal[m][e] # "none" => run[e] = journal[m][e]
      BY <1>2 DEF IInv, OnePlace, InOnePlace
    <3> QED
      BY <1>2, <3>1, <3>2
  <2> QED
    BY <2>1, <2>2
<1>7. /\ e \in Load(n) /\ Load(n)' = Load(n) \ {e} /\ \A m \in Nodes \ {n} : Load(m)' = Load(m)
      /\ \A m \in Nodes : Claiming(m) = 0 /\ Claiming(m)' = 0
  BY <1>0, <1>1, <1>2, <1>3, <1>6 DEF Load, Placing, Claiming, Free
<1>8. Covered'
  BY <1>2, <1>4, <1>7, ReleasedLoad
<1>9. OneCall' /\ NoRefusal'
  BY <1>1, <1>3 DEF Sound, OneCall, Waited, NoRefusal, Free
<1> QED
  BY <1>5, <1>8, <1>9 DEF Sound

\* The other steps of the scheduler; no answer, and a refusal that may be retried, take a fault.
LEMMA SchedulerLoad ==
    ASSUME IInv, Sound, faults' = 0, SchedulerStep PROVE Sound'
<1>1. Alive /\ NoRefusal /\ OneCall
  BY DEF Sound
<1>2. CASE PopBatch \/ Reconcile \/ ReadActiveNodes
  <2>1. /\ sched.at \in {"idle", "reconcile"} /\ nodes' = nodes
        /\ UNCHANGED <<calls, answering, running, journal, cpUp, up>>
    BY <1>2 DEF PopBatch, Reconcile, MarkOrphanedExperimentsFailed, ReadActiveNodes, Scheduling,
                dispatchers
  <2>2. sched'.at \in Free /\ sched'.outcome \in {"none", "accepted", "fatal"}
    <3>1. CASE PopBatch
      BY <3>1 DEF PopBatch, IdleSched, Free
    <3>2. CASE Reconcile
      BY <3>2 DEF Reconcile, MarkOrphanedExperimentsFailed, IdleSched, Free
    <3>3. CASE ReadActiveNodes
      BY <1>1, <3>3 DEF ReadActiveNodes, Free, NoRefusal, IInv, Shapes, MemoryTyped, Sched
    <3> QED
      BY <1>2, <3>1, <3>2, <3>3
  <2>3. Alive'
    BY <1>1, <2>1, AliveKept, SameNodesSame
  <2> QED
    BY <2>1, <2>2, <2>3, FreeLoad
<1>3. CASE NoNodeFits
  <2>1. /\ sched.at = "next" /\ UNCHANGED <<calls, answering, running, journal, cpUp, up>>
    BY <1>3 DEF NoNodeFits, Scheduling, dispatchers
  <2>2. nodes' = nodes
    BY <1>1, <1>3, NoneExpired DEF NoNodeFits
  <2>3. sched'.at \in Free /\ sched'.outcome = "none"
    BY <1>3 DEF NoNodeFits, IdleSched, Free
  <2>4. Alive'
    BY <1>1, <2>1, <2>2, AliveKept, SameNodesSame
  <2> QED
    BY <2>1, <2>2, <2>3, <2>4, FreeLoad
<1>4. CASE KeepStarting
  <2>1. /\ sched.at = "decided" /\ sched.outcome \in {"accepted", "already_running"}
        /\ nodes' = R!MarkNodeSucceeded(nodes, sched.node) /\ sched' = Continue
        /\ UNCHANGED <<calls, answering, running, journal, cpUp, up>>
    BY <1>4 DEF KeepStarting, Scheduling, dispatchers
  <2>2. sched \in Sched /\ sched.node \in Nodes
    BY <2>1, HasInHand DEF Free
  <2>3. sched'.at \in Free /\ sched'.outcome = "none"
    BY <2>1, <2>2, ContinueFacts DEF Free
  <2>4. SameNodes(nodes, nodes') /\ \A n \in Nodes : nodes'[n].promisedSlots = nodes[n].promisedSlots
    BY <1>1, <2>1, <2>2, AliveRecords, SucceededFacts
  <2>5. Alive'
    BY <1>1, <2>1, <2>4, AliveKept
  <2> QED
    BY <2>1, <2>3, <2>4, <2>5, FreeLoad
<1>5. CASE Requeue
  <2>1. /\ sched.at = "requeue" /\ sched' = Continue /\ nodes' = nodes
        /\ UNCHANGED <<calls, answering, running, journal, cpUp, up>>
    BY <1>5 DEF Requeue, Scheduling, dispatchers
  <2>2. sched'.at \in Free /\ sched'.outcome = "none"
    BY <2>1, HasInHand, ContinueFacts DEF Free
  <2>3. Alive'
    BY <1>1, <2>1, AliveKept, SameNodesSame
  <2> QED
    BY <2>1, <2>2, <2>3, FreeLoad
<1>6. CASE ClaimFails \/ RollbackFails
  BY <1>6, FaultCounts DEF ClaimFails, RollbackFails, FaultKinds
<1>7. CASE NoAnswer
  <2>1. sched.at = "waiting"
    BY <1>7 DEF NoAnswer, Scheduling
  <2>2. sched.exp \in Experiments /\ sched.node \in Nodes
    BY <2>1, HasInHand DEF Free
  <2>3. <<sched.exp, sched.node>> \in calls \/ sched.exp \in answering[sched.node]
    BY <1>1, <2>1, <2>2 DEF OneCall, Waited
  <2>4. Answerable
    BY <1>1, <2>2, <2>3 DEF Answerable, Alive
  <2> QED
    BY <1>7, <2>4, FaultCounts DEF NoAnswer, FaultKinds
<1>8. CASE MarkExperimentPending \/ LeaveStarting
  BY <1>1, <1>8 DEF MarkExperimentPending, LeaveStarting, Decided, NoRefusal
<1> QED
  BY <1>2, <1>3, <1>4, <1>5, <1>6, <1>7, <1>8, PickLoad, ClaimLoad, NoLongerPendingLoad,
     StartLoad, FailedToStartLoad DEF SchedulerStep

\* The control plane's other steps; before the first fault it is not down.
LEMMA ControlPlaneLoad ==
    ASSUME IInv, Sound, faults' = 0,
           \/ SubmitEnqueues \/ SubmitFails \/ ControlPlaneCrash \/ ControlPlaneStart
           \/ UNCHANGED vars
           \/ \E e \in Experiments : CancelHandler(e)
    PROVE  Sound'
<1>1. Alive
  BY DEF Sound
<1>2. CASE SubmitFails \/ ControlPlaneCrash \/ ControlPlaneStart
  BY <1>1, <1>2, FaultCounts DEF SubmitFails, ControlPlaneCrash, ControlPlaneStart, FaultKinds, Alive
<1>3. CASE SubmitEnqueues \/ UNCHANGED vars
  <2>1. /\ UNCHANGED <<sched, calls, answering, running, journal>>
        /\ UNCHANGED <<cpUp, up>> /\ nodes' = nodes
    BY <1>3 DEF SubmitEnqueues, vars, cp, dispatchers
  <2>2. Alive'
    BY <1>1, <2>1, AliveKept, SameNodesSame
  <2> QED
    BY <2>1, <2>2, QuietLoad
<1>4. ASSUME NEW e \in Experiments, CancelHandler(e) PROVE Sound'
  <2>1. /\ UNCHANGED <<sched, calls, answering, running, journal>>
        /\ UNCHANGED <<cpUp, up>>
    BY <1>4 DEF CancelHandler, GetExperimentForCancel, RemoveFromQueue,
                MarkPendingExperimentCanceled, CancelFails, StopExperiment, dispatchers
  <2>2. nodes' = nodes
    <3>1. CASE GetExperimentForCancel(e)
      <4>1. status[e] = "STARTING" => nodeOf[e] \in Nodes
        BY DEF IInv, RowsAreGood, RowIsGood
      <4> QED
        BY <1>1, <3>1, <4>1, NoneExpired DEF GetExperimentForCancel
    <3>2. CASE \/ RemoveFromQueue(e) \/ MarkPendingExperimentCanceled(e) \/ CancelFails(e)
               \/ StopExperiment(e)
      BY <3>2 DEF RemoveFromQueue, MarkPendingExperimentCanceled, CancelFails, StopExperiment
    <3> QED
      BY <1>4, <3>1, <3>2 DEF CancelHandler
  <2>3. Alive'
    BY <1>1, <2>1, <2>2, AliveKept, SameNodesSame
  <2> QED
    BY <2>1, <2>2, <2>3, QuietLoad
<1> QED
  BY <1>2, <1>3, <1>4

\* Before the first fault a dispatcher has a slot for whatever it is asked to run.
LEMMA RoomForTheCall ==
    ASSUME IInv, RegistriesAreGood, Sound, NEW e \in Experiments, NEW n \in Nodes,
           <<e, n>> \in calls
    PROVE  D!Refusal(registry[n], e, 0) = "none"
<1>1. /\ Waited(e, n) /\ \A x \in Experiments : x \in answering[n] => x = e
      /\ Alive /\ Covered
  BY DEF Sound, OneCall, Waited
<1>2. /\ e \notin answering[n] /\ e \notin running[n]
  BY DEF IInv, OnePlace, InOnePlace
<1>3. answering[n] = {} /\ Held(n) = running[n] /\ running[n] \subseteq Experiments
  BY <1>1, <1>2 DEF Held, IInv, Shapes, DispatchersTyped
<1>4. ~D!CanCancel(registry[n], e)
  BY <1>2, <1>3 DEF RegistriesAreGood, GoodRegistry
<1>5. registry[n].usedSlots < Slots
  <2>1. e \in Load(n) /\ running[n] \subseteq Load(n) \ {e} /\ Load(n) \in SUBSET Experiments
    BY <1>1, <1>2, <1>3 DEF Load, Placing, Waited
  <2>2. Cardinality(Load(n) \ {e}) = Cardinality(Load(n)) - 1 /\ Cardinality(Load(n)) \in Nat
    BY <2>1, CountFacts
  <2>3. Cardinality(running[n]) <= Cardinality(Load(n) \ {e})
    <3>1. Load(n) \ {e} \in SUBSET Experiments
      BY <2>1
    <3> QED
      BY <2>1, <3>1, SmallerSet
  <2>4. Cardinality(running[n]) \in Nat
    BY <1>3, CountFacts
  <2>5. Cardinality(Load(n)) <= Slots
    <3>1. nodes[n].promisedSlots \in Nat /\ Slots \in Nat
      BY <1>1, AliveRecords
    <3>2. Cardinality(Load(n)) + 0 <= nodes[n].promisedSlots /\ nodes[n].promisedSlots <= Slots
      BY <1>1 DEF Covered, Claiming, Waited
    <3> QED
      BY <2>2, <3>1, <3>2
  <2>6. registry[n].usedSlots = Cardinality(running[n])
    BY <1>3 DEF RegistriesAreGood, GoodRegistry
  <2>7. Slots \in Nat
    BY LifecycleAssumption
  <2> QED
    BY <2>2, <2>3, <2>4, <2>5, <2>6, <2>7
<1>6. ~D!NoFreeSlots(registry[n])
  <2>1. registry[n].usedSlots \in Nat /\ registry[n].totalSlots = Slots /\ Slots \in Nat
    BY LifecycleAssumption
       DEF RegistriesAreGood, GoodRegistry, IInv, Shapes, DispatchersTyped, D!Registry
  <2> QED
    BY <1>5, <2>1 DEF D!NoFreeSlots
<1>7. ~D!NotEnoughMemory(registry[n], 0)
  BY DEF D!NotEnoughMemory
<1> QED
  BY <1>4, <1>6, <1>7 DEF D!Refusal, D!CanCancel

\* A call that is refused was malformed.
LEMMA CallRefusedLoad ==
    ASSUME IInv, RegistriesAreGood, Sound, NEW e \in Experiments, NEW n \in Nodes,
           CallRefused(e, n)
    PROVE  Sound'
<1>1. /\ <<e, n>> \in calls /\ calls' = calls \ {<<e, n>>} /\ nodes' = nodes
      /\ UNCHANGED <<answering, running, journal, cpUp, up>>
  BY DEF CallRefused, dispatchers
<1>2. Reply(e, n, "fatal")
  BY <1>1, RoomForTheCall DEF CallRefused
<1>3. Waited(e, n) /\ Alive /\ sched \in Sched
  BY <1>1 DEF Sound, OneCall, IInv, Shapes, MemoryTyped
<1>4. /\ sched'.exp = e /\ sched'.node = n /\ sched'.at = "decided" /\ sched'.outcome = "fatal"
  BY <1>2, <1>3, ReplyFacts DEF Outcomes, Waited, Alive
<1>5. Alive'
  BY <1>1, <1>3, AliveKept, SameNodesSame
<1>6. Covered'
  <2>1. \A m \in Nodes : Load(m)' = Load(m) /\ Claiming(m)' = Claiming(m)
    BY <1>1, <1>3, <1>4 DEF Load, Placing, Claiming, Waited
  <2> QED
    BY <1>1, <2>1 DEF Sound, Covered
<1>7. OneCall'
  <2>1. \A m \in Nodes : e \notin answering[m]
    BY <1>1 DEF IInv, OnePlace, InOnePlace
  <2> QED
    BY <1>1, <1>3, <1>4, <2>1 DEF Sound, OneCall, Waited
<1>8. NoRefusal'
  BY <1>4 DEF NoRefusal
<1> QED
  BY <1>5, <1>6, <1>7, <1>8 DEF Sound

\* From the call to its handler.
LEMMA CallAdmittedLoad ==
    ASSUME IInv, Sound, NEW e \in Experiments, NEW n \in Nodes, CallAdmitted(e, n)
    PROVE  Sound'
<1>1. /\ <<e, n>> \in calls /\ calls' = calls \ {<<e, n>>} /\ nodes' = nodes
      /\ answering' = [answering EXCEPT ![n] = @ \cup {e}]
      /\ UNCHANGED <<sched, running, journal, cpUp, up>>
  BY DEF CallAdmitted, cp
<1>2. /\ answering'[n] = answering[n] \cup {e}
      /\ \A m \in Nodes \ {n} : answering'[m] = answering[m]
  BY <1>1 DEF IInv, Shapes, DispatchersTyped
<1>3. Alive'
  BY <1>1, AliveKept, SameNodesSame DEF Sound
<1>4. Covered'
  <2>1. \A m \in Nodes : Load(m)' = Load(m) /\ Claiming(m)' = Claiming(m)
    BY <1>1 DEF Load, Placing, Claiming
  <2> QED
    BY <1>1, <2>1 DEF Sound, Covered
<1>5. OneCall'
  <2> SUFFICES ASSUME NEW x \in Experiments, NEW m \in Nodes
               PROVE  <<x, m>> \in calls' \/ x \in answering'[m] <=> Waited(x, m)
    BY <1>1 DEF OneCall, Waited
  <2>1. <<x, m>> \in calls \/ x \in answering[m] <=> Waited(x, m)
    BY DEF Sound, OneCall
  <2>2. CASE x = e /\ m = n
    BY <1>1, <1>2, <2>1, <2>2
  <2>3. CASE ~(x = e /\ m = n)
    BY <1>1, <1>2, <2>1, <2>3
  <2> QED
    BY <2>2, <2>3
<1>6. NoRefusal'
  BY <1>1 DEF Sound, NoRefusal
<1> QED
  BY <1>3, <1>4, <1>5, <1>6 DEF Sound

\* The start becomes a run.
LEMMA HandOffLoad ==
    ASSUME IInv, Sound, NEW e \in Experiments, NEW n \in Nodes, HandOff(e, n)
    PROVE  Sound'
<1>1. /\ e \in answering[n] /\ nodes' = nodes /\ Reply(e, n, "accepted")
      /\ answering' = [answering EXCEPT ![n] = @ \ {e}]
      /\ running' = [running EXCEPT ![n] = @ \cup {e}]
      /\ UNCHANGED <<calls, journal, cpUp, up>>
  BY DEF HandOff
<1>2. /\ answering'[n] = answering[n] \ {e} /\ \A m \in Nodes \ {n} : answering'[m] = answering[m]
      /\ running'[n] = running[n] \cup {e} /\ \A m \in Nodes \ {n} : running'[m] = running[m]
  BY <1>1 DEF IInv, Shapes, DispatchersTyped
<1>3. Waited(e, n) /\ Alive /\ sched \in Sched /\ \A m \in Nodes : <<e, m>> \notin calls
  BY <1>1, BeingAnswered DEF Sound, OneCall, IInv, Shapes, MemoryTyped
<1>4. /\ sched'.exp = e /\ sched'.node = n /\ sched'.at = "decided" /\ sched'.outcome = "accepted"
  BY <1>1, <1>3, ReplyFacts DEF Outcomes, Waited, Alive
<1>5. Alive'
  BY <1>1, <1>3, AliveKept, SameNodesSame
<1>6. Covered'
  <2>1. Load(n)' = Load(n) /\ Claiming(n)' = Claiming(n)
    BY <1>1, <1>2, <1>3, <1>4 DEF Load, Placing, Claiming, Waited
  <2>2. \A m \in Nodes \ {n} : Load(m)' = Load(m) /\ Claiming(m)' = Claiming(m)
    BY <1>1, <1>2, <1>3, <1>4 DEF Load, Placing, Claiming, Waited
  <2> QED
    BY <1>1, <2>1, <2>2 DEF Sound, Covered
<1>7. OneCall'
  <2>1. ASSUME NEW x \in Experiments, NEW m \in Nodes PROVE <<x, m>> \notin calls /\ x \notin answering'[m]
    <3>1. <<x, m>> \in calls \/ x \in answering[m] => x = e /\ m = n
      BY <1>3 DEF Sound, OneCall, Waited
    <3> QED
      BY <1>2, <1>3, <3>1
  <2> QED
    BY <1>1, <1>4, <2>1 DEF OneCall, Waited
<1>8. NoRefusal'
  BY <1>4 DEF NoRefusal
<1> QED
  BY <1>5, <1>6, <1>7, <1>8 DEF Sound

\* The run becomes a result in the journal.
LEMMA RunEndsLoad ==
    ASSUME IInv, Sound, NEW e \in Experiments, NEW n \in Nodes, RunEnds(e, n)
    PROVE  Sound'
<1>1. /\ e \in running[n] /\ nodes' = nodes
      /\ running' = [running EXCEPT ![n] = @ \ {e}]
      /\ UNCHANGED <<sched, calls, answering, cpUp, up>>
  BY DEF RunEnds, cp
<1>2. PICK final \in Terminal : journal' = [journal EXCEPT ![n][e] = final]
  <2>1. \A result \in Terminal : D!FinalStatus(registry[n], e, result) \in Terminal
    BY FinishFacts DEF IInv, Shapes, DispatchersTyped
  <2> QED
    BY <2>1 DEF RunEnds, Terminal
<1>3. /\ running'[n] = running[n] \ {e} /\ \A m \in Nodes \ {n} : running'[m] = running[m]
      /\ journal'[n][e] # "none" /\ \A m \in Nodes \ {n} : journal'[m] = journal[m]
      /\ \A x \in Experiments \ {e} : journal'[n][x] = journal[n][x]
  BY <1>1, <1>2 DEF IInv, Shapes, DispatchersTyped, Terminal
<1>4. Alive'
  BY <1>1, AliveKept, SameNodesSame DEF Sound
<1>5. Covered'
  <2>1. \A m \in Nodes : Claiming(m)' = Claiming(m)
    BY <1>1 DEF Claiming
  <2>2. Load(n)' = Load(n)
    BY <1>1, <1>3 DEF Load, Placing
  <2>3. \A m \in Nodes \ {n} : Load(m)' = Load(m)
    BY <1>1, <1>3 DEF Load, Placing
  <2> QED
    BY <1>1, <2>1, <2>2, <2>3 DEF Sound, Covered
<1>6. OneCall' /\ NoRefusal'
  BY <1>1 DEF Sound, OneCall, Waited, NoRefusal
<1> QED
  BY <1>4, <1>5, <1>6 DEF Sound

\* A step of a run at its node; a request given up before its caller gives up is a fault.
LEMMA RunsLoad ==
    ASSUME IInv, RegistriesAreGood, Sound, faults' = 0,
           NEW e \in Experiments, NEW n \in Nodes, ExperimentAt(e, n)
    PROVE  Sound'
<1>1. Alive
  BY DEF Sound
<1>2. CASE RequestCanceled(e, n)
  <2>1. Waited(e, n)
    BY <1>2 DEF RequestCanceled, Sound, OneCall
  <2> QED
    BY <1>1, <1>2, <2>1, FaultCounts DEF RequestCanceled, Scheduling, Waited, Alive, FaultKinds
<1>3. CASE ReportSent(e, n)
  <2>1. /\ UNCHANGED <<sched, calls, answering, running, journal>>
        /\ UNCHANGED <<cpUp, up>> /\ nodes' = nodes
    BY <1>3 DEF ReportSent, cp
  <2>2. Alive'
    BY <1>1, <2>1, AliveKept, SameNodesSame
  <2> QED
    BY <2>1, <2>2, QuietLoad
<1> QED
  BY <1>2, <1>3, CallRefusedLoad, CallAdmittedLoad, HandOffLoad, RunEndsLoad DEF ExperimentAt

\* The result is acknowledged: it leaves the journal, and its promise goes.
LEMMA AcknowledgedLoad ==
    ASSUME IInv, Sound, NEW n \in Nodes, ReportAcknowledged(n) PROVE Sound'
<1>0. PICK e : e = reporter[n].exp
  OBVIOUS
<1>1. /\ reporter[n].at = "stored" /\ nodes' = R!ReleaseReservation(nodes, n, 0)
      /\ journal' = [journal EXCEPT ![n][e] = "none"]
      /\ UNCHANGED <<sched, calls, answering, running, cpUp, up>>
  BY <1>0 DEF ReportAcknowledged, ReportAnswered
<1>2. /\ e \in Experiments /\ journal[n][e] \in Terminal /\ run[e] = journal[n][e]
      /\ Alive /\ Covered
  BY <1>0, <1>1, BeingReported DEF Sound
<1>3. run[e] # "never" /\ run[e] # "running" /\ journal[n][e] # "none"
  BY <1>2 DEF Terminal
<1>4. e \notin running[n]
  BY <1>2, <1>3 DEF IInv, OnePlace, InOnePlace
<1>5. ~Placing(e, n)
  BY <1>3 DEF Placing, IInv, SchedIsGood, InHand, Untouched
<1>6. /\ journal'[n][e] = "none" /\ \A m \in Nodes \ {n} : journal'[m] = journal[m]
      /\ \A x \in Experiments \ {e} : journal'[n][x] = journal[n][x]
  BY <1>1, <1>2 DEF IInv, Shapes, DispatchersTyped
<1>7. /\ SameNodes(nodes, nodes') /\ \A m \in Nodes \ {n} : nodes'[m] = nodes[m]
      /\ nodes[n].promisedSlots > 0 => nodes'[n].promisedSlots = nodes[n].promisedSlots - 1
  BY <1>1, <1>2, AliveRecords, ReleaseFacts
<1>8. Alive'
  BY <1>1, <1>2, <1>7, AliveKept
<1>9. \A m \in Nodes : Claiming(m)' = Claiming(m)
  BY <1>1 DEF Claiming
<1>10. e \in Load(n) /\ Load(n)' = Load(n) \ {e} /\ \A m \in Nodes \ {n} : Load(m)' = Load(m)
  <2>1. \A x \in Experiments, m \in Nodes : Placing(x, m)' = Placing(x, m)
    BY <1>1 DEF Placing
  <2> QED
    BY <1>1, <1>2, <1>3, <1>4, <1>5, <1>6, <2>1 DEF Load
<1>11. Covered'
  <2>1. ASSUME NEW m \in Nodes \ {n}
        PROVE  /\ Cardinality(Load(m)') + Claiming(m)' <= nodes'[m].promisedSlots
               /\ nodes'[m].promisedSlots <= Slots
    BY <1>2, <1>7, <1>9, <1>10 DEF Covered
  <2>2. /\ Cardinality(Load(n)') + Claiming(n)' <= nodes'[n].promisedSlots
        /\ nodes'[n].promisedSlots <= Slots
    <3>1. /\ Cardinality(Load(n)) \in Nat /\ nodes[n].promisedSlots \in Nat /\ Slots \in Nat
          /\ Load(n) \in SUBSET Experiments
          /\ Cardinality(Load(n)) + Claiming(n) <= nodes[n].promisedSlots
          /\ nodes[n].promisedSlots <= Slots
      BY <1>2, AliveRecords DEF Covered
    <3>2. Cardinality(Load(n)) > 0 /\ Cardinality(Load(n)') = Cardinality(Load(n)) - 1
      BY <1>2, <1>10, <3>1, CountFacts
    <3>3. Claiming(n) \in {0, 1}
      BY DEF Claiming
    <3> QED
      BY <1>7, <1>9, <3>1, <3>2, <3>3
  <2> QED
    BY <2>1, <2>2 DEF Covered
<1>12. OneCall' /\ NoRefusal'
  BY <1>1 DEF Sound, OneCall, Waited, NoRefusal
<1> QED
  BY <1>8, <1>11, <1>12 DEF Sound

\* The other steps of a node.
LEMMA NodesLoad ==
    ASSUME IInv, Sound, faults' = 0, NEW n \in Nodes, Node(n) PROVE Sound'
<1>1. Alive
  BY DEF Sound
<1>2. CASE UpdateFails(n) \/ ReportReplyLost(n) \/ NodeCrash(n)
  BY <1>2, FaultCounts DEF UpdateFails, ReportReplyLost, NodeCrash, FaultKinds
<1>3. CASE Expire(n) \/ NodeStart(n)
  BY <1>1, <1>3, FaultCounts DEF Expire, NodeStart, Alive, FaultKinds
<1>4. CASE UpdateExperimentResult(n)
  <2>1. /\ UNCHANGED <<sched, calls, answering, running, journal>>
        /\ UNCHANGED <<cpUp, up>> /\ nodes' = nodes
    BY <1>4 DEF UpdateExperimentResult, cp
  <2>2. Alive'
    BY <1>1, <2>1, AliveKept, SameNodesSame
  <2> QED
    BY <2>1, <2>2, QuietLoad
<1>5. CASE Heartbeat(n)
  <2>1. /\ UNCHANGED <<sched, calls, answering, running, journal>>
        /\ cpUp' = cpUp /\ up' = up
        /\ HeardFrom(n, registry[n].usedSlots)
    BY <1>5 DEF Heartbeat, dispatchers
  <2>2. registry[n].usedSlots \in Nat
    BY DEF IInv, Shapes, DispatchersTyped, D!Registry
  <2> DEFINE reported == [platform |-> "any", totalSlots |-> Slots,
                          usedSlots |-> registry[n].usedSlots,
                          totalMemory |-> 0, reservedMemory |-> 0]
  <2>3. /\ reported \in R!NodeStatus /\ reported.totalSlots = Slots
        /\ nodes' = R!Heartbeat(nodes, n, reported)
    BY <2>1, <2>2, LoadTyped DEF HeardFrom
  <2> HIDE DEF reported
  <2>4. /\ \A m \in Nodes \ {n} : nodes'[m] = nodes[m]
        /\ nodes'[n].known /\ nodes'[n].fresh /\ nodes'[n].reported = reported
        /\ nodes'[n].promisedSlots = nodes[n].promisedSlots
    BY <1>1, <2>3, AliveRecords, HeartbeatFacts
  <2>5. Alive'
    <3>1. ASSUME NEW m \in Nodes
          PROVE  up'[m] /\ R!Fresh(nodes', m) /\ nodes'[m].reported.totalSlots = Slots
      <4>1. CASE m = n
        BY <1>1, <2>1, <2>3, <2>4, <4>1 DEF Alive, R!Fresh
      <4>2. CASE m # n
        BY <1>1, <2>1, <2>4, <4>2 DEF Alive, R!Fresh
      <4> QED
        BY <4>1, <4>2
    <3> QED
      BY <1>1, <2>1, <3>1 DEF Alive
  <2>6. \A m \in Nodes : nodes'[m].promisedSlots = nodes[m].promisedSlots
    BY <2>4
  <2> QED
    BY <2>1, <2>5, <2>6, QuietLoad
<1> QED
  BY <1>2, <1>3, <1>4, <1>5, AcknowledgedLoad DEF Node

\* While there is no fault there was none, and a step keeps the load covered.
LEMMA NothingLostPreserved == LoadInv /\ [Next]_vars => NothingLost'
<1> SUFFICES ASSUME LoadInv, [Next]_vars, faults' = 0 PROVE Sound'
  BY DEF NothingLost
<1>1. IInv /\ RegistriesAreGood
  BY DEF LoadInv
<1>2. faults = 0
  <2>1. NoFault \/ (\E kind \in FaultKinds : Fault(kind)) \/ UNCHANGED vars
    <3>1. CASE SubmitEnqueues \/ SubmitFails \/ ControlPlaneCrash \/ ControlPlaneStart
      BY <3>1 DEF SubmitEnqueues, SubmitFails, ControlPlaneCrash, ControlPlaneStart, FaultKinds
    <3>2. CASE SchedulerStep
      BY <3>2 DEF SchedulerStep, PopBatch, PickAndReserve, NoNodeFits, TryMarkExperimentStarting,
                  NoLongerPending, ClaimFails, StartExperiment, NoAnswer, KeepStarting,
                  MarkExperimentPending, Requeue, MarkExperimentFailedToStart, RollbackFails,
                  LeaveStarting, ReadActiveNodes, Reconcile, MarkOrphanedExperimentsFailed, FaultKinds
    <3>3. CASE \E e \in Experiments : CancelHandler(e)
      BY <3>3 DEF CancelHandler, GetExperimentForCancel, RemoveFromQueue,
                  MarkPendingExperimentCanceled, CancelFails, StopExperiment, FaultKinds
    <3>4. CASE \E e \in Experiments, n \in Nodes : ExperimentAt(e, n)
      BY <3>4 DEF ExperimentAt, CallRefused, CallAdmitted, HandOff, RequestCanceled, RunEnds,
                  ReportSent, FaultKinds
    <3>5. CASE \E n \in Nodes : Node(n)
      BY <3>5 DEF Node, UpdateExperimentResult, UpdateFails, ReportAcknowledged, ReportReplyLost,
                  Heartbeat, Expire, NodeCrash, NodeStart, FaultKinds
    <3> QED
      BY <3>1, <3>2, <3>3, <3>4, <3>5 DEF Next
  <2> QED
    BY <1>1, <2>1, FaultCounts DEF vars
<1>3. Sound
  BY <1>2 DEF LoadInv, NothingLost
<1> QED
  BY <1>1, <1>3, ControlPlaneLoad, SchedulerLoad, RunsLoad, NodesLoad DEF Next

\* At the start there is no load to cover.
LEMMA InitNothingLost == Init => NothingLost
<1> SUFFICES ASSUME Init PROVE Sound
  BY DEF NothingLost
<1>1. Alive
  BY DEF Init, Alive, R!Fresh, R!NewRecord
<1>2. OneCall /\ NoRefusal
  BY IdleSchedFacts DEF Init, OneCall, Waited, NoRefusal
<1>3. Covered
  <2>1. \A n \in Nodes : Load(n) = {} /\ Claiming(n) = 0
    BY IdleSchedFacts DEF Init, Load, Placing, Claiming
  <2>2. \A n \in Nodes : nodes[n].promisedSlots = 0
    BY DEF Init, R!NewRecord
  <2>3. Cardinality({}) = 0 /\ Slots \in Nat
    BY FS_EmptySet, LifecycleAssumption
  <2> QED
    BY <2>1, <2>2, <2>3 DEF Covered
<1> QED
  BY <1>1, <1>2, <1>3 DEF Sound

\* The inductive invariant of the load: the registries of the dispatchers count what they
\* hold, and while nothing has failed the promises cover it.
THEOREM LoadInvariance == Spec => []LoadInv
<1>1. Init => LoadInv
  BY InitIInv, InitRegistries, InitNothingLost DEF LoadInv
<1>2. LoadInv /\ [Next]_vars => LoadInv'
  BY NextPreserves, RegistriesPreserved, NothingLostPreserved DEF LoadInv
<1> QED
  BY <1>1, <1>2, PTL DEF Spec

\* While nothing has failed, the promises of the scheduler (node_registry.go,
\* PickAndReserve) cover the slots in use on each dispatcher (dispatcher/registry.go,
\* TryStart), and no start is refused for want of one.
THEOREM LoadIsCovered == Spec => []ReservationsCoverLoad
<1>1. LoadInv => ReservationsCoverLoad
  <2> SUFFICES ASSUME LoadInv, faults = 0 PROVE ReservationsCoverLoad
    BY DEF ReservationsCoverLoad
  <2>1. IInv /\ RegistriesAreGood /\ Sound
    BY DEF LoadInv, NothingLost
  <2>2. sched.outcome # "retryable"
    BY <2>1 DEF Sound, NoRefusal
  <2>3. ASSUME NEW n \in Nodes PROVE registry[n].usedSlots <= nodes[n].promisedSlots
    <3>1. /\ nodes[n].promisedSlots \in Nat /\ Load(n) \in SUBSET Experiments
          /\ Cardinality(Load(n)) \in Nat
      BY <2>1, AliveRecords DEF Sound
    <3>2. Held(n) \in SUBSET Load(n)
      BY <2>1 DEF Held, Load, Placing, Sound, OneCall, Waited, IInv, Shapes, DispatchersTyped
    <3>3. Cardinality(Held(n)) <= Cardinality(Load(n))
      BY <3>1, <3>2, SmallerSet
    <3>4. registry[n].usedSlots = Cardinality(Held(n)) /\ Cardinality(Held(n)) \in Nat
      <4>1. registry[n].usedSlots = Cardinality(Held(n))
        BY <2>1 DEF RegistriesAreGood, GoodRegistry
      <4>2. registry[n].usedSlots \in Nat
        BY <2>1 DEF IInv, Shapes, DispatchersTyped, D!Registry
      <4> QED
        BY <4>1, <4>2
    <3>5. Cardinality(Load(n)) + Claiming(n) <= nodes[n].promisedSlots /\ Claiming(n) \in {0, 1}
      BY <2>1 DEF Sound, Covered, Claiming
    <3> QED
      BY <3>1, <3>3, <3>4, <3>5
  <2> QED
    BY <2>2, <2>3 DEF ReservationsCoverLoad
<1> QED
  BY <1>1, LoadInvariance, PTL
=============================================================================
