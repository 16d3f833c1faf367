--------------------------- MODULE SimulationProofs ---------------------------
(***************************************************************************)
(* Theorems of EventQueue and Simulation for every text the front end      *)
(* accepts: the event queue is a heap, so that the event popped is always  *)
(* an earliest one; the globals of the process have their types and what a *)
(* block holds fits a value of its capacity; model time never runs         *)
(* backwards; and a step writes one STAT line or none, by the points it    *)
(* passes.                                                                 *)
(***************************************************************************)
EXTENDS Simulation, FiniteSets, FiniteSetTheorems, NaturalsInduction, WellFoundedInduction, TLAPS

------------------------------------------------------------------------------
(* Induction and loops. *)

\* Induction over the natural numbers.
LEMMA NumbersInduct ==
    ASSUME NEW G, 0 \in G, \A k \in Nat : k \in G => k + 1 \in G
    PROVE  Nat \subseteq G
<1> SUFFICES ASSUME NEW n \in Nat, n \notin G PROVE FALSE
  OBVIOUS
<1> DEFINE bad == {k \in Nat : k \notin G}
<1>1. bad \subseteq Nat /\ bad # {}
  OBVIOUS
<1> HIDE DEF bad
<1>2. PICK k \in bad : \A j \in bad : ~ (<<j, k>> \in OpToRel(<, Nat))
  BY <1>1, NatLessThanWellFounded, WFMin
<1>3. \A j \in Nat : j < k => j \in G
  BY <1>1, <1>2 DEF bad, OpToRel
<1>4. k \in Nat /\ k \notin G /\ k # 0
  BY DEF bad
<1>5. k - 1 \in Nat /\ k - 1 < k /\ (k - 1) + 1 = k
  BY <1>4
<1> QED
  BY <1>3, <1>4, <1>5

\* f is what the rounds of a loop come to, the one after the other.
IsLoop(f, n, base, step) ==
    /\ f[0] = base
    /\ \A i \in 1..n : f[i] = step[<<i, f[i - 1]>>]

\* There is such a function.
LEMMA LoopExists ==
    ASSUME NEW A, NEW n \in Nat, NEW base \in A, NEW step \in [(1..n) \X A -> A]
    PROVE  \E f \in [0..n -> A] : IsLoop(f, n, base, step)
<1> DEFINE G == {k \in Nat : k <= n => \E f \in [0..k -> A] : IsLoop(f, k, base, step)}
<1>1. 0 \in G
  <2> DEFINE f == [i \in 0..0 |-> base]
  <2>1. f \in [0..0 -> A] /\ IsLoop(f, 0, base, step)
    BY DEF IsLoop
  <2> QED
    BY <2>1
<1>2. ASSUME NEW k \in Nat, k \in G PROVE k + 1 \in G
  <2> SUFFICES ASSUME k + 1 <= n PROVE \E f \in [0..(k + 1) -> A] : IsLoop(f, k + 1, base, step)
    OBVIOUS
  <2>1. PICK f \in [0..k -> A] : IsLoop(f, k, base, step)
    BY <1>2
  <2> DEFINE g == [i \in 0..(k + 1) |-> IF i = k + 1 THEN step[<<k + 1, f[k]>>] ELSE f[i]]
  <2>2. k + 1 \in 1..n /\ f[k] \in A
    OBVIOUS
  <2>3. step[<<k + 1, f[k]>>] \in A
    BY <2>2
  <2>4. g \in [0..(k + 1) -> A]
    BY <2>3
  <2>5. g[0] = base
    BY <2>1 DEF IsLoop
  <2>6. ASSUME NEW i \in 1..(k + 1) PROVE g[i] = step[<<i, g[i - 1]>>]
    <3>1. g[i - 1] = f[i - 1]
      OBVIOUS
    <3>2. CASE i = k + 1
      <4>1. i - 1 = k /\ g[i] = step[<<k + 1, f[k]>>]
        BY <3>2
      <4> HIDE DEF g
      <4> QED
        BY <3>1, <3>2, <4>1
    <3>3. CASE i # k + 1
      <4>1. i \in 1..k
        BY <3>3
      <4> QED
        BY <2>1, <3>1, <3>3, <4>1 DEF IsLoop
    <3> QED
      BY <3>2, <3>3
  <2> HIDE DEF g
  <2> QED
    BY <2>4, <2>5, <2>6 DEF IsLoop
<1>3. n \in G
  <2> HIDE DEF G
  <2> QED
    BY <1>1, <1>2, NumbersInduct
<1> QED
  BY <1>3

------------------------------------------------------------------------------
(* The heap order. *)

\* An event is never earlier than its parent.
IsHeap(q) == \A i \in 2..Len(q) : q[Parent(i)].time <= q[i].time

\* How many events of q are in K.
Count(q, K) == Cardinality({i \in DOMAIN q : q[i] \in K})

\* The same events as in q, in any order.
Permutes(p, q) == Len(p) = Len(q) /\ \A K : Count(p, K) = Count(q, K)

\* Parents and children of a 4-ary heap.
LEMMA Family ==
    /\ \A i \in Nat \ {0, 1} : Parent(i) \in Nat \ {0} /\ Parent(i) < i
    /\ \A i, j \in Nat \ {0} : (j # 1 /\ Parent(j) = i) <=> j \in (4 * i - 2)..(4 * i + 1)
  BY DEF Parent

\* The places of a sequence whose elements are in K are finitely many.
LEMMA PlacesFinite ==
    ASSUME NEW E, NEW q \in Seq(E), NEW K
    PROVE  /\ IsFiniteSet({i \in DOMAIN q : q[i] \in K})
           /\ Count(q, K) \in Nat
<1>1. Len(q) \in Nat /\ DOMAIN q = 1..Len(q)
  OBVIOUS
<1>2. IsFiniteSet(DOMAIN q)
  BY <1>1, FS_Interval
<1>3. IsFiniteSet({i \in DOMAIN q : q[i] \in K})
  BY <1>2, FS_Subset
<1> QED
  BY <1>3, FS_CardinalityType DEF Count

\* Two events that change places leave the contents as they were.
LEMMA SwapPermutes ==
    ASSUME NEW E, NEW q \in Seq(E), NEW i \in DOMAIN q, NEW j \in DOMAIN q
    PROVE  /\ Swapped(q, i, j) \in Seq(E) /\ Len(Swapped(q, i, j)) = Len(q)
           /\ Swapped(q, i, j)[i] = q[j] /\ Swapped(q, i, j)[j] = q[i]
           /\ \A k \in DOMAIN q \ {i, j} : Swapped(q, i, j)[k] = q[k]
           /\ Permutes(Swapped(q, i, j), q)
<1> DEFINE p == Swapped(q, i, j)
<1>1. /\ p \in Seq(E) /\ Len(p) = Len(q) /\ DOMAIN p = DOMAIN q
      /\ p[i] = q[j] /\ p[j] = q[i]
      /\ \A k \in DOMAIN q \ {i, j} : p[k] = q[k]
  BY DEF Swapped
<1> HIDE DEF p
<1>2. ASSUME NEW K PROVE Count(p, K) = Count(q, K)
  <2> DEFINE A == {k \in DOMAIN p : p[k] \in K}
             B == {k \in DOMAIN q : q[k] \in K}
  <2>1. IsFiniteSet(A) /\ IsFiniteSet(B)
    BY <1>1, PlacesFinite
  <2>2. CASE (q[i] \in K) <=> (q[j] \in K)
    <3>1. A = B
      BY <1>1, <2>2
    <3> QED
      BY <3>1 DEF Count
  <2>3. CASE q[i] \in K /\ q[j] \notin K
    <3>1. A = (B \ {i}) \cup {j} /\ i \in B /\ j \notin B \ {i}
      BY <1>1, <2>3
    <3> HIDE DEF A, B
    <3>2. IsFiniteSet(B \ {i}) /\ Cardinality(B \ {i}) = Cardinality(B) - 1
      BY <2>1, <3>1, FS_RemoveElement
    <3>3. Cardinality(A) = Cardinality(B \ {i}) + 1
      BY <3>1, <3>2, FS_AddElement
    <3>4. Cardinality(B) \in Nat
      BY <2>1, FS_CardinalityType
    <3> QED
      BY <3>2, <3>3, <3>4 DEF Count, A, B
  <2>4. CASE q[j] \in K /\ q[i] \notin K
    <3>1. A = (B \ {j}) \cup {i} /\ j \in B /\ i \notin B \ {j}
      BY <1>1, <2>4
    <3> HIDE DEF A, B
    <3>2. IsFiniteSet(B \ {j}) /\ Cardinality(B \ {j}) = Cardinality(B) - 1
      BY <2>1, <3>1, FS_RemoveElement
    <3>3. Cardinality(A) = Cardinality(B \ {j}) + 1
      BY <3>1, <3>2, FS_AddElement
    <3>4. Cardinality(B) \in Nat
      BY <2>1, FS_CardinalityType
    <3> QED
      BY <3>2, <3>3, <3>4 DEF Count, A, B
  <2> QED
    BY <2>2, <2>3, <2>4
<1> QED
  BY <1>1, <1>2 DEF Permutes, p

------------------------------------------------------------------------------
(* The two loops. *)

\* What an event is here: something with a time.
Timed(E) == \A e \in E : e.time \in Int

\* A heap but for the event in place i, which may be earlier than its parent.
HeapBelow(q, i) ==
    /\ \A j \in 2..Len(q) : j # i => q[Parent(j)].time <= q[j].time
    /\ i # 1 => \A j \in 2..Len(q) : Parent(j) = i => q[Parent(i)].time <= q[j].time

\* A heap but for the event in place i, which may be later than its children.
HeapAbove(q, i) ==
    /\ \A j \in 2..Len(q) : Parent(j) # i => q[Parent(j)].time <= q[j].time
    /\ i # 1 => \A j \in 2..Len(q) : Parent(j) = i => q[Parent(i)].time <= q[j].time

\* A round of siftUp that is not its last moves the event one level up.
LEMMA UpStepFacts ==
    ASSUME NEW E, Timed(E), NEW q \in Seq(E), NEW i \in DOMAIN q, HeapBelow(q, i),
           i # 1, q[i].time < q[Parent(i)].time
    PROVE  LET p == Swapped(q, i, Parent(i))
           IN  /\ p \in Seq(E) /\ Permutes(p, q) /\ Parent(i) \in DOMAIN p /\ Parent(i) < i
               /\ HeapBelow(p, Parent(i))
<1> DEFINE u == Parent(i)
           p == Swapped(q, i, u)
<1>1. /\ Len(q) \in Nat /\ DOMAIN q = 1..Len(q) /\ i \in 2..Len(q)
      /\ u \in 1..Len(q) /\ u < i
  <2>1. Len(q) \in Nat /\ DOMAIN q = 1..Len(q) /\ i \in 2..Len(q)
    OBVIOUS
  <2> QED
    BY <2>1, Family
<1>2. \A j \in 2..Len(q) : Parent(j) \in 1..Len(q) /\ Parent(j) < j
  BY <1>1, Family
<1>3. /\ p \in Seq(E) /\ Len(p) = Len(q) /\ Permutes(p, q) /\ p[i] = q[u] /\ p[u] = q[i]
      /\ \A k \in 1..Len(q) \ {i, u} : p[k] = q[k]
  <2>1. u \in DOMAIN q
    BY <1>1
  <2> HIDE DEF u
  <2>2. /\ p \in Seq(E) /\ Len(p) = Len(q) /\ Permutes(p, q) /\ p[i] = q[u] /\ p[u] = q[i]
        /\ \A k \in DOMAIN q \ {i, u} : p[k] = q[k]
    BY <2>1, SwapPermutes
  <2> QED
    BY <1>1, <2>2
<1>4. \A k \in 1..Len(q) : q[k].time \in Int
  BY <1>1 DEF Timed
<1> DEFINE t(k) == q[k].time
<1>5. /\ \A j \in 2..Len(q) : j # i => t(Parent(j)) <= t(j)
      /\ \A j \in 2..Len(q) : Parent(j) = i => t(u) <= t(j)
      /\ t(i) < t(u)
  BY <1>1 DEF HeapBelow
<1> HIDE DEF u, p
<1>6. ASSUME NEW j \in 2..Len(q), j # u PROVE p[Parent(j)].time <= p[j].time
  <2>1. CASE j = i
    BY <1>1, <1>3, <1>4, <1>5, <2>1 DEF u
  <2>2. CASE j # i /\ Parent(j) = i
    BY <1>1, <1>3, <1>5, <1>6, <2>2
  <2>3. CASE j # i /\ Parent(j) = u
    <3>1. p[j] = q[j] /\ p[Parent(j)] = q[i]
      BY <1>3, <1>6, <2>3
    <3>2. t(i) < t(u) /\ t(u) <= t(j)
      BY <1>5, <2>3
    <3> QED
      BY <1>1, <1>4, <3>1, <3>2
  <2>4. CASE j # i /\ Parent(j) \notin {i, u}
    BY <1>2, <1>3, <1>5, <1>6, <2>4
  <2> QED
    BY <2>1, <2>2, <2>3, <2>4
<1>7. ASSUME u # 1, NEW j \in 2..Len(q), Parent(j) = u PROVE p[Parent(u)].time <= p[j].time
  <2>1. u \in 2..Len(q) /\ Parent(u) \in 1..Len(q) /\ Parent(u) < u
    BY <1>1, <1>2, <1>7
  <2>2. p[Parent(u)] = q[Parent(u)] /\ t(Parent(u)) <= t(u)
    BY <1>1, <1>3, <1>5, <2>1
  <2>3. CASE j = i
    BY <1>3, <2>2, <2>3
  <2>4. CASE j # i
    <3>1. j # u /\ p[j] = q[j] /\ t(u) <= t(j)
      BY <1>2, <1>3, <1>5, <1>7, <2>4
    <3> QED
      BY <1>1, <1>4, <2>1, <2>2, <3>1
  <2> QED
    BY <2>3, <2>4
<1>8. HeapBelow(p, u)
  BY <1>3, <1>6, <1>7 DEF HeapBelow
<1>9. u \in DOMAIN p
  BY <1>1, <1>3
<1> QED
  BY <1>1, <1>3, <1>8, <1>9 DEF u, p

\* The event in place j comes before those in the other places of s.
IsFirst(q, j, s) ==
    \A k \in s : q[j].time < q[k].time \/ (q[j].time = q[k].time /\ j <= k)

\* Some event of a family comes first: none is earlier, and none at the same
\* time is before it.
LEMMA FirstExists ==
    ASSUME NEW E, Timed(E), NEW q \in Seq(E), NEW s \in SUBSET DOMAIN q, s # {}
    PROVE  \E j \in s : IsFirst(q, j, s)
<1> DEFINE HasFirst(n) == \A r \in SUBSET (1..n) : r # {} => \E j \in r : IsFirst(q, j, r)
           G == {n \in Nat : n <= Len(q) => HasFirst(n)}
<1>0. Len(q) \in Nat /\ DOMAIN q = 1..Len(q) /\ \A k \in 1..Len(q) : q[k].time \in Int
  BY DEF Timed
<1>1. 0 \in G
  <2>1. 1..0 = {}
    OBVIOUS
  <2> QED
    BY <2>1
<1>2. ASSUME NEW n \in Nat, n \in G PROVE n + 1 \in G
  <2> SUFFICES ASSUME n + 1 <= Len(q), NEW r \in SUBSET (1..(n + 1)), r # {}
               PROVE  \E j \in r : IsFirst(q, j, r)
    OBVIOUS
  <2>0. n <= Len(q) /\ n + 1 \in 1..Len(q)
    BY <1>0
  <2>h. \A t \in SUBSET (1..n) : t # {} => \E j \in t : IsFirst(q, j, t)
    BY <1>2, <2>0
  <2> HIDE DEF G
  <2>1. CASE n + 1 \notin r
    <3>1. r \in SUBSET (1..n)
      BY <2>1
    <3> QED
      BY <2>h, <3>1
  <2>2. CASE r = {n + 1}
    <3>1. IsFirst(q, n + 1, r)
      BY <1>0, <2>0, <2>2 DEF IsFirst
    <3> QED
      BY <2>2, <3>1
  <2>3. CASE n + 1 \in r /\ r # {n + 1}
    <3>1. PICK t \in SUBSET (1..n) : t # {} /\ r = t \cup {n + 1}
      <4>1. r \ {n + 1} \in SUBSET (1..n) /\ r \ {n + 1} # {} /\ r = (r \ {n + 1}) \cup {n + 1}
        BY <2>3
      <4> QED
        BY <4>1
    <3>2. PICK j \in t : IsFirst(q, j, t)
      BY <2>h, <3>1
    <3>3. j \in 1..n /\ j \in 1..Len(q)
      BY <2>0, <3>1
    <3>4. \A k \in t : k \in 1..Len(q)
      BY <2>0, <3>1
    <3>5. CASE q[n + 1].time < q[j].time
      <4>1. ASSUME NEW k \in t PROVE q[n + 1].time < q[k].time
        BY <1>0, <2>0, <3>2, <3>3, <3>4, <3>5 DEF IsFirst
      <4>2. IsFirst(q, n + 1, r)
        BY <1>0, <2>0, <3>1, <4>1 DEF IsFirst
      <4> QED
        BY <2>3, <4>2
    <3>6. CASE ~(q[n + 1].time < q[j].time)
      <4>1. q[j].time <= q[n + 1].time /\ j <= n + 1
        BY <1>0, <2>0, <3>3, <3>6
      <4>2. IsFirst(q, j, r)
        BY <1>0, <2>0, <3>1, <3>2, <3>3, <4>1 DEF IsFirst
      <4> QED
        BY <3>1, <4>2
    <3> QED
      BY <3>5, <3>6
  <2> QED
    BY <2>1, <2>2, <2>3
<1>3. Len(q) \in G
  <2> HIDE DEF G
  <2> QED
    BY <1>0, <1>1, <1>2, NumbersInduct
<1>4. HasFirst(Len(q))
  BY <1>0, <1>3
<1> QED
  BY <1>0, <1>4

\* Earliest is the node or one of its children, and none of them is earlier.
LEMMA EarliestFacts ==
    ASSUME NEW E, Timed(E), NEW q \in Seq(E), NEW i \in DOMAIN q
    PROVE  /\ Earliest(q, i) \in DOMAIN q
           /\ Earliest(q, i) = i \/ (Parent(Earliest(q, i)) = i /\ i < Earliest(q, i))
           /\ q[Earliest(q, i)].time <= q[i].time
           /\ \A k \in 2..Len(q) : Parent(k) = i => q[Earliest(q, i)].time <= q[k].time
<1> DEFINE family == {i} \cup ((4 * i - 2)..(4 * i + 1) \cap DOMAIN q)
           j == Earliest(q, i)
<1>1. Len(q) \in Nat /\ DOMAIN q = 1..Len(q) /\ \A k \in 1..Len(q) : q[k].time \in Int
  BY DEF Timed
<1>2. family \in SUBSET DOMAIN q /\ family # {}
  OBVIOUS
<1>3. /\ j \in family
      /\ \A k \in family : q[j].time < q[k].time \/ (q[j].time = q[k].time /\ j <= k)
  <2>1. \E l \in family : IsFirst(q, l, family)
    <3> HIDE DEF family
    <3> QED
      BY <1>2, FirstExists
  <2> QED
    BY <2>1 DEF Earliest, IsFirst
<1>4. \A k \in family : k \in 1..Len(q)
  BY <1>1, <1>2
<1>5. \A k \in 2..Len(q) : Parent(k) = i => k \in family
  BY <1>1, Family
<1>6. j = i \/ (j \in (4 * i - 2)..(4 * i + 1) /\ j # 1 /\ j > i)
  BY <1>1, <1>3
<1>7. j = i \/ (Parent(j) = i /\ i < j)
  BY <1>1, <1>4, <1>3, <1>6, Family
<1>8. i \in family
  OBVIOUS
<1> HIDE DEF j, family
<1>9. \A k \in family : q[j].time <= q[k].time
  BY <1>1, <1>3, <1>4
<1>10. /\ j \in DOMAIN q
       /\ j = i \/ (Parent(j) = i /\ i < j)
       /\ q[j].time <= q[i].time
       /\ \A k \in 2..Len(q) : Parent(k) = i => q[j].time <= q[k].time
  BY <1>1, <1>3, <1>4, <1>5, <1>7, <1>8, <1>9
<1> QED
  BY <1>10 DEF j

\* A round of siftDown that is not its last moves the event one level down.
LEMMA DownStepFacts ==
    ASSUME NEW E, Timed(E), NEW q \in Seq(E), NEW i \in DOMAIN q, HeapAbove(q, i)
    PROVE  LET c == Earliest(q, i)
               p == Swapped(q, i, c)
           IN  /\ p \in Seq(E) /\ Permutes(p, q) /\ c \in DOMAIN p
               /\ c = i => p = q /\ IsHeap(p)
               /\ c # i => i < c /\ HeapAbove(p, c)
<1> DEFINE c == Earliest(q, i)
           p == Swapped(q, i, c)
           t(k) == q[k].time
<1>1. /\ Len(q) \in Nat /\ DOMAIN q = 1..Len(q) /\ i \in 1..Len(q)
      /\ \A k \in 1..Len(q) : t(k) \in Int
  BY DEF Timed
<1>2. \A j \in 2..Len(q) : Parent(j) \in 1..Len(q) /\ Parent(j) < j
  BY <1>1, Family
<1>3. /\ c \in DOMAIN q
      /\ c = i \/ (Parent(c) = i /\ i < c)
      /\ t(c) <= t(i)
      /\ \A k \in 2..Len(q) : Parent(k) = i => t(c) <= t(k)
  BY EarliestFacts
<1> HIDE DEF c
<1>4. /\ p \in Seq(E) /\ Len(p) = Len(q) /\ Permutes(p, q) /\ p[i] = q[c] /\ p[c] = q[i]
      /\ \A k \in DOMAIN q \ {i, c} : p[k] = q[k]
  BY <1>3, SwapPermutes
<1>5. /\ \A j \in 2..Len(q) : Parent(j) # i => t(Parent(j)) <= t(j)
      /\ i # 1 => \A j \in 2..Len(q) : Parent(j) = i => t(Parent(i)) <= t(j)
  BY DEF HeapAbove
<1>6. c = i => p = q
  BY <1>1 DEF Swapped
<1> HIDE DEF p
<1>7. ASSUME c = i PROVE p = q /\ IsHeap(p)
  <2>1. \A j \in 2..Len(q) : q[Parent(j)].time <= q[j].time
    BY <1>3, <1>5, <1>7
  <2> QED
    BY <1>6, <1>7, <2>1 DEF IsHeap
<1>8. ASSUME c # i PROVE i < c /\ HeapAbove(p, c)
  <2>0. c \in 2..Len(q) /\ Parent(c) = i /\ i < c
    BY <1>1, <1>3, <1>8
  <2>1. ASSUME NEW j \in 2..Len(q), Parent(j) # c PROVE p[Parent(j)].time <= p[j].time
    <3>1. CASE j = c
      BY <1>3, <1>4, <2>0, <3>1
    <3>2. CASE j # c /\ Parent(j) = i
      <4>1. j # i /\ p[j] = q[j] /\ p[Parent(j)] = q[c]
        BY <1>1, <1>2, <1>4, <3>2
      <4> QED
        BY <1>3, <3>2, <4>1
    <3>3. CASE j = i
      <4>1. i # 1 /\ Parent(i) \in 1..Len(q) /\ Parent(i) < i
        BY <1>2, <3>3
      <4>2. p[Parent(i)] = q[Parent(i)] /\ p[i] = q[c]
        BY <1>1, <1>4, <2>0, <4>1
      <4> QED
        BY <1>5, <2>0, <3>3, <4>1, <4>2
    <3>4. CASE j \notin {c, i} /\ Parent(j) # i
      <4>1. p[j] = q[j] /\ p[Parent(j)] = q[Parent(j)]
        BY <1>1, <1>2, <1>4, <2>1, <3>4
      <4> QED
        BY <1>5, <3>4, <4>1
    <3> QED
      BY <3>1, <3>2, <3>3, <3>4
  <2>2. ASSUME NEW j \in 2..Len(q), Parent(j) = c PROVE p[Parent(c)].time <= p[j].time
    <3>1. j # i /\ j # c
      BY <1>1, <1>2, <2>0, <2>2
    <3>2. p[j] = q[j] /\ p[Parent(c)] = q[c]
      BY <1>1, <1>4, <2>0, <3>1
    <3> QED
      BY <1>5, <2>0, <2>2, <3>2
  <2> QED
    BY <1>4, <2>0, <2>1, <2>2 DEF HeapAbove
<1>9. c \in DOMAIN p
  BY <1>1, <1>3, <1>4
<1> QED
  BY <1>4, <1>7, <1>8, <1>9 DEF c, p

\* The rounds of siftUp.
LEMMA SiftUpUnfolds ==
    ASSUME NEW q, NEW i
    PROVE  LET h == [q |-> q, at |-> i]
           IN  SiftUp(q, i)
                 = (CHOOSE f : f = [n \in 0..Len(q) |->
                                       IF n = 0 THEN h ELSE UpStep(f[n - 1])])[Len(q)].q
  BY DEF SiftUp

\* siftUp makes a heap of the same events.
LEMMA SiftUpFacts ==
    ASSUME NEW E, Timed(E), NEW q \in Seq(E), NEW i \in DOMAIN q, HeapBelow(q, i)
    PROVE  SiftUp(q, i) \in Seq(E) /\ Permutes(SiftUp(q, i), q) /\ IsHeap(SiftUp(q, i))
<1> DEFINE h == [q |-> q, at |-> i]
           last == Len(q)
           A == {g \in [q : Seq(E), at : Nat] :
                    /\ g.at \in DOMAIN g.q /\ Permutes(g.q, q) /\ HeapBelow(g.q, g.at)}
           Over(g) == g.at = 1 \/ g.q[g.at].time >= g.q[Parent(g.at)].time
           step == [p \in (1..last) \X A |-> UpStep(p[2])]
           Loops(f) == f = [n \in 0..last |-> IF n = 0 THEN h ELSE UpStep(f[n - 1])]
           g == CHOOSE f : Loops(f)
<1>0. last \in Nat /\ h.q = q /\ h.at = i /\ h \in A
  BY DEF Permutes
<1>1. ASSUME NEW x \in A
      PROVE  /\ UpStep(x) \in A
             /\ Over(x) => UpStep(x) = x
             /\ ~Over(x) => UpStep(x).at < x.at
  <2>0. /\ x.q \in Seq(E) /\ x.at \in DOMAIN x.q /\ x.at \in Nat \ {0} /\ Permutes(x.q, q)
        /\ HeapBelow(x.q, x.at)
    OBVIOUS
  <2>1. CASE Over(x)
    BY <2>1 DEF UpStep
  <2>2. CASE ~Over(x)
    <3> DEFINE u == Parent(x.at)
               p == Swapped(x.q, x.at, u)
    <3>1. /\ x.at # 1 /\ u \in 1..Len(x.q) /\ \A k \in DOMAIN x.q : x.q[k].time \in Int
      BY <2>0, <2>2, Family DEF Timed
    <3>2. x.q[x.at].time < x.q[u].time
      BY <2>0, <2>2, <3>1
    <3>3. p \in Seq(E) /\ Permutes(p, x.q) /\ u \in DOMAIN p /\ u < x.at /\ HeapBelow(p, u)
      BY <2>0, <3>1, <3>2, UpStepFacts
    <3>4. UpStep(x) = [q |-> p, at |-> u]
      BY <2>2 DEF UpStep
    <3>5. Permutes(p, q)
      BY <2>0, <3>3 DEF Permutes
    <3>6. u \in Nat
      BY <3>1
    <3> HIDE DEF u, p
    <3> QED
      BY <2>2, <3>3, <3>4, <3>5, <3>6
  <2> QED
    BY <2>1, <2>2
<1> HIDE DEF A
<1>2. Loops(g)
  <2>1. step \in [(1..last) \X A -> A]
    BY <1>1
  <2> HIDE DEF step
  <2>2. PICK f \in [0..last -> A] : IsLoop(f, last, h, step)
    BY <1>0, <2>1, LoopExists
  <2>3. \A n \in 1..last : f[n] = UpStep(f[n - 1])
    <3> SUFFICES ASSUME NEW n \in 1..last PROVE f[n] = UpStep(f[n - 1])
      OBVIOUS
    <3>1. n - 1 \in 0..last
      BY <1>0
    <3>2. f[n - 1] \in A /\ f[n] = step[<<n, f[n - 1]>>]
      BY <2>2, <3>1 DEF IsLoop
    <3> QED
      BY <3>2 DEF step
  <2>4. f[0] = h
    BY <2>2 DEF IsLoop
  <2>5. Loops(f)
    BY <2>3, <2>4
  <2> QED
    BY <2>5
<1>3. SiftUp(q, i) = g[last].q
  BY SiftUpUnfolds
<1> HIDE DEF g
<1> DEFINE Right(n) == g[n] \in A /\ (Over(g[n]) \/ g[n].at + n <= last)
           G == {n \in Nat : n <= last => Right(n)}
<1>4. g[0] = h /\ \A n \in Nat : n + 1 <= last => g[n + 1] = UpStep(g[n])
  BY <1>0, <1>2
<1>5. 0 \in G
  BY <1>0, <1>4
<1>6. ASSUME NEW n \in Nat, n \in G PROVE n + 1 \in G
  <2> SUFFICES ASSUME n + 1 <= last PROVE Right(n + 1)
    OBVIOUS
  <2>1. g[n] \in A /\ (Over(g[n]) \/ g[n].at + n <= last) /\ g[n + 1] = UpStep(g[n])
    BY <1>0, <1>4, <1>6
  <2>2. UpStep(g[n]) \in A /\ g[n].at \in Nat /\ UpStep(g[n]).at \in Nat
    BY <1>1, <2>1 DEF A
  <2>3. CASE Over(g[n])
    <3>1. g[n + 1] = g[n]
      BY <1>1, <2>1, <2>3
    <3> QED
      BY <2>1, <2>3, <3>1
  <2>4. CASE ~Over(g[n])
    <3>1. UpStep(g[n]).at < g[n].at /\ g[n].at + n <= last
      BY <1>1, <2>1, <2>4
    <3>2. UpStep(g[n]).at + (n + 1) <= last
      BY <1>0, <2>2, <3>1
    <3> QED
      BY <2>1, <2>2, <3>2
  <2> QED
    BY <2>3, <2>4
<1>7. Right(last)
  <2>1. last \in G
    <3> HIDE DEF G
    <3> QED
      BY <1>0, <1>5, <1>6, NumbersInduct
  <2> QED
    BY <1>0, <2>1
<1> DEFINE z == g[last]
<1>8. /\ z.q \in Seq(E) /\ z.at \in DOMAIN z.q /\ Permutes(z.q, q) /\ HeapBelow(z.q, z.at)
      /\ Over(z) \/ z.at + last <= last
  BY <1>7 DEF A
<1> HIDE DEF z
<1>9. z.at \in 1..Len(z.q) /\ Len(z.q) \in Nat /\ \A k \in 1..Len(z.q) : z.q[k].time \in Int
  BY <1>8 DEF Timed
<1>10. Over(z)
  BY <1>0, <1>8, <1>9
<1>11. ASSUME NEW j \in 2..Len(z.q) PROVE z.q[Parent(j)].time <= z.q[j].time
  <2>1. CASE j # z.at
    BY <1>8, <2>1 DEF HeapBelow
  <2>2. CASE j = z.at
    <3>1. Parent(j) \in 1..Len(z.q)
      BY <1>9, Family
    <3> QED
      BY <1>9, <1>10, <2>2, <3>1
  <2> QED
    BY <2>1, <2>2
<1>12. IsHeap(z.q)
  BY <1>11 DEF IsHeap
<1> QED
  BY <1>3, <1>8, <1>12 DEF z

\* The rounds of siftDown.
LEMMA SiftDownUnfolds ==
    ASSUME NEW q, NEW i
    PROVE  LET h == [q |-> q, at |-> i]
           IN  SiftDown(q, i)
                 = (CHOOSE f : f = [n \in 0..Len(q) |->
                                       IF n = 0 THEN h ELSE DownStep(f[n - 1])])[Len(q)].q
  BY DEF SiftDown

\* siftDown makes a heap of the same events.
LEMMA SiftDownFacts ==
    ASSUME NEW E, Timed(E), NEW q \in Seq(E), NEW i \in DOMAIN q, HeapAbove(q, i)
    PROVE  SiftDown(q, i) \in Seq(E) /\ Permutes(SiftDown(q, i), q) /\ IsHeap(SiftDown(q, i))
<1> DEFINE h == [q |-> q, at |-> i]
           last == Len(q)
           A == {g \in [q : Seq(E), at : Nat] :
                    /\ g.at \in DOMAIN g.q /\ Permutes(g.q, q) /\ HeapAbove(g.q, g.at)}
           Over(g) == Earliest(g.q, g.at) = g.at
           step == [p \in (1..last) \X A |-> DownStep(p[2])]
           Loops(f) == f = [n \in 0..last |-> IF n = 0 THEN h ELSE DownStep(f[n - 1])]
           g == CHOOSE f : Loops(f)
<1>0. last \in Nat /\ h.q = q /\ h.at = i /\ h \in A
  BY DEF Permutes
<1>1. ASSUME NEW x \in A
      PROVE  /\ DownStep(x) \in A
             /\ Over(x) => DownStep(x) = x
             /\ ~Over(x) => x.at < DownStep(x).at
  <2>0. /\ x.q \in Seq(E) /\ x.at \in DOMAIN x.q /\ x.at \in Nat \ {0} /\ Permutes(x.q, q)
        /\ HeapAbove(x.q, x.at)
    OBVIOUS
  <2> DEFINE c == Earliest(x.q, x.at)
             p == Swapped(x.q, x.at, c)
  <2>1. /\ p \in Seq(E) /\ Permutes(p, x.q) /\ c \in DOMAIN p
        /\ c = x.at => p = x.q
        /\ c # x.at => x.at < c /\ HeapAbove(p, c)
    BY <2>0, DownStepFacts
  <2>2. DownStep(x) = [q |-> p, at |-> c]
    BY DEF DownStep
  <2>3. Permutes(p, q) /\ c \in Nat
    BY <2>0, <2>1 DEF Permutes
  <2>4. HeapAbove(p, c)
    BY <2>0, <2>1
  <2>5. Over(x) <=> c = x.at
    OBVIOUS
  <2> HIDE DEF c, p
  <2>6. DownStep(x) \in A
    BY <2>1, <2>2, <2>3, <2>4
  <2> QED
    BY <2>0, <2>1, <2>2, <2>5, <2>6
<1> HIDE DEF A
<1>2. Loops(g)
  <2>1. step \in [(1..last) \X A -> A]
    BY <1>1
  <2> HIDE DEF step
  <2>2. PICK f \in [0..last -> A] : IsLoop(f, last, h, step)
    BY <1>0, <2>1, LoopExists
  <2>3. \A n \in 1..last : f[n] = DownStep(f[n - 1])
    <3> SUFFICES ASSUME NEW n \in 1..last PROVE f[n] = DownStep(f[n - 1])
      OBVIOUS
    <3>1. n - 1 \in 0..last
      BY <1>0
    <3>2. f[n - 1] \in A /\ f[n] = step[<<n, f[n - 1]>>]
      BY <2>2, <3>1 DEF IsLoop
    <3> QED
      BY <3>2 DEF step
  <2>4. f[0] = h
    BY <2>2 DEF IsLoop
  <2>5. Loops(f)
    BY <2>3, <2>4
  <2> QED
    BY <2>5
<1>3. SiftDown(q, i) = g[last].q
  BY SiftDownUnfolds
<1> HIDE DEF g
<1> DEFINE Right(n) == g[n] \in A /\ (Over(g[n]) \/ g[n].at > n)
           G == {n \in Nat : n <= last => Right(n)}
<1>4. g[0] = h /\ \A n \in Nat : n + 1 <= last => g[n + 1] = DownStep(g[n])
  BY <1>0, <1>2
<1>5. 0 \in G
  BY <1>0, <1>4
<1>6. ASSUME NEW n \in Nat, n \in G PROVE n + 1 \in G
  <2> SUFFICES ASSUME n + 1 <= last PROVE Right(n + 1)
    OBVIOUS
  <2>1. g[n] \in A /\ (Over(g[n]) \/ g[n].at > n) /\ g[n + 1] = DownStep(g[n])
    BY <1>0, <1>4, <1>6
  <2>2. DownStep(g[n]) \in A /\ g[n].at \in Nat /\ DownStep(g[n]).at \in Nat
    BY <1>1, <2>1 DEF A
  <2>3. CASE Over(g[n])
    <3>1. g[n + 1] = g[n]
      BY <1>1, <2>1, <2>3
    <3> QED
      BY <2>1, <2>3, <3>1
  <2>4. CASE ~Over(g[n])
    <3>1. g[n].at < DownStep(g[n]).at /\ g[n].at > n
      BY <1>1, <2>1, <2>4
    <3>2. DownStep(g[n]).at > n + 1
      BY <1>0, <2>2, <3>1
    <3> QED
      BY <2>1, <2>2, <3>2
  <2> QED
    BY <2>3, <2>4
<1>7. Right(last)
  <2>1. last \in G
    <3> HIDE DEF G
    <3> QED
      BY <1>0, <1>5, <1>6, NumbersInduct
  <2> QED
    BY <1>0, <2>1
<1> DEFINE z == g[last]
<1>8. /\ z.q \in Seq(E) /\ z.at \in DOMAIN z.q /\ Permutes(z.q, q) /\ HeapAbove(z.q, z.at)
      /\ Over(z) \/ z.at > last
  BY <1>7 DEF A
<1> HIDE DEF z
<1>9. z.at \in 1..Len(z.q) /\ Len(z.q) = last
  BY <1>8 DEF Permutes
<1>10. Over(z)
  BY <1>0, <1>8, <1>9
<1>11. Swapped(z.q, z.at, z.at) = z.q
  BY <1>8 DEF Swapped
<1>12. IsHeap(z.q)
  BY <1>8, <1>10, <1>11, DownStepFacts
<1> QED
  BY <1>3, <1>8, <1>12 DEF z

------------------------------------------------------------------------------
(* Push and Pop. *)

\* One more event at the end of a sequence.
LEMMA AppendCounts ==
    ASSUME NEW E, NEW q \in Seq(E), NEW e \in E, NEW K
    PROVE  Count(Append(q, e), K) = Count(q, K) + (IF e \in K THEN 1 ELSE 0)
<1> DEFINE A == {i \in DOMAIN q : q[i] \in K}
           p == Append(q, e)
           B == {i \in DOMAIN p : p[i] \in K}
           n == Len(q) + 1
<1>1. /\ Len(q) \in Nat /\ DOMAIN q = 1..Len(q) /\ DOMAIN p = 1..n /\ p[n] = e
      /\ \A i \in 1..Len(q) : p[i] = q[i]
  OBVIOUS
<1>2. IsFiniteSet(A) /\ Cardinality(A) \in Nat
  BY PlacesFinite DEF Count
<1>3. n \notin A
  BY <1>1
<1>4. B = IF e \in K THEN A \cup {n} ELSE A
  BY <1>1
<1> HIDE DEF A, B, n
<1>5. Cardinality(A \cup {n}) = Cardinality(A) + 1
  BY <1>2, <1>3, FS_AddElement
<1>6. Cardinality(B) = Cardinality(A) + (IF e \in K THEN 1 ELSE 0)
  BY <1>2, <1>4, <1>5
<1> QED
  BY <1>6 DEF Count, A, B

\* Push adds the event to the heap, and nothing else changes.
THEOREM PushFacts ==
    ASSUME NEW E, Timed(E), NEW q \in Seq(E), IsHeap(q), NEW e \in E
    PROVE  /\ Push(q, e) \in Seq(E) /\ Len(Push(q, e)) = Len(q) + 1
           /\ IsHeap(Push(q, e))
           /\ \A K : Count(Push(q, e), K) = Count(q, K) + (IF e \in K THEN 1 ELSE 0)
<1> DEFINE p == Append(q, e)
           n == Len(q) + 1
<1>1. /\ Len(q) \in Nat /\ p \in Seq(E) /\ Len(p) = n /\ n \in DOMAIN p
      /\ \A i \in 1..Len(q) : p[i] = q[i]
  OBVIOUS
<1>2. \A j \in 2..n : Parent(j) \in Nat \ {0} /\ Parent(j) < j
  BY <1>1, Family
<1>3. ASSUME NEW j \in 2..n, j # n PROVE p[Parent(j)].time <= p[j].time
  <2>1. j \in 2..Len(q) /\ Parent(j) \in 1..Len(q)
    BY <1>1, <1>2, <1>3
  <2>2. p[j] = q[j] /\ p[Parent(j)] = q[Parent(j)]
    BY <1>1, <2>1
  <2> QED
    BY <2>1, <2>2 DEF IsHeap
<1>4. ASSUME NEW j \in 2..n, Parent(j) = n PROVE FALSE
  BY <1>1, <1>2, <1>4
<1>5. HeapBelow(p, n)
  BY <1>1, <1>3, <1>4 DEF HeapBelow
<1>6. /\ SiftUp(p, n) \in Seq(E) /\ Permutes(SiftUp(p, n), p) /\ IsHeap(SiftUp(p, n))
  <2> HIDE DEF p, n
  <2> QED
    BY <1>1, <1>5, SiftUpFacts
<1>7. Push(q, e) = SiftUp(p, n)
  BY DEF Push
<1>8. \A K : Count(p, K) = Count(q, K) + (IF e \in K THEN 1 ELSE 0)
  BY AppendCounts
<1> HIDE DEF p, n
<1> QED
  BY <1>1, <1>6, <1>7, <1>8 DEF Permutes, n

\* No event on a heap is earlier than its head.
THEOREM HeadIsEarliest ==
    ASSUME NEW E, Timed(E), NEW q \in Seq(E), IsHeap(q)
    PROVE  \A i \in DOMAIN q : Head(q).time <= q[i].time
<1> DEFINE G == {n \in Nat : \A i \in 1..Len(q) : i <= n => q[1].time <= q[i].time}
<1>1. /\ Len(q) \in Nat /\ DOMAIN q = 1..Len(q) /\ \A k \in 1..Len(q) : q[k].time \in Int
  BY DEF Timed
<1>2. 0 \in G
  OBVIOUS
<1>3. ASSUME NEW n \in Nat, n \in G PROVE n + 1 \in G
  <2> SUFFICES ASSUME NEW i \in 1..Len(q), i <= n + 1 PROVE q[1].time <= q[i].time
    OBVIOUS
  <2>1. CASE i = 1
    BY <1>1, <2>1
  <2>2. CASE i # 1
    <3>1. i \in 2..Len(q) /\ Parent(i) \in 1..Len(q) /\ Parent(i) <= n /\ 1 \in 1..Len(q)
      BY <1>1, <2>2, Family
    <3>2. q[1].time <= q[Parent(i)].time /\ q[Parent(i)].time <= q[i].time
      BY <1>3, <3>1 DEF IsHeap
    <3> QED
      BY <1>1, <3>1, <3>2
  <2> QED
    BY <2>1, <2>2
<1>4. Len(q) \in G
  <2> HIDE DEF G
  <2> QED
    BY <1>1, <1>2, <1>3, NumbersInduct
<1> QED
  BY <1>1, <1>4

\* A function on 1..m is a sequence.
LEMMA IsSequence ==
    ASSUME NEW E, NEW m \in Nat, NEW f \in [1..m -> E]
    PROVE  f \in Seq(E) /\ Len(f) = m
  OBVIOUS

\* Pop takes the head off the heap, and nothing else changes.
THEOREM PoppedFacts ==
    ASSUME NEW E, Timed(E), NEW q \in Seq(E), IsHeap(q), q # <<>>
    PROVE  /\ Popped(q) \in Seq(E) /\ Len(Popped(q)) = Len(q) - 1
           /\ IsHeap(Popped(q))
           /\ \A K : Count(q, K) = Count(Popped(q), K) + (IF Head(q) \in K THEN 1 ELSE 0)
<1> DEFINE n == Len(q)
           front == SubSeq(q, 1, n - 1)
           p == [front EXCEPT ![1] = q[n]]
<1>1. /\ n \in Nat \ {0} /\ DOMAIN q = 1..n /\ Head(q) = q[1]
      /\ \A i \in 1..n : q[i] \in E
  OBVIOUS
<1>2. CASE n = 1
  <2>1. Popped(q) = <<>>
    BY <1>2 DEF Popped
  <2>2. IsHeap(<<>>)
    BY DEF IsHeap
  <2>3. ASSUME NEW K PROVE Count(q, K) = IF Head(q) \in K THEN 1 ELSE 0
    <3>1. {i \in DOMAIN q : q[i] \in K} = IF Head(q) \in K THEN {1} ELSE {}
      BY <1>1, <1>2
    <3> QED
      BY <3>1, FS_EmptySet, FS_Singleton DEF Count
  <2>4. \A K : Count(<<>>, K) = 0
    <3>1. \A K : {i \in DOMAIN <<>> : <<>>[i] \in K} = {}
      OBVIOUS
    <3> QED
      BY <3>1, FS_EmptySet DEF Count
  <2> HIDE DEF n
  <2>5. /\ <<>> \in Seq(E) /\ Len(<<>>) = 0 /\ Len(q) = 1
        /\ \A K : Count(q, K) = Count(<<>>, K) + (IF Head(q) \in K THEN 1 ELSE 0)
    BY <1>2, <2>3, <2>4 DEF n
  <2> QED
    BY <2>1, <2>2, <2>5
<1>3. CASE n # 1
  <2>1. /\ front \in Seq(E) /\ Len(front) = n - 1
        /\ \A i \in 1..(n - 1) : front[i] = q[i]
    BY <1>1
  <2>2. /\ p \in Seq(E) /\ Len(p) = n - 1 /\ DOMAIN p = 1..(n - 1) /\ p[1] = q[n]
        /\ \A i \in 2..(n - 1) : p[i] = q[i]
    <3>1. n \in Nat /\ n - 1 \in Nat \ {0} /\ q[n] \in E
      BY <1>1, <1>3
    <3> HIDE DEF n, front
    <3>2. DOMAIN front = 1..(n - 1) /\ 1 \in DOMAIN front
      BY <2>1, <3>1
    <3>3. p \in Seq(E) /\ DOMAIN p = 1..(n - 1) /\ Len(p) = n - 1
      <4>1. \A i \in 1..(n - 1) : front[i] \in E
        BY <2>1, <3>2
      <4>2. p \in [1..(n - 1) -> E]
        BY <3>1, <3>2, <4>1
      <4> QED
        BY <3>1, <4>2, IsSequence
    <3>4. p[1] = q[n] /\ \A i \in 2..(n - 1) : p[i] = front[i]
      BY <3>1, <3>2
    <3> QED
      BY <2>1, <3>3, <3>4
  <2>3. Popped(q) = SiftDown(p, 1)
    BY <1>3 DEF Popped
  <2> HIDE DEF p
  <2>4. HeapAbove(p, 1)
    <3> SUFFICES ASSUME NEW j \in 2..Len(p), Parent(j) # 1 PROVE p[Parent(j)].time <= p[j].time
      BY DEF HeapAbove
    <3>1. j \in 2..(n - 1) /\ Parent(j) \in 2..(n - 1)
      <4>1. j \in Nat \ {0, 1} /\ j <= n - 1
        BY <1>1, <2>2
      <4>2. Parent(j) \in Nat \ {0} /\ Parent(j) < j
        BY <4>1, Family
      <4> QED
        BY <1>1, <4>1, <4>2
    <3>2. p[j] = q[j] /\ p[Parent(j)] = q[Parent(j)] /\ j \in 2..n
      BY <1>1, <2>2, <3>1
    <3> QED
      BY <3>2 DEF IsHeap
  <2>5. 1 \in DOMAIN p
    BY <1>1, <1>3, <2>2
  <2>6. SiftDown(p, 1) \in Seq(E) /\ Permutes(SiftDown(p, 1), p) /\ IsHeap(SiftDown(p, 1))
    BY <2>2, <2>4, <2>5, SiftDownFacts
  <2>7. ASSUME NEW K PROVE Count(q, K) = Count(p, K) + (IF Head(q) \in K THEN 1 ELSE 0)
    <3> DEFINE A == {i \in 2..(n - 1) : q[i] \in K}
               B == {i \in DOMAIN p : p[i] \in K}
               C == {i \in DOMAIN q : q[i] \in K}
    <3>1. IsFiniteSet(A) /\ Cardinality(A) \in Nat
      <4>1. IsFiniteSet(2..(n - 1))
        BY <1>1, FS_Interval
      <4> QED
        BY <4>1, FS_Subset, FS_CardinalityType
    <3>2. B = IF q[n] \in K THEN A \cup {1} ELSE A
      BY <1>1, <1>3, <2>2
    <3>3. C = IF q[1] \in K THEN (IF q[n] \in K THEN (A \cup {1}) \cup {n} ELSE A \cup {1})
              ELSE (IF q[n] \in K THEN A \cup {n} ELSE A)
      BY <1>1, <1>3
    <3>4. 1 \notin A /\ n \notin A /\ n \notin A \cup {1}
      BY <1>1, <1>3
    <3> HIDE DEF A, B, C
    <3>5. /\ IsFiniteSet(A \cup {1}) /\ Cardinality(A \cup {1}) = Cardinality(A) + 1
          /\ Cardinality(A \cup {n}) = Cardinality(A) + 1
      BY <3>1, <3>4, FS_AddElement
    <3>6. Cardinality((A \cup {1}) \cup {n}) = Cardinality(A \cup {1}) + 1
      BY <3>4, <3>5, FS_AddElement
    <3>7. Cardinality(C) = Cardinality(B) + (IF q[1] \in K THEN 1 ELSE 0)
      BY <3>1, <3>2, <3>3, <3>5, <3>6
    <3> QED
      BY <1>1, <3>7 DEF Count, B, C
  <2> HIDE DEF n
  <2>8. /\ Len(SiftDown(p, 1)) = n - 1
        /\ \A K : Count(q, K) = Count(SiftDown(p, 1), K) + (IF Head(q) \in K THEN 1 ELSE 0)
    BY <2>2, <2>6, <2>7 DEF Permutes
  <2> QED
    BY <2>3, <2>6, <2>8 DEF n
<1> QED
  BY <1>2, <1>3

------------------------------------------------------------------------------
(* What the front end says of an accepted text. *)

\* The model is one the front end makes of a text and accepts.
Linked == program \in Models /\ ValidateAndLink(program)

Kinds == {"CREATE", "QUEUE", "DELAY", "SEIZE", "RELEASE", "ASSIGN", "BRANCH", "TERMINATE"}

\* Every part of an accepted model has its type.
LEMMA ModelTypes ==
    ASSUME Linked
    PROVE  /\ WellTyped(program)
           /\ \A b \in Blocks : Kind(b) \in Kinds /\ P(b) \in ParamTypes(Kind(b))
           /\ \A b \in Blocks : LinksBlock(program, b)
           /\ \A r \in DOMAIN program.capacity : LinksResource(program, r)
<1>1. WellTyped(program)
  BY SimulationAssumption DEF Linked, Models
<1>2. \A b \in Blocks : P(b) \in ParamTypes(Kind(b))
  BY <1>1 DEF WellTyped, P, Kind, Blocks
<1>3. \A b \in Blocks : Kind(b) \in Kinds
  BY <1>2 DEF ParamTypes, Kinds
<1>4. DOMAIN program.seizes = DOMAIN program.capacity
  BY <1>1 DEF WellTyped
<1>5. /\ \A b \in Blocks : LinksBlock(program, b)
      /\ \A r \in DOMAIN program.seizes : LinksResource(program, r)
  BY DEF Linked, ValidateAndLink, Blocks
<1> QED
  BY <1>1, <1>2, <1>3, <1>4, <1>5

\* What a CREATE block names.
LEMMA CreateParts ==
    ASSUME Linked, NEW b \in Blocks, Kind(b) = "CREATE"
    PROVE  /\ P(b).entity \in EntityTypes /\ P(b).next \in Blocks
           /\ P(b).interval \in SUBSET Int /\ P(b).batch \in SUBSET Nat
<1>1. P(b) \in ParamTypes("CREATE") /\ LinksBlock(program, b)
  BY ModelTypes
<1>2. P(b).interval \in SUBSET Int /\ P(b).batch \in SUBSET Nat
  BY <1>1 DEF ParamTypes
<1>3. LinksCreate(program, b)
  BY <1>1 DEF LinksBlock, Kind
<1> QED
  BY <1>2, <1>3 DEF LinksCreate, IsBlock, P, Blocks, EntityTypes

\* What a QUEUE block names.
LEMMA QueueParts ==
    ASSUME Linked, NEW b \in Blocks, Kind(b) = "QUEUE"
    PROVE  /\ P(b).next \in Blocks
           /\ P(b).hasTimeout \in BOOLEAN /\ (P(b).hasTimeout => P(b).nextTimeout \in Blocks)
           /\ P(b).exitOnOverflow \in BOOLEAN /\ (P(b).exitOnOverflow => P(b).nextOverflow \in Blocks)
           /\ P(b).infinite \in BOOLEAN /\ P(b).capacity \in SUBSET Nat
           /\ P(b).timeout.draws \in SUBSET Int
<1>1. P(b) \in ParamTypes("QUEUE") /\ LinksBlock(program, b)
  BY ModelTypes
<1>2. /\ P(b).infinite \in BOOLEAN /\ P(b).capacity \in SUBSET Nat /\ P(b).hasTimeout \in BOOLEAN
      /\ P(b).timeout \in Expr /\ P(b).exitOnOverflow \in BOOLEAN
  BY <1>1 DEF ParamTypes
<1>3. LinksQueue(program, b)
  BY <1>1 DEF LinksBlock, Kind
<1> QED
  BY <1>2, <1>3 DEF LinksQueue, IsBlock, P, Blocks, Expr

\* The queues a block wakes are queues.
Queues(names) == names \in Seq(OfKind("QUEUE"))

\* A sequence of names that are all queues is one of queues.
LEMMA AreQueues ==
    ASSUME Linked, NEW names \in Seq(STRING),
           \A q \in ToSet(names) : IsKind(program, q, "QUEUE")
    PROVE  Queues(names)
<1>1. \A i \in 1..Len(names) : names[i] \in OfKind("QUEUE")
  BY DEF ToSet, IsKind, IsBlock, OfKind, Blocks, Kind
<1>2. names \in [1..Len(names) -> OfKind("QUEUE")] /\ Len(names) \in Nat
  BY <1>1
<1> QED
  BY <1>2, IsSequence DEF Queues

\* What a DELAY block names.
LEMMA DelayParts ==
    ASSUME Linked, NEW b \in Blocks, Kind(b) = "DELAY"
    PROVE  /\ P(b).next \in Blocks /\ Queues(P(b).waitQueues)
           /\ P(b).hasCapacity \in BOOLEAN /\ P(b).capacity \in SUBSET Nat
           /\ P(b).duration.draws \in SUBSET Int
<1>1. P(b) \in ParamTypes("DELAY") /\ LinksBlock(program, b)
  BY ModelTypes
<1>2. /\ P(b).hasCapacity \in BOOLEAN /\ P(b).capacity \in SUBSET Nat
      /\ P(b).duration \in Expr /\ P(b).waitQueues \in Seq(STRING)
  BY <1>1 DEF ParamTypes
<1>3. LinksDelay(program, b)
  BY <1>1 DEF LinksBlock, Kind
<1>4. /\ P(b).next \in Blocks
      /\ \A q \in ToSet(P(b).waitQueues) : IsKind(program, q, "QUEUE")
  BY <1>3 DEF LinksDelay, IsBlock, P, Blocks
<1> QED
  BY <1>2, <1>4, AreQueues DEF Expr

\* What a SEIZE block names.
LEMMA SeizeParts ==
    ASSUME Linked, NEW b \in Blocks, Kind(b) = "SEIZE"
    PROVE  /\ P(b).next \in Blocks /\ Queues(P(b).waitQueues)
           /\ P(b).resource \in DOMAIN program.capacity
<1>1. P(b) \in ParamTypes("SEIZE") /\ LinksBlock(program, b)
  BY ModelTypes
<1>2. P(b).waitQueues \in Seq(STRING)
  BY <1>1 DEF ParamTypes
<1>3. LinksSeize(program, b)
  BY <1>1 DEF LinksBlock, Kind
<1>4. /\ P(b).next \in Blocks /\ P(b).resource \in DOMAIN program.capacity
      /\ \A q \in ToSet(P(b).waitQueues) : IsKind(program, q, "QUEUE")
  BY <1>3 DEF LinksSeize, IsBlock, P, Blocks
<1> QED
  BY <1>2, <1>4, AreQueues

\* What a RELEASE block names.
LEMMA ReleaseParts ==
    ASSUME Linked, NEW b \in Blocks, Kind(b) = "RELEASE"
    PROVE  P(b).next \in Blocks /\ P(b).resource \in DOMAIN program.capacity
<1>1. LinksBlock(program, b)
  BY ModelTypes
<1>2. LinksRelease(program, b)
  BY <1>1 DEF LinksBlock, Kind
<1> QED
  BY <1>2 DEF LinksRelease, IsBlock, P, Blocks

\* What an ASSIGN block names: each target exists.
LEMMA AssignParts ==
    ASSUME Linked, NEW b \in Blocks, Kind(b) = "ASSIGN"
    PROVE  /\ P(b).next \in Blocks
           /\ P(b).assignments \in Seq([entity : STRING, name : STRING, op : {"const", "add"}, expr : Expr])
<1>1. P(b) \in ParamTypes("ASSIGN") /\ LinksBlock(program, b)
  BY ModelTypes
<1>2. P(b).assignments \in Seq([entity : STRING, name : STRING, op : {"const", "add"}, expr : Expr])
  BY <1>1 DEF ParamTypes
<1>3. LinksAssign(program, b)
  BY <1>1 DEF LinksBlock, Kind
<1> QED
  BY <1>2, <1>3 DEF LinksAssign, IsBlock, P, Blocks

\* What a BRANCH block names.
LEMMA BranchParts ==
    ASSUME Linked, NEW b \in Blocks, Kind(b) = "BRANCH"
    PROVE  /\ \A i \in DOMAIN P(b).cases : P(b).cases[i].next \in Blocks
           /\ P(b).hasElse \in BOOLEAN /\ (P(b).hasElse => P(b).elseNext \in Blocks)
<1>1. P(b) \in ParamTypes("BRANCH") /\ LinksBlock(program, b)
  BY ModelTypes
<1>2. P(b).hasElse \in BOOLEAN
  BY <1>1 DEF ParamTypes
<1>3. LinksBranch(program, b)
  BY <1>1 DEF LinksBlock, Kind
<1> QED
  BY <1>2, <1>3 DEF LinksBranch, IsBlock, P, Blocks

\* What a resource lists: SEIZE blocks.
LEMMA ResourceParts ==
    ASSUME Linked, NEW r \in DOMAIN program.capacity
    PROVE  /\ program.capacity[r] \in Nat
           /\ program.seizes[r] \in Seq(OfKind("SEIZE"))
<1>1. /\ WellTyped(program) /\ LinksResource(program, r)
  BY ModelTypes
<1> DEFINE names == program.seizes[r]
<1>2. program.capacity[r] \in Nat /\ names \in Seq(STRING)
  BY <1>1 DEF WellTyped
<1>3. \A i \in 1..Len(names) : names[i] \in OfKind("SEIZE")
  BY <1>1, <1>2 DEF LinksResource, ToSet, IsKind, IsBlock, OfKind, Blocks, Kind
<1>4. names \in [1..Len(names) -> OfKind("SEIZE")] /\ Len(names) \in Nat
  BY <1>2, <1>3
<1>5. names \in Seq(OfKind("SEIZE"))
  BY <1>4, IsSequence
<1> QED
  BY <1>2, <1>5

\* The values of a new entity.
LEMMA DefaultsType ==
    ASSUME Linked, NEW e \in EntityTypes
    PROVE  Defaults(e) \in [FieldNames -> Int]
<1>1. program.entities[e] \in [DOMAIN program.entities[e] -> Int]
  BY ModelTypes DEF WellTyped, EntityTypes
<1> QED
  BY <1>1 DEF Defaults

------------------------------------------------------------------------------
(* The globals, field by field. *)

CounterNames == {"createdN", "enterN", "exitN", "dropN", "timeoutN", "held"}

\* Those that only grow.
Tallies == CounterNames \ {"held"}

SimFields ==
    {"clock", "events", "stop", "reason", "pool", "vars", "resource", "count", "arr", "total",
     "nextMetricAt", "stats"}

\* t differs from s in the fields of F only.
Differ(s, t, F) == \A f \in SimFields \ F : t[f] = s[f]

\* The counters of a block.
LEMMA CountersType == Counters = [CounterNames -> Nat]
<1>1. DOMAIN ZeroCount = CounterNames
  BY DEF ZeroCount, CounterNames
<1> QED
  BY <1>1 DEF Counters

\* Changing the counters of one block.
LEMMA SetCount ==
    ASSUME NEW s \in Sims, NEW b \in Blocks, NEW x \in Counters
    PROVE  LET t == [s EXCEPT !.count[b] = x]
           IN  /\ t \in Sims /\ Differ(s, t, {"count"}) /\ t.count[b] = x
               /\ \A d \in Blocks \ {b} : t.count[d] = s.count[d]
  BY DEF Sims, Differ, SimFields

\* Changing the slots of one queue.
LEMMA SetArr ==
    ASSUME NEW s \in Sims, NEW b \in Blocks, NEW x \in Seq(Slots)
    PROVE  LET t == [s EXCEPT !.arr[b] = x]
           IN  /\ t \in Sims /\ Differ(s, t, {"arr"}) /\ t.arr[b] = x
               /\ \A d \in Blocks \ {b} : t.arr[d] = s.arr[d]
  BY DEF Sims, Differ, SimFields

\* Changing the number of the next place of one queue.
LEMMA SetTotal ==
    ASSUME NEW s \in Sims, NEW b \in Blocks, NEW x \in Nat
    PROVE  LET t == [s EXCEPT !.total[b] = x]
           IN  /\ t \in Sims /\ Differ(s, t, {"total"}) /\ t.total[b] = x
               /\ \A d \in Blocks \ {b} : t.total[d] = s.total[d]
  BY DEF Sims, Differ, SimFields

\* Changing the counters of one resource.
LEMMA SetResource ==
    ASSUME NEW s \in Sims, NEW r \in DOMAIN program.capacity, NEW x \in Uses
    PROVE  LET t == [s EXCEPT !.resource[r] = x]
           IN  /\ t \in Sims /\ Differ(s, t, {"resource"}) /\ t.resource[r] = x
               /\ \A d \in DOMAIN program.capacity \ {r} : t.resource[d] = s.resource[d]
  BY DEF Sims, Differ, SimFields

\* Changing one pool.
LEMMA SetPool ==
    ASSUME NEW s \in Sims, NEW e \in EntityTypes, NEW x \in Pool
    PROVE  LET t == [s EXCEPT !.pool[e] = x]
           IN  /\ t \in Sims /\ Differ(s, t, {"pool"}) /\ t.pool[e] = x
               /\ \A d \in EntityTypes \ {e} : t.pool[d] = s.pool[d]
  BY DEF Sims, Differ, SimFields

\* Changing the events.
LEMMA SetEvents ==
    ASSUME NEW s \in Sims, NEW x \in Seq(Events)
    PROVE  LET t == [s EXCEPT !.events = x]
           IN  t \in Sims /\ Differ(s, t, {"events"}) /\ t.events = x
  BY DEF Sims, Differ, SimFields

\* Changing the variables.
LEMMA SetVars ==
    ASSUME NEW s \in Sims, NEW x \in [DOMAIN program.vars -> Int]
    PROVE  LET t == [s EXCEPT !.vars = x]
           IN  t \in Sims /\ Differ(s, t, {"vars"}) /\ t.vars = x
  BY DEF Sims, Differ, SimFields

\* Stopping the run.
LEMMA SetStop ==
    ASSUME NEW s \in Sims, NEW why \in Reasons
    PROVE  LET t == Stopped(s, why)
           IN  t \in Sims /\ Differ(s, t, {"stop", "reason"}) /\ t.stop /\ t.reason = why
  BY DEF Sims, Differ, SimFields, Stopped

\* What the fields of the globals are.
LEMMA SimTypes ==
    ASSUME NEW s \in Sims
    PROVE  /\ s.clock \in Int /\ s.events \in Seq(Events) /\ s.stop \in BOOLEAN /\ s.reason \in Reasons
           /\ \A e \in EntityTypes : s.pool[e] \in Pool
           /\ s.vars \in [DOMAIN program.vars -> Int]
           /\ \A r \in DOMAIN program.capacity : s.resource[r] \in Uses
           /\ \A b \in Blocks : /\ s.count[b] \in [CounterNames -> Nat]
                                /\ s.count[b].held \in Nat
                                /\ s.arr[b] \in Seq(Slots) /\ s.total[b] \in Nat
           /\ s.nextMetricAt \in Int /\ s.stats \in Nat
  BY CountersType DEF Sims, CounterNames

------------------------------------------------------------------------------
(* The invariant of the globals. *)

\* An entity there is.
ValidRef(s, ref) == ref \in Refs /\ ref.idx \in DOMAIN s.pool[ref.type].entities

ValidSlots(s) == {x \in Slots : ValidRef(s, x.ref)}

\* No time a text draws is negative.
Forward ==
    \A b \in Blocks :
        /\ Kind(b) = "CREATE" => P(b).interval \subseteq Nat
        /\ Kind(b) = "DELAY" => P(b).duration.draws \subseteq Nat
        /\ Kind(b) = "QUEUE" => P(b).timeout.draws \subseteq Nat

ValidEvents(s) ==
    {v \in Events : /\ v.do = "delay" => ValidRef(s, v.ref)
                    /\ Forward => v.time >= s.clock}

GivesReason(s) == s.stop => s.reason # ""

WithinCapacity(s) ==
    /\ \A b \in Blocks : Fits(b, s.count[b].held)
    /\ \A r \in DOMAIN program.capacity : s.resource[r].busy <= program.capacity[r]

FreeValid(s) ==
    \A e \in EntityTypes : ToSet(s.pool[e].free) \subseteq DOMAIN s.pool[e].entities

SlotsValid(s) == \A b \in Blocks : s.arr[b] \in Seq(ValidSlots(s))

EventsValid(s) == s.events \in Seq(ValidEvents(s)) /\ IsHeap(s.events)

Good(s) ==
    /\ Linked
    /\ s \in Sims
    /\ GivesReason(s)
    /\ WithinCapacity(s)
    /\ FreeValid(s)
    /\ SlotsValid(s)
    /\ EventsValid(s)

\* What no block function touches: the clock, the metrics, the size of a pool,
\* and a run that has stopped stays so.
Same(s, t) ==
    /\ t.clock = s.clock /\ t.nextMetricAt = s.nextMetricAt /\ t.stats = s.stats
    /\ \A e \in EntityTypes : DOMAIN t.pool[e].entities = DOMAIN s.pool[e].entities
    /\ s.stop => t.stop

Kept(s, t) == Good(t) /\ Same(s, t)

\* Two steps that keep the invariant keep it together.
LEMMA KeptTransitive ==
    ASSUME NEW s, NEW t, NEW u, Kept(s, t), Kept(t, u)
    PROVE  Kept(s, u)
  BY DEF Kept, Same

\* Doing nothing keeps the invariant.
LEMMA KeptReflexive ==
    ASSUME NEW s, Good(s)
    PROVE  Kept(s, s)
  BY DEF Kept, Same

\* What is valid depends on the clock and the sizes of the pools only.
LEMMA SameValid ==
    ASSUME NEW s, NEW t, Same(s, t)
    PROVE  /\ ValidEvents(t) = ValidEvents(s) /\ ValidSlots(t) = ValidSlots(s)
           /\ \A ref : ValidRef(t, ref) <=> ValidRef(s, ref)
<1>1. \A ref : ValidRef(t, ref) <=> ValidRef(s, ref)
  BY DEF ValidRef, Same, Refs
<1>2. t.clock = s.clock
  BY DEF Same
<1> QED
  BY <1>1, <1>2 DEF ValidEvents, ValidSlots

\* One counter of a block is one higher.
OneMore(count, c) == [count EXCEPT ![c] = count[c] + 1]

\* Counting an entity in or out.
LEMMA KeepsCounted ==
    ASSUME NEW s, Good(s), NEW b \in Blocks, NEW c \in Tallies
    PROVE  LET t == Counted(s, b, c)
           IN  /\ Kept(s, t) /\ Differ(s, t, {"count"})
               /\ \A d \in Blocks \ {b} : t.count[d] = s.count[d]
               /\ t.count[b] = OneMore(s.count[b], c)
               /\ \A d \in Blocks : t.count[d].held = s.count[d].held
<1> DEFINE x == [s.count[b] EXCEPT ![c] = s.count[b][c] + 1]
           t == [s EXCEPT !.count[b] = x]
<1>0. Counted(s, b, c) = t
  BY DEF Counted
<1>1. s \in Sims /\ x \in [CounterNames -> Nat] /\ x.held = s.count[b].held
  <2>1. s \in Sims /\ s.count[b] \in [CounterNames -> Nat]
    BY SimTypes DEF Good
  <2>2. c \in CounterNames /\ "held" \in CounterNames \ {c}
    BY DEF CounterNames, Tallies
  <2>3. x["held"] = s.count[b]["held"]
    BY <2>1, <2>2
  <2>4. s.count[b][c] + 1 \in Nat
    BY <2>1, <2>2
  <2>5. x \in [CounterNames -> Nat]
    BY <2>1, <2>4
  <2> QED
    BY <2>1, <2>3, <2>5
<1>2. x \in Counters
  BY <1>1, CountersType
<1> HIDE DEF x
<1>3. /\ t \in Sims /\ Differ(s, t, {"count"}) /\ t.count[b] = x
      /\ \A d \in Blocks \ {b} : t.count[d] = s.count[d]
  BY <1>1, <1>2, SetCount
<1> HIDE DEF t
<1>4. \A d \in Blocks : t.count[d].held = s.count[d].held
  BY <1>1, <1>3
<1>5. /\ t.clock = s.clock /\ t.nextMetricAt = s.nextMetricAt /\ t.stats = s.stats /\ t.pool = s.pool
      /\ t.stop = s.stop /\ t.reason = s.reason /\ t.events = s.events /\ t.arr = s.arr
      /\ t.resource = s.resource
  BY <1>3 DEF Differ, SimFields
<1>6. Same(s, t)
  BY <1>5 DEF Same
<1>7. Good(t)
  BY <1>3, <1>4, <1>5, <1>6, SameValid
     DEF Good, GivesReason, WithinCapacity, FreeValid, SlotsValid, EventsValid
<1> QED
  BY <1>0, <1>3, <1>4, <1>6, <1>7 DEF Kept, x, OneMore

------------------------------------------------------------------------------
(* Counting the elements of a sequence. *)

\* Changing one element.
LEMMA ChangeCounts ==
    ASSUME NEW E, NEW q \in Seq(E), NEW i \in DOMAIN q, NEW x \in E, NEW K
    PROVE  Count([q EXCEPT ![i] = x], K) + (IF q[i] \in K THEN 1 ELSE 0)
             = Count(q, K) + (IF x \in K THEN 1 ELSE 0)
<1> DEFINE p == [q EXCEPT ![i] = x]
           A == {k \in DOMAIN q : q[k] \in K}
           B == {k \in DOMAIN p : p[k] \in K}
<1>1. DOMAIN p = DOMAIN q /\ p[i] = x /\ \A k \in DOMAIN q \ {i} : p[k] = q[k]
  OBVIOUS
<1>2. IsFiniteSet(A) /\ Cardinality(A) \in Nat
  BY PlacesFinite DEF Count
<1>3. A \ {i} = B \ {i} /\ (i \in A <=> q[i] \in K) /\ (i \in B <=> x \in K)
  BY <1>1
<1>4. B = IF x \in K THEN (A \ {i}) \cup {i} ELSE A \ {i}
  BY <1>3
<1> HIDE DEF A, B, p
<1>5. /\ IsFiniteSet(A \ {i})
      /\ Cardinality(A \ {i}) = IF q[i] \in K THEN Cardinality(A) - 1 ELSE Cardinality(A)
  BY <1>2, <1>3, FS_RemoveElement
<1>6. Cardinality(B) = IF x \in K THEN Cardinality(A \ {i}) + 1 ELSE Cardinality(A \ {i})
  <2>1. i \notin A \ {i}
    OBVIOUS
  <2> QED
    BY <1>4, <1>5, <2>1, FS_AddElement
<1>7. Cardinality(B) + (IF q[i] \in K THEN 1 ELSE 0) = Cardinality(A) + (IF x \in K THEN 1 ELSE 0)
  BY <1>2, <1>5, <1>6
<1> QED
  BY <1>7 DEF Count, A, B, p

\* Taking off the last element.
LEMMA FrontCounts ==
    ASSUME NEW E, NEW q \in Seq(E), Len(q) # 0, NEW K
    PROVE  LET p == SubSeq(q, 1, Len(q) - 1)
           IN  /\ p \in Seq(E)
               /\ Count(q, K) = Count(p, K) + (IF q[Len(q)] \in K THEN 1 ELSE 0)
<1> DEFINE n == Len(q)
           p == SubSeq(q, 1, n - 1)
           A == {k \in DOMAIN q : q[k] \in K}
           B == {k \in DOMAIN p : p[k] \in K}
<1>1. /\ n \in Nat \ {0} /\ DOMAIN q = 1..n /\ p \in Seq(E) /\ DOMAIN p = 1..(n - 1)
      /\ \A k \in 1..(n - 1) : p[k] = q[k]
  OBVIOUS
<1>2. IsFiniteSet(B) /\ Cardinality(B) \in Nat
  BY <1>1, PlacesFinite DEF Count
<1>3. A = (IF q[n] \in K THEN B \cup {n} ELSE B) /\ n \notin B
  BY <1>1
<1> HIDE DEF A, B, p
<1>4. Cardinality(A) = IF q[n] \in K THEN Cardinality(B) + 1 ELSE Cardinality(B)
  BY <1>2, <1>3, FS_AddElement
<1>5. Cardinality(A) = Cardinality(B) + (IF q[n] \in K THEN 1 ELSE 0)
  BY <1>2, <1>4
<1> QED
  BY <1>1, <1>5 DEF Count, A, B, p

\* Taking off elements at the front that are not counted.
LEMMA ShiftCounts ==
    ASSUME NEW E, NEW q \in Seq(E), NEW m \in 1..(Len(q) + 1), NEW K,
           \A i \in 1..(m - 1) : q[i] \notin K
    PROVE  LET p == SubSeq(q, m, Len(q))
           IN  p \in Seq(E) /\ Count(p, K) = Count(q, K)
<1> DEFINE n == Len(q)
           p == SubSeq(q, m, n)
           A == {k \in DOMAIN q : q[k] \in K}
           B == {k \in DOMAIN p : p[k] \in K}
           f == [k \in B |-> k + m - 1]
<1>1. /\ n \in Nat /\ m \in Nat /\ 1 <= m /\ m <= n + 1 /\ DOMAIN q = 1..n
      /\ p \in Seq(E) /\ Len(p) = n - m + 1 /\ DOMAIN p = 1..(n - m + 1)
      /\ \A k \in 1..(n - m + 1) : p[k] = q[k + m - 1]
  OBVIOUS
<1>2. IsFiniteSet(B) /\ Cardinality(B) \in Nat
  BY <1>1, PlacesFinite DEF Count
<1>3. \A k \in B : k \in Nat /\ k + m - 1 \in A
  BY <1>1
<1>4. \A j \in A : j - m + 1 \in B /\ (j - m + 1) + m - 1 = j
  <2> SUFFICES ASSUME NEW j \in A PROVE j - m + 1 \in B /\ (j - m + 1) + m - 1 = j
    OBVIOUS
  <2>1. j \in 1..n /\ q[j] \in K
    BY <1>1
  <2>2. j >= m
    BY <1>1, <2>1
  <2>3. j - m + 1 \in 1..(n - m + 1) /\ (j - m + 1) + m - 1 = j
    BY <1>1, <2>1, <2>2
  <2> QED
    BY <1>1, <2>1, <2>3
<1> HIDE DEF A, B, p
<1>5. f \in Bijection(B, A)
  <2>1. f \in [B -> A]
    BY <1>3
  <2>2. \A j, k \in B : f[j] = f[k] => j = k
    BY <1>1, <1>3
  <2>3. \A j \in A : \E k \in B : f[k] = j
    BY <1>4
  <2> QED
    BY <2>1, <2>2, <2>3 DEF Bijection, Injection, Surjection, IsInjective
<1>6. Cardinality(A) = Cardinality(B)
  BY <1>2, <1>5, FS_Bijection DEF ExistsBijection
<1> QED
  BY <1>1, <1>6 DEF Count, A, B, p

\* Taking off the head.
LEMMA TailCounts ==
    ASSUME NEW E, NEW q \in Seq(E), q # <<>>, NEW K
    PROVE  /\ Tail(q) \in Seq(E)
           /\ Count(q, K) = Count(Tail(q), K) + (IF Head(q) \in K THEN 1 ELSE 0)
<1> DEFINE n == Len(q)
           p == Tail(q)
           A == {k \in DOMAIN q : q[k] \in K}
           B == {k \in DOMAIN p : p[k] \in K}
           f == [k \in B |-> k + 1]
<1>1. /\ n \in Nat \ {0} /\ DOMAIN q = 1..n /\ p \in Seq(E) /\ Len(p) = n - 1 /\ DOMAIN p = 1..(n - 1)
      /\ \A k \in 1..(n - 1) : p[k] = q[k + 1]
      /\ Head(q) = q[1]
  OBVIOUS
<1>2. IsFiniteSet(B) /\ IsFiniteSet(A)
  BY <1>1, PlacesFinite DEF Count
<1>3. \A k \in B : k \in Nat /\ k + 1 \in A \ {1}
  BY <1>1
<1>4. \A j \in A \ {1} : j - 1 \in B /\ (j - 1) + 1 = j
  BY <1>1
<1>5. 1 \in A <=> Head(q) \in K
  BY <1>1
<1> HIDE DEF A, B, p
<1>6. f \in Bijection(B, A \ {1})
  <2>1. f \in [B -> A \ {1}]
    BY <1>3
  <2>2. \A j, k \in B : f[j] = f[k] => j = k
    BY <1>3
  <2>3. \A j \in A \ {1} : \E k \in B : f[k] = j
    BY <1>4
  <2> QED
    BY <2>1, <2>2, <2>3 DEF Bijection, Injection, Surjection, IsInjective
<1>7. Cardinality(A \ {1}) = Cardinality(B)
  BY <1>2, <1>6, FS_Bijection DEF ExistsBijection
<1>8. Cardinality(A \ {1}) = IF Head(q) \in K THEN Cardinality(A) - 1 ELSE Cardinality(A)
  BY <1>2, <1>5, FS_RemoveElement
<1>9. Cardinality(A) \in Nat
  BY <1>2, FS_CardinalityType
<1>10. Cardinality(A) = Cardinality(B) + (IF Head(q) \in K THEN 1 ELSE 0)
  BY <1>7, <1>8, <1>9
<1> QED
  BY <1>1, <1>10 DEF Count, A, B, p

\* Nothing is counted in the empty sequence, and what is counted there is.
LEMMA NoneCounted ==
    ASSUME NEW E, NEW q \in Seq(E), NEW K
    PROVE  Count(q, K) = 0 <=> \A i \in DOMAIN q : q[i] \notin K
<1>1. IsFiniteSet({i \in DOMAIN q : q[i] \in K})
  BY PlacesFinite
<1> QED
  BY <1>1, FS_EmptySet DEF Count

------------------------------------------------------------------------------
(* The queues. *)

Live == {x \in Slots : x.valid}

\* Some numbers have a least one.
LEMMA LeastExists ==
    ASSUME NEW S \in SUBSET Nat, S # {}
    PROVE  \E m \in S : \A n \in S : m <= n
<1>1. PICK m \in S : \A n \in S : ~ (<<n, m>> \in OpToRel(<, Nat))
  BY NatLessThanWellFounded, WFMin
<1>2. \A n \in S : ~ (n < m)
  BY <1>1 DEF OpToRel
<1> QED
  BY <1>2

\* Dropping the slots given up at the front loses nobody who waits.
LEMMA DropInvalidFacts ==
    ASSUME NEW V \in SUBSET Slots, NEW arr \in Seq(V)
    PROVE  LET left == DropInvalid(arr)
           IN  /\ left \in Seq(V)
               /\ \A K \in SUBSET Live : Count(left, K) = Count(arr, K)
               /\ left # <<>> => Head(left) \in V /\ Head(left).valid
               /\ left = <<>> => Count(arr, Live) = 0
               /\ arr # <<>> /\ Head(arr).valid => left = arr
<1> DEFINE live == {i \in DOMAIN arr : arr[i].valid}
           m == Min(live)
<1>1. Len(arr) \in Nat /\ DOMAIN arr = 1..Len(arr) /\ \A i \in DOMAIN arr : arr[i] \in V
  OBVIOUS
<1>2. CASE live = {}
  <2>1. DropInvalid(arr) = <<>>
    BY <1>2 DEF DropInvalid
  <2>2. \A i \in DOMAIN arr : arr[i] \notin Live
    BY <1>1, <1>2 DEF Live
  <2>3. \A K \in SUBSET Live : Count(arr, K) = 0
    BY <2>2, NoneCounted
  <2>4. \A K : Count(<<>>, K) = 0
    <3>1. <<>> \in Seq(V) /\ DOMAIN <<>> = {}
      OBVIOUS
    <3> QED
      BY <3>1, NoneCounted
  <2>5. arr # <<>> => ~Head(arr).valid
    BY <1>1, <1>2
  <2> QED
    BY <2>1, <2>3, <2>4, <2>5
<1>3. CASE live # {}
  <2>1. m \in live /\ \A i \in live : m <= i
    <3>1. live \in SUBSET Nat
      BY <1>1
    <3>2. PICK i \in live : \A j \in live : i <= j
      BY <1>3, <3>1, LeastExists
    <3> QED
      BY <3>2 DEF Min
  <2> HIDE DEF m
  <2>2. m \in 1..Len(arr) /\ arr[m].valid /\ \A i \in 1..(m - 1) : ~arr[i].valid
    BY <1>1, <2>1
  <2>3. DropInvalid(arr) = SubSeq(arr, m, Len(arr))
    BY <1>3 DEF DropInvalid, m
  <2>4. \A K \in SUBSET Live : \A i \in 1..(m - 1) : arr[i] \notin K
    BY <2>2 DEF Live
  <2>5. /\ m \in 1..(Len(arr) + 1) /\ SubSeq(arr, m, Len(arr)) \in Seq(V)
        /\ SubSeq(arr, m, Len(arr)) # <<>>
        /\ Head(SubSeq(arr, m, Len(arr))) = arr[m]
    <3> DEFINE left == SubSeq(arr, m, Len(arr))
    <3>1. /\ m \in Nat /\ 1 <= m /\ m <= Len(arr) /\ left \in Seq(V) /\ Len(left) = Len(arr) - m + 1
      BY <1>1, <2>2
    <3>2. 1 \in 1..Len(left) /\ left[1] = arr[m]
      BY <1>1, <3>1
    <3> HIDE DEF left
    <3>3. left # <<>> /\ Head(left) = left[1]
      BY <3>1, <3>2
    <3> QED
      BY <2>2, <3>1, <3>2, <3>3 DEF left
  <2>6. ASSUME NEW K \in SUBSET Live PROVE Count(SubSeq(arr, m, Len(arr)), K) = Count(arr, K)
    <3>1. \A i \in 1..(m - 1) : arr[i] \notin K
      BY <2>4
    <3> QED
      BY <2>5, <3>1, ShiftCounts
  <2>7. Head(arr).valid => SubSeq(arr, m, Len(arr)) = arr
    <3> SUFFICES ASSUME Head(arr).valid PROVE SubSeq(arr, m, Len(arr)) = arr
      OBVIOUS
    <3>1. 1 \in live
      BY <1>1, <2>2
    <3>2. m = 1
      BY <2>1, <2>2, <3>1
    <3> QED
      BY <1>1, <3>2
  <2> QED
    BY <1>1, <2>2, <2>3, <2>5, <2>6, <2>7
<1> QED
  BY <1>2, <1>3

------------------------------------------------------------------------------
(* The operations on the globals keep the invariant. *)

\* Other slots for one queue.
LEMMA KeepsArr ==
    ASSUME NEW s, Good(s), NEW b \in Blocks, NEW x \in Seq(ValidSlots(s))
    PROVE  LET t == [s EXCEPT !.arr[b] = x]
           IN  /\ Kept(s, t) /\ Differ(s, t, {"arr"})
               /\ t.arr[b] = x
               /\ \A d \in Blocks \ {b} : t.arr[d] = s.arr[d]
<1> DEFINE t == [s EXCEPT !.arr[b] = x]
<1>1. s \in Sims
  BY DEF Good
<1>0. x \in Seq(Slots)
  BY DEF ValidSlots
<1>2. /\ t \in Sims /\ Differ(s, t, {"arr"})
      /\ t.arr[b] = x
      /\ \A d \in Blocks \ {b} : t.arr[d] = s.arr[d]
  BY <1>1, <1>0, SetArr
<1> HIDE DEF t
<1>3. /\ t.clock = s.clock /\ t.nextMetricAt = s.nextMetricAt /\ t.stats = s.stats /\ t.pool = s.pool
      /\ t.stop = s.stop /\ t.reason = s.reason /\ t.events = s.events /\ t.resource = s.resource /\ t.count = s.count
  BY <1>2 DEF Differ, SimFields
<1>4. Same(s, t)
  BY <1>3 DEF Same
<1>5. Good(t)
  BY <1>2, <1>3, <1>4, SameValid
     DEF Good, GivesReason, WithinCapacity, FreeValid, SlotsValid, EventsValid
<1> QED
  BY <1>2, <1>4, <1>5 DEF Kept, t

\* The same, with the change named.
WithArr(s, b, x) == [s EXCEPT !.arr[b] = x]

\* What changing the slots of one queue to valid ones keeps.
LEMMA KeepsWithArr ==
    ASSUME NEW s, Good(s), NEW b \in Blocks, NEW x \in Seq(ValidSlots(s))
    PROVE  /\ Kept(s, WithArr(s, b, x)) /\ Differ(s, WithArr(s, b, x), {"arr"})
           /\ WithArr(s, b, x).arr[b] = x
           /\ \A d \in Blocks \ {b} : WithArr(s, b, x).arr[d] = s.arr[d]
  BY KeepsArr, SMTT(30) DEF WithArr

\* Another number for the next place of a queue.
LEMMA KeepsTotal ==
    ASSUME NEW s, Good(s), NEW b \in Blocks, NEW x \in Nat
    PROVE  LET t == [s EXCEPT !.total[b] = x]
           IN  /\ Kept(s, t) /\ Differ(s, t, {"total"})
               /\ t.total[b] = x
               /\ \A d \in Blocks \ {b} : t.total[d] = s.total[d]
<1> DEFINE t == [s EXCEPT !.total[b] = x]
<1>1. s \in Sims
  BY DEF Good
<1>2. /\ t \in Sims /\ Differ(s, t, {"total"})
      /\ t.total[b] = x
      /\ \A d \in Blocks \ {b} : t.total[d] = s.total[d]
  BY <1>1, SetTotal
<1> HIDE DEF t
<1>3. /\ t.clock = s.clock /\ t.nextMetricAt = s.nextMetricAt /\ t.stats = s.stats /\ t.pool = s.pool
      /\ t.stop = s.stop /\ t.reason = s.reason /\ t.events = s.events /\ t.arr = s.arr /\ t.resource = s.resource /\ t.count = s.count
  BY <1>2 DEF Differ, SimFields
<1>4. Same(s, t)
  BY <1>3 DEF Same
<1>5. Good(t)
  BY <1>2, <1>3, <1>4, SameValid
     DEF Good, GivesReason, WithinCapacity, FreeValid, SlotsValid, EventsValid
<1> QED
  BY <1>2, <1>4, <1>5 DEF Kept, t

\* Other values for the variables.
LEMMA KeepsVars ==
    ASSUME NEW s, Good(s), NEW x \in [DOMAIN program.vars -> Int]
    PROVE  LET t == [s EXCEPT !.vars = x]
           IN  /\ Kept(s, t) /\ Differ(s, t, {"vars"})
               /\ t.vars = x
<1> DEFINE t == [s EXCEPT !.vars = x]
<1>1. s \in Sims
  BY DEF Good
<1>2. /\ t \in Sims /\ Differ(s, t, {"vars"})
      /\ t.vars = x
  BY <1>1, SetVars
<1> HIDE DEF t
<1>3. /\ t.clock = s.clock /\ t.nextMetricAt = s.nextMetricAt /\ t.stats = s.stats /\ t.pool = s.pool
      /\ t.stop = s.stop /\ t.reason = s.reason /\ t.events = s.events /\ t.arr = s.arr /\ t.resource = s.resource /\ t.count = s.count
  BY <1>2 DEF Differ, SimFields
<1>4. Same(s, t)
  BY <1>3 DEF Same
<1>5. Good(t)
  BY <1>2, <1>3, <1>4, SameValid
     DEF Good, GivesReason, WithinCapacity, FreeValid, SlotsValid, EventsValid
<1> QED
  BY <1>2, <1>4, <1>5 DEF Kept, t

\* Stopping the run for a reason.
LEMMA KeepsStop ==
    ASSUME NEW s, Good(s), NEW why \in Reasons, why # ""
    PROVE  LET t == Stopped(s, why)
           IN  /\ Kept(s, t) /\ Differ(s, t, {"stop", "reason"})
               /\ t.stop /\ t.reason = why
<1> DEFINE t == Stopped(s, why)
<1>1. s \in Sims
  BY DEF Good
<1>2. /\ t \in Sims /\ Differ(s, t, {"stop", "reason"})
      /\ t.stop /\ t.reason = why
  BY <1>1, SetStop
<1> HIDE DEF t
<1>3. /\ t.clock = s.clock /\ t.nextMetricAt = s.nextMetricAt /\ t.stats = s.stats /\ t.pool = s.pool
      /\ t.events = s.events /\ t.arr = s.arr /\ t.resource = s.resource /\ t.count = s.count
  BY <1>2 DEF Differ, SimFields
<1>4. Same(s, t)
  BY <1>2, <1>3 DEF Same
<1>5. Good(t)
  BY <1>2, <1>3, <1>4, SameValid
     DEF Good, GivesReason, WithinCapacity, FreeValid, SlotsValid, EventsValid
<1> QED
  BY <1>2, <1>4, <1>5 DEF Kept, t

\* Another heap of events.
LEMMA KeepsEvents ==
    ASSUME NEW s, Good(s), NEW x \in Seq(ValidEvents(s)), IsHeap(x)
    PROVE  LET t == [s EXCEPT !.events = x]
           IN  /\ Kept(s, t) /\ Differ(s, t, {"events"})
               /\ t.events = x
<1> DEFINE t == [s EXCEPT !.events = x]
<1>1. s \in Sims
  BY DEF Good
<1>0. x \in Seq(Events)
  BY DEF ValidEvents
<1>2. /\ t \in Sims /\ Differ(s, t, {"events"})
      /\ t.events = x
  BY <1>1, <1>0, SetEvents
<1> HIDE DEF t
<1>3. /\ t.clock = s.clock /\ t.nextMetricAt = s.nextMetricAt /\ t.stats = s.stats /\ t.pool = s.pool
      /\ t.stop = s.stop /\ t.reason = s.reason /\ t.arr = s.arr /\ t.resource = s.resource /\ t.count = s.count
  BY <1>2 DEF Differ, SimFields
<1>4. Same(s, t)
  BY <1>3 DEF Same
<1>5. Good(t)
  BY <1>2, <1>3, <1>4, SameValid
     DEF Good, GivesReason, WithinCapacity, FreeValid, SlotsValid, EventsValid
<1> QED
  BY <1>2, <1>4, <1>5 DEF Kept, t

\* Another use of a resource, within its capacity.
LEMMA KeepsResource ==
    ASSUME NEW s, Good(s), NEW r \in DOMAIN program.capacity, NEW x \in Uses,
           x.busy <= program.capacity[r]
    PROVE  LET t == [s EXCEPT !.resource[r] = x]
           IN  /\ Kept(s, t) /\ Differ(s, t, {"resource"})
               /\ t.resource[r] = x
               /\ \A d \in DOMAIN program.capacity \ {r} : t.resource[d] = s.resource[d]
<1> DEFINE t == [s EXCEPT !.resource[r] = x]
<1>1. s \in Sims
  BY DEF Good
<1>2. /\ t \in Sims /\ Differ(s, t, {"resource"})
      /\ t.resource[r] = x
      /\ \A d \in DOMAIN program.capacity \ {r} : t.resource[d] = s.resource[d]
  BY <1>1, SetResource
<1> HIDE DEF t
<1>3. /\ t.clock = s.clock /\ t.nextMetricAt = s.nextMetricAt /\ t.stats = s.stats /\ t.pool = s.pool
      /\ t.stop = s.stop /\ t.reason = s.reason /\ t.events = s.events /\ t.arr = s.arr /\ t.count = s.count
  BY <1>2 DEF Differ, SimFields
<1>4. Same(s, t)
  BY <1>3 DEF Same
<1>5. Good(t)
  BY <1>2, <1>3, <1>4, SameValid
     DEF Good, GivesReason, WithinCapacity, FreeValid, SlotsValid, EventsValid
<1> QED
  BY <1>2, <1>4, <1>5 DEF Kept, t

\* Another free list, or other values in a pool of the same size.
LEMMA KeepsPool ==
    ASSUME NEW s, Good(s), NEW e \in EntityTypes, NEW x \in Pool,
           DOMAIN x.entities = DOMAIN s.pool[e].entities, ToSet(x.free) \subseteq DOMAIN x.entities
    PROVE  LET t == [s EXCEPT !.pool[e] = x]
           IN  /\ Kept(s, t) /\ Differ(s, t, {"pool"})
               /\ t.pool[e] = x
               /\ \A d \in EntityTypes \ {e} : t.pool[d] = s.pool[d]
<1> DEFINE t == [s EXCEPT !.pool[e] = x]
<1>1. s \in Sims
  BY DEF Good
<1>2. /\ t \in Sims /\ Differ(s, t, {"pool"})
      /\ t.pool[e] = x
      /\ \A d \in EntityTypes \ {e} : t.pool[d] = s.pool[d]
  BY <1>1, SetPool
<1> HIDE DEF t
<1>3. /\ t.clock = s.clock /\ t.nextMetricAt = s.nextMetricAt /\ t.stats = s.stats /\ t.stop = s.stop
      /\ t.reason = s.reason /\ t.events = s.events /\ t.arr = s.arr /\ t.resource = s.resource /\ t.count = s.count
  BY <1>2 DEF Differ, SimFields
<1>4. Same(s, t)
  BY <1>2, <1>3 DEF Same
<1>5. Good(t)
  BY <1>2, <1>3, <1>4, SameValid
     DEF Good, GivesReason, WithinCapacity, FreeValid, SlotsValid, EventsValid
<1> QED
  BY <1>2, <1>4, <1>5 DEF Kept, t

\* Other counters of a block, which holds no more than it may.
LEMMA KeepsCount ==
    ASSUME NEW s, Good(s), NEW b \in Blocks, NEW x \in Counters, Fits(b, x.held)
    PROVE  LET t == [s EXCEPT !.count[b] = x]
           IN  /\ Kept(s, t) /\ Differ(s, t, {"count"})
               /\ t.count[b] = x
               /\ \A d \in Blocks \ {b} : t.count[d] = s.count[d]
<1> DEFINE t == [s EXCEPT !.count[b] = x]
<1>1. s \in Sims
  BY DEF Good
<1>2. /\ t \in Sims /\ Differ(s, t, {"count"})
      /\ t.count[b] = x
      /\ \A d \in Blocks \ {b} : t.count[d] = s.count[d]
  BY <1>1, SetCount
<1> HIDE DEF t
<1>3. /\ t.clock = s.clock /\ t.nextMetricAt = s.nextMetricAt /\ t.stats = s.stats /\ t.pool = s.pool
      /\ t.stop = s.stop /\ t.reason = s.reason /\ t.events = s.events /\ t.arr = s.arr /\ t.resource = s.resource
  BY <1>2 DEF Differ, SimFields
<1>4. Same(s, t)
  BY <1>3 DEF Same
<1>5. Good(t)
  BY <1>2, <1>3, <1>4, SameValid
     DEF Good, GivesReason, WithinCapacity, FreeValid, SlotsValid, EventsValid
<1> QED
  BY <1>2, <1>4, <1>5 DEF Kept, t

\* What leaves room for some leaves room for fewer.
LEMMA FewerFit ==
    ASSUME Linked, NEW b \in Blocks, NEW m \in Nat, Fits(b, m), NEW n \in Nat, n <= m
    PROVE  Fits(b, n)
<1> SUFFICES ASSUME Bounded(b), n > 0 PROVE \E c \in P(b).capacity : n <= c
  BY DEF Fits
<1>1. P(b).capacity \in SUBSET Nat
  BY QueueParts, DelayParts DEF Bounded
<1>2. PICK c \in P(b).capacity : m <= c
  BY DEF Fits
<1>3. c \in Nat
  BY <1>1
<1>4. n <= c
  BY <1>2, <1>3
<1> QED
  BY <1>4

\* A block that may have room has it for one more.
LEMMA RoomFits ==
    ASSUME NEW s, Good(s), NEW b \in Blocks, MayHaveRoom(s, b)
    PROVE  Fits(b, s.count[b].held + 1)
<1> SUFFICES ASSUME Bounded(b) PROVE \E c \in P(b).capacity : s.count[b].held + 1 <= c
  BY DEF Fits
<1>1. P(b).capacity \in SUBSET Nat /\ s.count[b].held \in Nat
  BY QueueParts, DelayParts, SimTypes DEF Bounded, Good
<1>2. PICK c \in P(b).capacity : ~(s.count[b].held >= c)
  BY DEF MayHaveRoom, Full
<1>3. c \in Nat
  BY <1>1
<1>4. s.count[b].held + 1 <= c
  BY <1>1, <1>2, <1>3
<1> QED
  BY <1>4

\* Holding more or fewer entities.
LEMMA KeepsHeld ==
    ASSUME NEW s, Good(s), NEW b \in Blocks, NEW n \in Nat, Fits(b, n)
    PROVE  LET t == [s EXCEPT !.count[b].held = n]
           IN  /\ Kept(s, t) /\ Differ(s, t, {"count"})
               /\ t.count[b] = [s.count[b] EXCEPT !.held = n]
               /\ \A d \in Blocks \ {b} : t.count[d] = s.count[d]
<1> DEFINE x == [s.count[b] EXCEPT !.held = n]
<1>1. [s EXCEPT !.count[b].held = n] = [s EXCEPT !.count[b] = x]
  OBVIOUS
<1>2. s.count[b] \in [CounterNames -> Nat]
  BY SimTypes DEF Good
<1>3. x \in [CounterNames -> Nat] /\ x.held = n
  BY <1>2 DEF CounterNames
<1>4. x \in Counters
  BY <1>3, CountersType
<1> HIDE DEF x
<1>5. Fits(b, x.held)
  BY <1>3
<1> DEFINE t == [s EXCEPT !.count[b] = x]
<1>6. /\ Kept(s, t) /\ Differ(s, t, {"count"}) /\ t.count[b] = x
      /\ \A d \in Blocks \ {b} : t.count[d] = s.count[d]
  BY <1>4, <1>5, KeepsCount
<1> HIDE DEF t
<1> QED
  BY <1>1, <1>6 DEF x, t

\* An entity that joins a queue that has room for it.
LEMMA KeepsQueuePush ==
    ASSUME NEW s, Good(s), NEW b \in Blocks, NEW ref, ValidRef(s, ref),
           Fits(b, s.count[b].held + 1)
    PROVE  LET t == QueuePush(s, b, ref)
               x == [ref |-> ref, valid |-> TRUE]
           IN  /\ Kept(s, t) /\ Differ(s, t, {"arr", "total", "count"})
               /\ x \in Live
               /\ t.arr[b] = Append(s.arr[b], x)
               /\ t.count[b] = [s.count[b] EXCEPT !.held = s.count[b].held + 1]
               /\ \A d \in Blocks \ {b} : t.arr[d] = s.arr[d] /\ t.count[d] = s.count[d]
<1> DEFINE x == [ref |-> ref, valid |-> TRUE]
           n == s.count[b].held + 1
           y == Append(s.arr[b], x)
           s1 == [s EXCEPT !.arr[b] = y]
           s2 == [s1 EXCEPT !.total[b] = s.total[b] + 1]
           t == [s2 EXCEPT !.count[b].held = n]
<1>1. x \in ValidSlots(s) /\ x \in Live
  BY DEF ValidSlots, ValidRef, Slots, Live
<1>2. /\ s.arr[b] \in Seq(ValidSlots(s)) /\ s.total[b] + 1 \in Nat /\ n \in Nat
  BY SimTypes DEF Good, SlotsValid
<1>3. QueuePush(s, b, ref) = t
  BY DEF QueuePush
<1>4. Append(s.arr[b], x) \in Seq(ValidSlots(s))
  BY <1>1, <1>2
<1> HIDE DEF x, n
<1>5. /\ Kept(s, s1) /\ Differ(s, s1, {"arr"}) /\ s1.arr[b] = Append(s.arr[b], x)
      /\ \A d \in Blocks \ {b} : s1.arr[d] = s.arr[d]
  <2>1. y \in Seq(ValidSlots(s))
    BY <1>4
  <2>2. y = Append(s.arr[b], x)
    OBVIOUS
  <2> HIDE DEF y
  <2>3. /\ Kept(s, s1) /\ Differ(s, s1, {"arr"}) /\ s1.arr[b] = y
        /\ \A d \in Blocks \ {b} : s1.arr[d] = s.arr[d]
    BY <2>1, KeepsArr, SMTT(30)
  <2> QED
    BY <2>2, <2>3
<1> HIDE DEF s1
<1>6. Kept(s1, s2) /\ Differ(s1, s2, {"total"})
  BY <1>2, <1>5, KeepsTotal DEF Kept
<1> HIDE DEF s2
<1>7. s2.count = s.count
  BY <1>5, <1>6 DEF Differ, SimFields
<1>8. /\ Kept(s2, t) /\ Differ(s2, t, {"count"})
      /\ t.count[b] = [s2.count[b] EXCEPT !.held = n]
      /\ \A d \in Blocks \ {b} : t.count[d] = s2.count[d]
  BY <1>2, <1>6, KeepsHeld DEF Kept, n
<1> HIDE DEF t
<1>9. Differ(s, t, {"arr", "total", "count"}) /\ t.arr = s1.arr
  BY <1>5, <1>6, <1>8 DEF Differ, SimFields
<1> QED
  BY <1>1, <1>3, <1>5, <1>6, <1>7, <1>8, <1>9, KeptTransitive DEF x, n

\* What is found at the head of a queue.
LEMMA KeepsQueueTop ==
    ASSUME NEW s, Good(s), NEW b \in Blocks
    PROVE  LET t == QueueTop(s, b)
           IN  /\ Kept(s, t) /\ Differ(s, t, {"arr"})
               /\ \A d \in Blocks \ {b} : t.arr[d] = s.arr[d]
               /\ t.arr[b] \in Seq(ValidSlots(t))
               /\ \A K \in SUBSET Live : Count(t.arr[b], K) = Count(s.arr[b], K)
               /\ t.arr[b] # <<>> =>
                     /\ Head(t.arr[b]) \in Live /\ Head(t.arr[b]).valid
                     /\ ValidRef(t, Head(t.arr[b]).ref)
<1> DEFINE left == DropInvalid(s.arr[b])
           t == [s EXCEPT !.arr[b] = left]
<1>1. s.arr[b] \in Seq(ValidSlots(s)) /\ ValidSlots(s) \in SUBSET Slots
  BY DEF Good, SlotsValid, ValidSlots
<1>2. /\ left \in Seq(ValidSlots(s))
      /\ \A K \in SUBSET Live : Count(left, K) = Count(s.arr[b], K)
      /\ left # <<>> => Head(left) \in ValidSlots(s) /\ Head(left).valid
  BY <1>1, DropInvalidFacts
<1> HIDE DEF left
<1>3. /\ Kept(s, t) /\ Differ(s, t, {"arr"}) /\ t.arr[b] = left
      /\ \A d \in Blocks \ {b} : t.arr[d] = s.arr[d]
  BY <1>2, KeepsArr
<1>4. QueueTop(s, b) = t
  BY DEF QueueTop, left
<1> HIDE DEF t
<1>5. ValidSlots(t) = ValidSlots(s) /\ \A ref : ValidRef(t, ref) <=> ValidRef(s, ref)
  BY <1>3, SameValid DEF Kept
<1> QED
  BY <1>2, <1>3, <1>4, <1>5 DEF ValidSlots, Live

\* Taking the head off a queue.
LEMMA KeepsQueueDelete ==
    ASSUME NEW s, Good(s), NEW b \in Blocks
    PROVE  LET t == QueueDelete(s, b)
               arr == s.arr[b]
               n == s.count[b].held
           IN  /\ Kept(s, t) /\ Differ(s, t, {"arr", "count"})
               /\ \A d \in Blocks \ {b} : t.arr[d] = s.arr[d] /\ t.count[d] = s.count[d]
               /\ arr # <<>> /\ Head(arr).valid =>
                     /\ t.arr[b] = Tail(arr)
                     /\ t.count[b] = [s.count[b] EXCEPT !.held = IF n > 0 THEN n - 1 ELSE n]
<1> DEFINE arr == s.arr[b]
           left == DropInvalid(arr)
           n == s.count[b].held
           m == IF n > 0 THEN n - 1 ELSE n
           s1 == [s EXCEPT !.arr[b] = left]
           s2 == [s EXCEPT !.arr[b] = Tail(left)]
           s3 == [s2 EXCEPT !.count[b].held = m]
<1>1. arr \in Seq(ValidSlots(s)) /\ ValidSlots(s) \in SUBSET Slots
  BY DEF Good, SlotsValid, ValidSlots
<1>2. /\ left \in Seq(ValidSlots(s))
      /\ arr # <<>> /\ Head(arr).valid => left = arr
  BY <1>1, DropInvalidFacts
<1>3. QueueDelete(s, b) = IF left = <<>> THEN s1 ELSE s3
  BY DEF QueueDelete
<1>4. m \in Nat /\ Fits(b, m) /\ n \in Nat
  <2>1. n \in Nat /\ Fits(b, n)
    BY SimTypes DEF Good, WithinCapacity
  <2>2. m \in Nat /\ m <= n
    BY <2>1
  <2> HIDE DEF m
  <2> QED
    BY <2>1, <2>2, FewerFit DEF Good
<1> HIDE DEF left, arr, n, m
<1>5. CASE left = <<>>
  <2>0. left \in Seq(ValidSlots(s))
    BY <1>2
  <2>1. /\ Kept(s, s1) /\ Differ(s, s1, {"arr"}) /\ s1.arr[b] = left
        /\ \A d \in Blocks \ {b} : s1.arr[d] = s.arr[d]
    <3>1. s1 = WithArr(s, b, left)
      BY DEF WithArr
    <3> HIDE DEF s1
    <3> QED
      BY <2>0, <3>1, KeepsWithArr
  <2> HIDE DEF s1
  <2>2. s1.count = s.count
    BY <2>1 DEF Differ, SimFields
  <2> QED
    BY <1>2, <1>3, <1>5, <2>1, <2>2 DEF Differ, arr
<1>6. CASE left # <<>>
  <2>1. Tail(left) \in Seq(ValidSlots(s))
    BY <1>2, <1>6
  <2>2. /\ Kept(s, s2) /\ Differ(s, s2, {"arr"}) /\ s2.arr[b] = Tail(left)
        /\ \A d \in Blocks \ {b} : s2.arr[d] = s.arr[d]
    <3> DEFINE y == Tail(left)
    <3>1. s2 = WithArr(s, b, y)
      BY DEF WithArr
    <3>2. y \in Seq(ValidSlots(s))
      BY <2>1
    <3> HIDE DEF s2, y
    <3>3. /\ Kept(s, s2) /\ Differ(s, s2, {"arr"}) /\ s2.arr[b] = y
          /\ \A d \in Blocks \ {b} : s2.arr[d] = s.arr[d]
      BY <3>1, <3>2, KeepsWithArr
    <3> QED
      BY <3>3 DEF y
  <2> HIDE DEF s2
  <2>3. s2.count = s.count
    BY <2>2 DEF Differ, SimFields
  <2>4. /\ Kept(s2, s3) /\ Differ(s2, s3, {"count"})
        /\ s3.count[b] = [s2.count[b] EXCEPT !.held = m]
        /\ \A d \in Blocks \ {b} : s3.count[d] = s2.count[d]
    BY <1>4, <2>2, KeepsHeld DEF Kept
  <2> HIDE DEF s3
  <2>5. Differ(s, s3, {"arr", "count"}) /\ s3.arr = s2.arr
    BY <2>2, <2>4 DEF Differ, SimFields
  <2>6. Kept(s, s3)
    BY <2>2, <2>4, KeptTransitive
  <2> QED
    BY <1>2, <1>3, <1>6, <2>2, <2>3, <2>4, <2>5, <2>6 DEF arr, n, m
<1> QED
  BY <1>5, <1>6

\* Giving up a place of a queue.
LEMMA KeepsQueueGet ==
    ASSUME NEW s, Good(s), NEW b \in Blocks, NEW pos \in DOMAIN s.arr[b]
    PROVE  LET t == QueueGet(s, b, pos)
               x == [s.arr[b][pos] EXCEPT !.valid = FALSE]
               n == s.count[b].held
           IN  /\ Kept(s, t) /\ Differ(s, t, {"arr", "count"})
               /\ x \in Slots \ Live /\ t.arr[b] = [s.arr[b] EXCEPT ![pos] = x]
               /\ \A d \in Blocks \ {b} : t.arr[d] = s.arr[d] /\ t.count[d] = s.count[d]
               /\ t.count[b] = [s.count[b] EXCEPT !.held = IF n > 0 THEN n - 1 ELSE n]
<1> DEFINE x == [s.arr[b][pos] EXCEPT !.valid = FALSE]
           n == s.count[b].held
           m == IF n > 0 THEN n - 1 ELSE n
           arr == [s.arr[b] EXCEPT ![pos] = x]
           s1 == [s EXCEPT !.arr[b] = arr]
           t == [s1 EXCEPT !.count[b].held = m]
<1>1. s.arr[b] \in Seq(ValidSlots(s)) /\ s.arr[b][pos] \in ValidSlots(s)
  BY DEF Good, SlotsValid
<1>2. x \in ValidSlots(s) /\ x \in Slots \ Live
  BY <1>1 DEF ValidSlots, ValidRef, Slots, Live
<1>3. QueueGet(s, b, pos) = t
  BY DEF QueueGet
<1>4. m \in Nat /\ Fits(b, m)
  <2>1. n \in Nat /\ Fits(b, n)
    BY SimTypes DEF Good, WithinCapacity
  <2>2. m \in Nat /\ m <= n
    BY <2>1
  <2> HIDE DEF m
  <2> QED
    BY <2>1, <2>2, FewerFit DEF Good
<1>5. arr \in Seq(ValidSlots(s))
  BY <1>1, <1>2
<1> HIDE DEF m, arr, x
<1>6. /\ Kept(s, s1) /\ Differ(s, s1, {"arr"}) /\ s1.arr[b] = arr
      /\ \A d \in Blocks \ {b} : s1.arr[d] = s.arr[d]
  BY <1>5, KeepsArr
<1> HIDE DEF s1
<1>7. s1.count = s.count
  BY <1>6 DEF Differ, SimFields
<1>8. /\ Kept(s1, t) /\ Differ(s1, t, {"count"})
      /\ t.count[b] = [s1.count[b] EXCEPT !.held = m]
      /\ \A d \in Blocks \ {b} : t.count[d] = s1.count[d]
  BY <1>4, <1>6, KeepsHeld DEF Kept
<1> HIDE DEF t
<1>9. Differ(s, t, {"arr", "count"}) /\ t.arr = s1.arr
  BY <1>6, <1>8 DEF Differ, SimFields
<1>10. Kept(s, t)
  BY <1>6, <1>8, KeptTransitive
<1> QED
  BY <1>2, <1>3, <1>6, <1>7, <1>8, <1>9, <1>10 DEF x, m, arr

\* Scheduling a handler.
LEMMA KeepsSchedule ==
    ASSUME NEW s, Good(s), NEW delay, NEW do, NEW b, NEW ref, NEW idx,
           [time |-> s.clock + delay, do |-> do, block |-> b, ref |-> ref, idx |-> idx]
              \in ValidEvents(s)
    PROVE  LET t == Schedule(s, delay, do, b, ref, idx)
               v == [time |-> s.clock + delay, do |-> do, block |-> b, ref |-> ref, idx |-> idx]
           IN  /\ Kept(s, t) /\ Differ(s, t, {"events"})
               /\ \A K : Count(t.events, K) = Count(s.events, K) + (IF v \in K THEN 1 ELSE 0)
<1> DEFINE v == [time |-> s.clock + delay, do |-> do, block |-> b, ref |-> ref, idx |-> idx]
           q == Push(s.events, v)
           t == [s EXCEPT !.events = q]
<1>1. Schedule(s, delay, do, b, ref, idx) = t
  BY DEF Schedule
<1>2. s.events \in Seq(ValidEvents(s)) /\ IsHeap(s.events) /\ v \in ValidEvents(s)
  BY DEF Good, EventsValid
<1>3. Timed(ValidEvents(s))
  BY DEF Timed, ValidEvents, Events
<1> HIDE DEF v
<1>4. /\ q \in Seq(ValidEvents(s)) /\ IsHeap(q)
      /\ \A K : Count(q, K) = Count(s.events, K) + (IF v \in K THEN 1 ELSE 0)
  BY <1>2, <1>3, PushFacts
<1> HIDE DEF q
<1>5. Kept(s, t) /\ Differ(s, t, {"events"}) /\ t.events = q
  BY <1>4, KeepsEvents
<1> QED
  BY <1>1, <1>4, <1>5 DEF v

\* Giving an entity back to its pool.
LEMMA KeepsFreeEntity ==
    ASSUME NEW s, Good(s), NEW ref, ValidRef(s, ref)
    PROVE  LET t == FreeEntity(s, ref)
           IN  /\ Kept(s, t) /\ Differ(s, t, {"pool"})
               /\ t.pool[ref.type].free = Append(s.pool[ref.type].free, ref.idx)
               /\ \A e \in EntityTypes \ {ref.type} : t.pool[e] = s.pool[e]
<1> DEFINE e == ref.type
           p == s.pool[e]
           x == Free(p, ref.idx, Defaults(e))
           t == [s EXCEPT !.pool[e] = x]
<1>1. FreeEntity(s, ref) = t
  BY DEF FreeEntity
<1>2. e \in EntityTypes /\ ref.idx \in Nat \ {0} /\ ref.idx \in DOMAIN p.entities
  BY DEF ValidRef, Refs
<1>3. p \in Pool /\ Linked /\ ToSet(p.free) \subseteq DOMAIN p.entities
  BY <1>2, SimTypes DEF Good, FreeValid
<1>4. Defaults(e) \in [FieldNames -> Int]
  BY <1>2, <1>3, DefaultsType
<1> HIDE DEF p, e
<1>5. /\ x \in Pool /\ DOMAIN x.entities = DOMAIN p.entities /\ x.free = Append(p.free, ref.idx)
  BY <1>2, <1>3, <1>4 DEF Free, Pool
<1>6. ToSet(x.free) \subseteq DOMAIN x.entities
  <2>1. p.free \in Seq(Nat \ {0})
    BY <1>3 DEF Pool
  <2>2. \A i \in DOMAIN Append(p.free, ref.idx) : Append(p.free, ref.idx)[i] \in DOMAIN p.entities
    BY <1>2, <1>3, <2>1 DEF ToSet
  <2> QED
    BY <1>5, <2>2 DEF ToSet
<1> HIDE DEF x
<1>7. /\ Kept(s, t) /\ Differ(s, t, {"pool"}) /\ t.pool[e] = x
      /\ \A d \in EntityTypes \ {e} : t.pool[d] = s.pool[d]
  <2>1. DOMAIN x.entities = DOMAIN s.pool[e].entities
    BY <1>5 DEF p
  <2>2. e \in EntityTypes /\ x \in Pool
    BY <1>2, <1>5
  <2> QED
    BY <1>6, <2>1, <2>2, KeepsPool
<1> QED
  BY <1>1, <1>5, <1>7 DEF p, e

\* Taking or giving back a unit of a resource.
LEMMA KeepsBusy ==
    ASSUME NEW s, Good(s), NEW r \in DOMAIN program.capacity, NEW n \in Nat,
           n <= program.capacity[r]
    PROVE  LET t == [s EXCEPT !.resource[r].busy = n]
           IN  /\ Kept(s, t) /\ Differ(s, t, {"resource"})
               /\ t.resource[r] = [s.resource[r] EXCEPT !.busy = n]
               /\ \A d \in DOMAIN program.capacity \ {r} : t.resource[d] = s.resource[d]
<1> DEFINE x == [s.resource[r] EXCEPT !.busy = n]
           t == [s EXCEPT !.resource[r] = x]
<1>1. [s EXCEPT !.resource[r].busy = n] = t
  OBVIOUS
<1>2. s.resource[r] \in Uses
  BY SimTypes DEF Good
<1>3. x \in Uses /\ x.busy = n
  BY <1>2 DEF Uses
<1> HIDE DEF x
<1>4. x.busy <= program.capacity[r]
  BY <1>3
<1>5. /\ Kept(s, t) /\ Differ(s, t, {"resource"}) /\ t.resource[r] = x
      /\ \A d \in DOMAIN program.capacity \ {r} : t.resource[d] = s.resource[d]
  BY <1>3, <1>4, KeepsResource
<1> HIDE DEF t
<1> QED
  BY <1>1, <1>5 DEF x, t

\* Counting a unit that was taken, or one that was given back.
LEMMA KeepsUseCounted ==
    ASSUME NEW s, Good(s), NEW r \in DOMAIN program.capacity
    PROVE  LET seized == [s EXCEPT !.resource[r].seizeN = @ + 1]
               released == [s EXCEPT !.resource[r].releaseN = @ + 1]
               u == s.resource[r]
           IN  /\ Kept(s, seized) /\ Differ(s, seized, {"resource"})
               /\ seized.resource[r] = [u EXCEPT !.seizeN = u.seizeN + 1]
               /\ Kept(s, released) /\ Differ(s, released, {"resource"})
               /\ released.resource[r] = [u EXCEPT !.releaseN = u.releaseN + 1]
               /\ \A d \in DOMAIN program.capacity \ {r} :
                     seized.resource[d] = s.resource[d] /\ released.resource[d] = s.resource[d]
<1> DEFINE u == s.resource[r]
           x == [u EXCEPT !.seizeN = u.seizeN + 1]
           y == [u EXCEPT !.releaseN = u.releaseN + 1]
           seized == [s EXCEPT !.resource[r] = x]
           released == [s EXCEPT !.resource[r] = y]
<1>1. /\ [s EXCEPT !.resource[r].seizeN = @ + 1] = seized
      /\ [s EXCEPT !.resource[r].releaseN = @ + 1] = released
  OBVIOUS
<1>2. u \in Uses /\ u.busy <= program.capacity[r]
  BY SimTypes DEF Good, WithinCapacity
<1>3. x \in Uses /\ x.busy = u.busy /\ y \in Uses /\ y.busy = u.busy
  BY <1>2 DEF Uses
<1> HIDE DEF x, y, u
<1>4. x.busy <= program.capacity[r] /\ y.busy <= program.capacity[r]
  BY <1>2, <1>3
<1>5. /\ Kept(s, seized) /\ Differ(s, seized, {"resource"}) /\ seized.resource[r] = x
      /\ \A d \in DOMAIN program.capacity \ {r} : seized.resource[d] = s.resource[d]
  BY <1>3, <1>4, KeepsResource
<1>6. /\ Kept(s, released) /\ Differ(s, released, {"resource"}) /\ released.resource[r] = y
      /\ \A d \in DOMAIN program.capacity \ {r} : released.resource[d] = s.resource[d]
  BY <1>3, <1>4, KeepsResource
<1> HIDE DEF seized, released
<1> QED
  BY <1>1, <1>5, <1>6 DEF x, y, u

\* t differs from s in the values of variables and fields only.
NewValues(s, t) ==
    /\ Kept(s, t)
    /\ Differ(s, t, {"vars", "pool"})
    /\ \A e \in EntityTypes : t.pool[e].free = s.pool[e].free

\* Other values for the fields of one entity.
LEMMA KeepsFields ==
    ASSUME NEW s, Good(s), NEW e \in EntityTypes, NEW i \in DOMAIN s.pool[e].entities,
           NEW v \in [FieldNames -> Int]
    PROVE  NewValues(s, [s EXCEPT !.pool[e].entities[i] = v])
<1> DEFINE p == s.pool[e]
           y == [p.entities EXCEPT ![i] = v]
           x == [p EXCEPT !.entities = y]
           t == [s EXCEPT !.pool[e] = x]
<1>1. [s EXCEPT !.pool[e].entities[i] = v] = t
  OBVIOUS
<1>2. p \in Pool /\ ToSet(p.free) \subseteq DOMAIN p.entities
  BY SimTypes DEF Good, FreeValid
<1>3. x \in Pool /\ DOMAIN x.entities = DOMAIN p.entities /\ x.free = p.free
  <2>1. p.entities \in Seq([FieldNames -> Int]) /\ p.free \in Seq(Nat \ {0})
    BY <1>2 DEF Pool
  <2>2. y \in Seq([FieldNames -> Int]) /\ DOMAIN y = DOMAIN p.entities
    BY <2>1
  <2> HIDE DEF y
  <2> QED
    BY <1>2, <2>1, <2>2 DEF Pool
<1> HIDE DEF x
<1>4. ToSet(x.free) \subseteq DOMAIN x.entities
  BY <1>2, <1>3
<1>5. /\ Kept(s, t) /\ Differ(s, t, {"pool"}) /\ t.pool[e] = x
      /\ \A d \in EntityTypes \ {e} : t.pool[d] = s.pool[d]
  BY <1>3, <1>4, KeepsPool
<1> HIDE DEF t
<1> QED
  BY <1>1, <1>3, <1>5 DEF NewValues, Differ

\* Other values for the variables.
LEMMA KeepsVariables ==
    ASSUME NEW s, Good(s), NEW v \in [DOMAIN program.vars -> Int]
    PROVE  NewValues(s, [s EXCEPT !.vars = v])
<1> DEFINE t == [s EXCEPT !.vars = v]
<1>1. Kept(s, t) /\ Differ(s, t, {"vars"})
  BY KeepsVars
<1> HIDE DEF t
<1>2. t.pool = s.pool
  BY <1>1 DEF Differ, SimFields
<1> QED
  BY <1>1, <1>2 DEF NewValues, Differ, t

\* Two writes of variables, one after the other, only write variables.
LEMMA NewValuesTransitive ==
    ASSUME NEW s, NEW t, NEW u, NewValues(s, t), NewValues(t, u)
    PROVE  NewValues(s, u)
  BY KeptTransitive DEF NewValues, Differ

Assignment == [entity : STRING, name : STRING, op : {"const", "add"}, expr : Expr]

\* One assignment.
LEMMA KeepsAssigned ==
    ASSUME NEW s, Good(s), NEW a \in Assignment, NEW ref, ValidRef(s, ref),
           NEW u \in Assigned(s, a, ref)
    PROVE  NewValues(s, u)
<1> DEFINE new(old) == {IF a.op = "const" THEN n ELSE old + n : n \in a.expr.draws}
<1>1. s \in Sims /\ \A old \in Int : new(old) \subseteq Int
  <2>1. a.expr.draws \subseteq Int
    BY DEF Assignment, Expr
  <2> QED
    BY <2>1 DEF Good
<1> HIDE DEF new
<1>2. CASE Applies(a, ref) /\ a.entity = AnyEntity
  <2>1. s.vars \in [DOMAIN program.vars -> Int]
    BY <1>1, SimTypes
  <2>2. PICK n \in new(s.vars[a.name]) : u = [s EXCEPT !.vars[a.name] = n]
    BY <1>2 DEF Assigned, new
  <2> DEFINE v == [s.vars EXCEPT ![a.name] = n]
  <2>3. v \in [DOMAIN program.vars -> Int]
    BY <1>1, <2>1, <2>2
  <2>4. u = [s EXCEPT !.vars = v]
    BY <2>2
  <2> HIDE DEF v
  <2> QED
    BY <2>3, <2>4, KeepsVariables
<1>3. CASE Applies(a, ref) /\ a.entity # AnyEntity
  <2> DEFINE e == ref.type
             f == s.pool[e].entities[ref.idx]
  <2>1. e \in EntityTypes /\ ref.idx \in DOMAIN s.pool[e].entities
    BY DEF ValidRef, Refs
  <2>2. f \in [FieldNames -> Int]
    BY <1>1, <2>1, SimTypes DEF Pool
  <2>3. PICK n \in new(f[a.name]) : u = [s EXCEPT !.pool[e].entities[ref.idx][a.name] = n]
    BY <1>3 DEF Assigned, new
  <2> DEFINE v == [f EXCEPT ![a.name] = n]
  <2>4. u = [s EXCEPT !.pool[e].entities[ref.idx] = v]
    BY <2>3
  <2> HIDE DEF f
  <2>5. v \in [FieldNames -> Int]
    BY <1>1, <2>2, <2>3
  <2> HIDE DEF v
  <2> QED
    BY <2>1, <2>4, <2>5, KeepsFields
<1>4. CASE ~Applies(a, ref)
  <2>1. u = s
    BY <1>4 DEF Assigned
  <2> QED
    BY <2>1, KeptReflexive DEF NewValues, Differ
<1> QED
  BY <1>2, <1>3, <1>4

\* A loop whose rounds stay in a set.
LEMMA LoopStays ==
    ASSUME NEW A, NEW n \in Nat, NEW f, f[0] \in A,
           \A i \in 1..n : f[i - 1] \in A => f[i] \in A
    PROVE  \A i \in 0..n : f[i] \in A
<1> DEFINE G == {k \in Nat : k <= n => f[k] \in A}
<1>1. 0 \in G
  OBVIOUS
<1>2. ASSUME NEW k \in Nat, k \in G PROVE k + 1 \in G
  <2> SUFFICES ASSUME k + 1 <= n PROVE f[k + 1] \in A
    OBVIOUS
  <2>1. f[k] \in A /\ k + 1 \in 1..n /\ (k + 1) - 1 = k
    BY <1>2
  <2> QED
    BY <2>1
<1> HIDE DEF G
<1>3. \A k \in Nat : k \in G
  BY <1>1, <1>2, NumbersInduct
<1> QED
  BY <1>3 DEF G

\* All assignments of a block.
LEMMA KeepsAllAssigned ==
    ASSUME NEW s, Good(s), NEW b \in Blocks, Kind(b) = "ASSIGN", NEW ref, ValidRef(s, ref)
    PROVE  \A u \in AllAssigned(s, b, ref) : NewValues(s, u)
<1> DEFINE n == Len(P(b).assignments)
           A == SUBSET {t \in Sims : NewValues(s, t)}
           start == {s}
           body(i, T) == UNION {Assigned(t, P(b).assignments[i], ref) : t \in T}
           step == [c \in (1..n) \X A |-> body(c[1], c[2])]
           Loops(f) == f = [i \in 0..n |-> IF i = 0 THEN start ELSE body(i, f[i - 1])]
           g == CHOOSE f : Loops(f)
<1>0. AllAssigned(s, b, ref) = g[n]
  BY DEF AllAssigned
<1>1. /\ n \in Nat /\ \A i \in 1..n : P(b).assignments[i] \in Assignment
  <2>1. P(b).assignments \in Seq(Assignment)
    BY AssignParts DEF Good, Assignment
  <2> QED
    BY <2>1
<1>2. start \in A
  BY KeptReflexive DEF NewValues, Differ, Good
<1>3. ASSUME NEW i \in 1..n, NEW T \in A PROVE body(i, T) \in A
  <2> SUFFICES ASSUME NEW t \in T, NEW u \in Assigned(t, P(b).assignments[i], ref)
               PROVE  u \in Sims /\ NewValues(s, u)
    OBVIOUS
  <2>1. Good(t) /\ NewValues(s, t) /\ ValidRef(t, ref)
    BY SameValid DEF NewValues, Kept
  <2>2. NewValues(t, u)
    BY <1>1, <2>1, KeepsAssigned
  <2>3. NewValues(s, u) /\ Good(u)
    BY <2>1, <2>2, NewValuesTransitive DEF NewValues, Kept
  <2> QED
    BY <2>3 DEF Good
<1> HIDE DEF A, body, start
<1>4. step \in [(1..n) \X A -> A]
  BY <1>3
<1>5. PICK f \in [0..n -> A] : IsLoop(f, n, start, step)
  BY <1>1, <1>2, <1>4, LoopExists
<1>6. Loops(f)
  <2>1. \A i \in 1..n : i - 1 \in 0..n /\ f[i - 1] \in A
    <3>1. \A i \in 1..n : i - 1 \in 0..n
      BY <1>1
    <3>2. \A i \in 0..n : f[i] \in A
      BY <1>5
    <3> QED
      BY <3>1, <3>2, Zenon
  <2>2. \A i \in 1..n : f[i] = body(i, f[i - 1])
    BY <1>5, <2>1 DEF IsLoop
  <2>3. f[0] = start
    BY <1>5 DEF IsLoop
  <2> QED
    BY <1>1, <1>5, <2>2, <2>3
<1>7. Loops(g)
  BY <1>6
<1> HIDE DEF g, n
<1>8. g[0] = start /\ \A i \in 1..n : g[i] = body(i, g[i - 1])
  <2>1. g = [i \in 0..n |-> IF i = 0 THEN start ELSE body(i, g[i - 1])]
    BY <1>7
  <2>2. 0 \in 0..n /\ \A i \in 1..n : i \in 0..n /\ i # 0
    BY <1>1
  <2>3. g[0] = start
    BY <2>1, <2>2
  <2>4. ASSUME NEW i \in 1..n PROVE g[i] = body(i, g[i - 1])
    BY <2>1, <2>2
  <2> QED
    BY <2>3, <2>4
<1>9. \A i \in 0..n : g[i] \in A
  BY <1>1, <1>2, <1>3, <1>8, LoopStays
<1>10. g[n] \in A
  BY <1>1, <1>9
<1> QED
  BY <1>0, <1>10 DEF A

\* An element of a sequence.
LEMMA ElementTyped ==
    ASSUME NEW S, NEW q \in Seq(S), NEW k \in DOMAIN q
    PROVE  q[k] \in S
  OBVIOUS

\* The assignments taken back.
LEMMA KeepsRestored ==
    ASSUME NEW s, Good(s), NEW b, NEW ref, ValidRef(s, ref), NEW old, Good(old), Same(old, s)
    PROVE  NewValues(s, Restored(s, b, ref, old))
<1> DEFINE back(now, was, names) == [n \in DOMAIN now |-> IF n \in names THEN was[n] ELSE now[n]]
           v == back(s.vars, old.vars, Targets(b, AnyEntity, ref))
           e == ref.type
           w == back(s.pool[e].entities[ref.idx], old.pool[e].entities[ref.idx], Targets(b, e, ref))
           s1 == [s EXCEPT !.vars = v]
           t == [s1 EXCEPT !.pool[e].entities[ref.idx] = w]
<1>1. /\ s \in Sims /\ old \in Sims
      /\ e \in EntityTypes /\ ref.idx \in DOMAIN s.pool[e].entities
      /\ ref.idx \in DOMAIN old.pool[e].entities
  BY DEF Good, ValidRef, Refs, Same
<1>2. s.vars \in [DOMAIN program.vars -> Int] /\ old.vars \in [DOMAIN program.vars -> Int]
  BY <1>1, SimTypes
<1>3. v \in [DOMAIN program.vars -> Int]
  BY <1>2
<1>4. s.pool[e].entities[ref.idx] \in [FieldNames -> Int] /\ old.pool[e].entities[ref.idx] \in [FieldNames -> Int]
  <2>1. s.pool[e] \in Pool /\ old.pool[e] \in Pool
    BY <1>1, SimTypes
  <2>2. ASSUME NEW p \in Pool, NEW k \in DOMAIN p.entities PROVE p.entities[k] \in [FieldNames -> Int]
    <3>1. p.entities \in Seq([FieldNames -> Int])
      BY DEF Pool
    <3> QED
      BY <3>1, ElementTyped
  <2> HIDE DEF e
  <2> QED
    BY <1>1, <2>1, <2>2
<1>5. w \in [FieldNames -> Int]
  BY <1>4
<1>6. Restored(s, b, ref, old) = t
  BY DEF Restored
<1> HIDE DEF v, w
<1>7. NewValues(s, s1)
  BY <1>3, KeepsVariables
<1> HIDE DEF s1
<1>8. Good(s1) /\ ref.idx \in DOMAIN s1.pool[e].entities
  BY <1>1, <1>7 DEF NewValues, Kept, Same
<1>9. NewValues(s1, t)
  BY <1>1, <1>5, <1>8, KeepsFields
<1> QED
  BY <1>6, <1>7, <1>9, NewValuesTransitive

------------------------------------------------------------------------------
(* The block functions keep the invariant, if the functions they call do.  *)

Reply == [ok : BOOLEAN, s : Sims]

\* Every function answers a call with what keeps the invariant.
Answers(call) ==
    \A s, ref : \A b \in Blocks :
        Good(s) /\ ValidRef(s, ref) =>
            \A r \in call[<<s, b, ref>>] : r \in Reply /\ Kept(s, r.s)

\* Counting an entity twice.
LEMMA KeepsTwoCounted ==
    ASSUME NEW s, Good(s), NEW b \in Blocks, NEW c \in Tallies,
           NEW d \in Tallies, c # d
    PROVE  LET t == Counted(Counted(s, b, c), b, d)
           IN  /\ Kept(s, t) /\ Differ(s, t, {"count"})
               /\ \A e \in Blocks \ {b} : t.count[e] = s.count[e]
               /\ t.count[b] = [s.count[b] EXCEPT ![c] = s.count[b][c] + 1, ![d] = s.count[b][d] + 1]
               /\ \A e \in Blocks : t.count[e].held = s.count[e].held
<1> DEFINE u == Counted(s, b, c)
           t == Counted(u, b, d)
<1>1. /\ Kept(s, u) /\ Differ(s, u, {"count"}) /\ \A e \in Blocks \ {b} : u.count[e] = s.count[e]
      /\ u.count[b] = OneMore(s.count[b], c)
      /\ \A e \in Blocks : u.count[e].held = s.count[e].held
  BY KeepsCounted
<1> HIDE DEF u
<1>2. /\ Kept(u, t) /\ Differ(u, t, {"count"}) /\ \A e \in Blocks \ {b} : t.count[e] = u.count[e]
      /\ t.count[b] = OneMore(u.count[b], d)
      /\ \A e \in Blocks : t.count[e].held = u.count[e].held
  <2>1. Good(u)
    BY <1>1 DEF Kept
  <2> QED
    BY <2>1, KeepsCounted
<1> HIDE DEF t
<1>3. s.count[b] \in [CounterNames -> Nat]
  BY SimTypes DEF Good
<1>4. u.count[b][d] = s.count[b][d]
  BY <1>1, <1>3 DEF OneMore
<1>5. t.count[b] = [s.count[b] EXCEPT ![c] = s.count[b][c] + 1, ![d] = s.count[b][d] + 1]
  BY <1>1, <1>2, <1>3, <1>4 DEF OneMore
<1>6. Differ(s, t, {"count"})
  BY <1>1, <1>2 DEF Differ
<1> QED
  BY <1>1, <1>2, <1>5, <1>6, KeptTransitive DEF t, u

\* An entity passes a block.
LEMMA KeepsPassed ==
    ASSUME NEW s, Good(s), NEW b \in Blocks
    PROVE  LET t == Passed(s, b)
           IN  /\ Kept(s, t) /\ Differ(s, t, {"count"})
               /\ \A e \in Blocks \ {b} : t.count[e] = s.count[e]
               /\ t.count[b] = [s.count[b] EXCEPT !["enterN"] = s.count[b]["enterN"] + 1,
                                                  !["exitN"] = s.count[b]["exitN"] + 1]
               /\ \A e \in Blocks : t.count[e].held = s.count[e].held
<1>1. "enterN" \in Tallies /\ "exitN" \in Tallies /\ "enterN" # "exitN"
  BY DEF CounterNames, Tallies
<1> QED
  BY <1>1, KeepsTwoCounted DEF Passed

\* An entity a full queue turns away.
LEMMA KeepsTurnedAway ==
    ASSUME NEW s, Good(s), NEW b \in Blocks
    PROVE  LET t == TurnedAway(s, b)
           IN  /\ Kept(s, t) /\ Differ(s, t, {"count"})
               /\ \A e \in Blocks \ {b} : t.count[e] = s.count[e]
               /\ t.count[b] = [s.count[b] EXCEPT !["enterN"] = s.count[b]["enterN"] + 1,
                                                  !["dropN"] = s.count[b]["dropN"] + 1]
               /\ \A e \in Blocks : t.count[e].held = s.count[e].held
<1>1. "enterN" \in Tallies /\ "dropN" \in Tallies /\ "enterN" # "dropN"
  BY DEF CounterNames, Tallies
<1> QED
  BY <1>1, KeepsTwoCounted DEF TurnedAway

\* What try_advance may come to.
LEMMA TryAdvanceShape ==
    ASSUME NEW call, Answers(call), NEW s, Good(s), NEW b \in Blocks, Kind(b) = "QUEUE",
           NEW r \in TryAdvance(call, s, b)
    PROVE  LET top == QueueTop(s, b)
           IN  \/ r = [ok |-> FALSE, s |-> top]
               \/ /\ top.count[b].held # 0 /\ top.arr[b] # <<>>
                  /\ \E o \in call[<<top, P(b).next, Head(top.arr[b]).ref>>] :
                        /\ o \in Reply /\ Kept(top, o.s)
                        /\ r = IF o.ok THEN [ok |-> TRUE, s |-> Counted(QueueDelete(o.s, b), b, "exitN")]
                               ELSE o
<1> DEFINE top == QueueTop(s, b)
           ref == Head(top.arr[b]).ref
           done(o) == IF o.ok THEN [o EXCEPT !.s = Counted(QueueDelete(o.s, b), b, "exitN")] ELSE o
<1>1. CASE top.count[b].held = 0 \/ top.arr[b] = <<>>
  BY <1>1 DEF TryAdvance, Returns
<1>2. CASE ~(top.count[b].held = 0 \/ top.arr[b] = <<>>)
  <2>1. PICK o \in call[<<top, P(b).next, ref>>] : r = done(o)
    BY <1>2 DEF TryAdvance
  <2>2. Good(top) /\ ValidRef(top, ref) /\ P(b).next \in Blocks
    BY <1>2, KeepsQueueTop, QueueParts DEF Kept, Good
  <2> HIDE DEF top, ref
  <2>3. o \in Reply /\ Kept(top, o.s)
    BY <2>1, <2>2 DEF Answers
  <2>4. o.ok => done(o) = [ok |-> TRUE, s |-> Counted(QueueDelete(o.s, b), b, "exitN")]
    BY <2>3 DEF Reply
  <2> HIDE DEF done
  <2>5. o.ok \in BOOLEAN /\ (~o.ok => done(o) = o)
    BY <2>3 DEF Reply, done
  <2>6. r = IF o.ok THEN [ok |-> TRUE, s |-> Counted(QueueDelete(o.s, b), b, "exitN")] ELSE o
    BY <2>1, <2>4, <2>5
  <2> QED
    BY <1>2, <2>1, <2>3, <2>6 DEF ref, top
<1> QED
  BY <1>1, <1>2

\* try_advance.
LEMMA TryAdvanceKeeps ==
    ASSUME NEW call, Answers(call), NEW s, Good(s), NEW b \in Blocks, Kind(b) = "QUEUE",
           NEW r \in TryAdvance(call, s, b)
    PROVE  r \in Reply /\ Kept(s, r.s)
<1> DEFINE top == QueueTop(s, b)
<1>0. \/ r = [ok |-> FALSE, s |-> top]
      \/ \E o \in Reply :
            /\ Kept(top, o.s)
            /\ r = IF o.ok THEN [ok |-> TRUE, s |-> Counted(QueueDelete(o.s, b), b, "exitN")] ELSE o
  <2> HIDE DEF top
  <2>1. \/ r = [ok |-> FALSE, s |-> top]
        \/ /\ top.count[b].held # 0 /\ top.arr[b] # <<>>
           /\ \E o \in call[<<top, P(b).next, Head(top.arr[b]).ref>>] :
                 /\ o \in Reply /\ Kept(top, o.s)
                 /\ r = IF o.ok THEN [ok |-> TRUE, s |-> Counted(QueueDelete(o.s, b), b, "exitN")]
                        ELSE o
    BY TryAdvanceShape DEF top
  <2> QED
    BY <2>1
<1>1. Kept(s, top) /\ Good(top)
  BY KeepsQueueTop DEF Kept
<1> HIDE DEF top
<1>2. CASE r = [ok |-> FALSE, s |-> top]
  BY <1>1, <1>2 DEF Reply, Kept, Good
<1>3. ASSUME NEW o \in Reply, Kept(top, o.s),
             r = IF o.ok THEN [ok |-> TRUE, s |-> Counted(QueueDelete(o.s, b), b, "exitN")] ELSE o
      PROVE  r \in Reply /\ Kept(s, r.s)
  <2>1. Kept(s, o.s) /\ Good(o.s) /\ o.ok \in BOOLEAN
    BY <1>1, <1>3, KeptTransitive DEF Kept, Reply
  <2>2. Kept(o.s, QueueDelete(o.s, b)) /\ Good(QueueDelete(o.s, b))
    BY <2>1, KeepsQueueDelete DEF Kept
  <2>3. Kept(QueueDelete(o.s, b), Counted(QueueDelete(o.s, b), b, "exitN"))
    <3>1. "exitN" \in Tallies
      BY DEF CounterNames, Tallies
    <3> QED
      BY <2>2, <3>1, KeepsCounted
  <2>4. /\ Kept(s, Counted(QueueDelete(o.s, b), b, "exitN"))
        /\ Counted(QueueDelete(o.s, b), b, "exitN") \in Sims
    BY <2>1, <2>2, <2>3, KeptTransitive DEF Kept, Good
  <2> QED
    BY <1>3, <2>1, <2>4 DEF Reply
<1> QED
  BY <1>0, <1>2, <1>3

\* Waking queues comes to what try_advance of one of them comes to, again and again.
LEMMA WakeFirstWithin ==
    ASSUME NEW call, NEW R, NEW results \in SUBSET R, NEW Q, NEW queues \in Seq(Q),
           \A r \in R : ~r.ok => \A q \in Q : TryAdvance(call, r.s, q) \subseteq R
    PROVE  WakeFirst(call, results, queues) \subseteq R
<1> DEFINE n == Len(queues)
           A == SUBSET R
           body(i, S) == UNION {IF r.ok THEN {r} ELSE TryAdvance(call, r.s, queues[i]) : r \in S}
           step == [c \in (1..n) \X A |-> body(c[1], c[2])]
           Loops(f) == f = [i \in 0..n |-> IF i = 0 THEN results ELSE body(i, f[i - 1])]
           g == CHOOSE f : Loops(f)
<1>0. WakeFirst(call, results, queues) = g[n]
  BY DEF WakeFirst
<1>1. n \in Nat /\ \A i \in 1..n : queues[i] \in Q
  OBVIOUS
<1>2. results \in A
  OBVIOUS
<1>3. ASSUME NEW i \in 1..n, NEW S \in A PROVE body(i, S) \in A
  <2>1. \A r \in S : (IF r.ok THEN {r} ELSE TryAdvance(call, r.s, queues[i])) \subseteq R
    BY <1>1
  <2> QED
    BY <2>1
<1> HIDE DEF A, body
<1>4. step \in [(1..n) \X A -> A]
  BY <1>3
<1>5. PICK f \in [0..n -> A] : IsLoop(f, n, results, step)
  BY <1>1, <1>2, <1>4, LoopExists
<1>6. Loops(f)
  <2>1. \A i \in 1..n : i - 1 \in 0..n /\ f[i - 1] \in A
    <3>1. \A i \in 1..n : i - 1 \in 0..n
      BY <1>1
    <3>2. \A i \in 0..n : f[i] \in A
      BY <1>5
    <3> QED
      BY <3>1, <3>2, Zenon
  <2>2. \A i \in 1..n : f[i] = body(i, f[i - 1])
    BY <1>5, <2>1 DEF IsLoop
  <2>3. f[0] = results
    BY <1>5 DEF IsLoop
  <2> QED
    BY <1>1, <1>5, <2>2, <2>3
<1>7. Loops(g)
  BY <1>6
<1> HIDE DEF g, n
<1>8. g[0] = results /\ \A i \in 1..n : g[i] = body(i, g[i - 1])
  <2>1. g = [i \in 0..n |-> IF i = 0 THEN results ELSE body(i, g[i - 1])]
    BY <1>7
  <2>2. 0 \in 0..n /\ \A i \in 1..n : i \in 0..n /\ i # 0
    BY <1>1
  <2>3. g[0] = results
    BY <2>1, <2>2
  <2>4. ASSUME NEW i \in 1..n PROVE g[i] = body(i, g[i - 1])
    BY <2>1, <2>2
  <2> QED
    BY <2>3, <2>4
<1>9. \A i \in 0..n : g[i] \in A
  BY <1>1, <1>2, <1>3, <1>8, LoopStays
<1>10. g[n] \in A
  BY <1>1, <1>9
<1> QED
  BY <1>0, <1>10 DEF A

\* The globals in which an entity has joined a queue.
Joined(s, b, ref) ==
    LET pushed == QueuePush(Counted(s, b, "enterN"), b, ref)
    IN  IF P(b).hasTimeout
        THEN {Schedule(pushed, t, "timeout", b, NullRef, Counted(s, b, "enterN").total[b]) :
                 t \in P(b).timeout.draws}
        ELSE {pushed}

\* What the function of a QUEUE block may come to.
LEMMA QueueShape ==
    ASSUME NEW call, NEW s, NEW b \in Blocks, Linked, Kind(b) = "QUEUE", NEW ref,
           NEW r \in EnterQueue(call, s, b, ref)
    PROVE  \/ P(b).exitOnOverflow /\ r \in call[<<TurnedAway(s, b), P(b).nextOverflow, ref>>]
           \/ r = [ok |-> FALSE, s |-> s]
           \/ r = [ok |-> FALSE, s |-> Stopped(Counted(s, b, "enterN"), "type")]
           \/ MayHaveRoom(s, b)
                 /\ \E u \in Joined(s, b, ref) : \E w \in TryAdvance(call, u, b) : r = [ok |-> TRUE, s |-> w.s]
<1> DEFINE entered == Counted(s, b, "enterN")
           pushed == QueuePush(entered, b, ref)
<1>0. r \in Overflow(call, s, b, ref) \/ (MayHaveRoom(s, b) /\ r \in JoinQueue(call, s, b, ref))
  <2> DEFINE away == IF MayBeFull(s, b) THEN Overflow(call, s, b, ref) ELSE {}
             in == IF MayHaveRoom(s, b) THEN JoinQueue(call, s, b, ref) ELSE {}
  <2>1. EnterQueue(call, s, b, ref) = away \cup in
    BY DEF EnterQueue
  <2>2. r \in away => r \in Overflow(call, s, b, ref)
    OBVIOUS
  <2>3. r \in in => MayHaveRoom(s, b) /\ r \in JoinQueue(call, s, b, ref)
    OBVIOUS
  <2> HIDE DEF away, in
  <2> QED
    BY <2>1, <2>2, <2>3
<1>1. CASE r \in Overflow(call, s, b, ref)
  BY <1>1 DEF Overflow, Returns
<1> DEFINE joins == MayHaveRoom(s, b) /\ r \in JoinQueue(call, s, b, ref)
<1>2. CASE joins /\ ~P(b).hasTimeout
  BY <1>2 DEF JoinQueue, QueueTakes, Joined
<1>3. CASE joins /\ P(b).hasTimeout /\ ~Reads(P(b).timeout, ref)
  BY <1>3 DEF JoinQueue, Returns
<1>4. CASE joins /\ P(b).hasTimeout /\ Reads(P(b).timeout, ref)
  <2>1. PICK t \in P(b).timeout.draws :
           r \in QueueTakes(call, Schedule(pushed, t, "timeout", b, NullRef, entered.total[b]), b)
    BY <1>4 DEF JoinQueue
  <2> DEFINE u == Schedule(pushed, t, "timeout", b, NullRef, entered.total[b])
  <2>2. u \in Joined(s, b, ref)
    BY <1>4 DEF Joined
  <2>3. \E w \in TryAdvance(call, u, b) : r = [ok |-> TRUE, s |-> w.s]
    BY <2>1 DEF QueueTakes
  <2> HIDE DEF u
  <2> QED
    BY <1>4, <2>2, <2>3
<1> QED
  BY <1>0, <1>1, <1>2, <1>3, <1>4

\* An entity joins a queue that has room.
LEMMA KeepsJoined ==
    ASSUME NEW s, Good(s), NEW b \in Blocks, Kind(b) = "QUEUE", MayHaveRoom(s, b),
           NEW ref, ValidRef(s, ref), NEW u \in Joined(s, b, ref)
    PROVE  Kept(s, u)
<1> DEFINE entered == Counted(s, b, "enterN")
           pushed == QueuePush(entered, b, ref)
<1>1. "enterN" \in Tallies
  BY DEF CounterNames, Tallies
<1>2. Kept(s, entered) /\ \A d \in Blocks : entered.count[d].held = s.count[d].held
  BY <1>1, KeepsCounted
<1>3. Good(entered) /\ ValidRef(entered, ref)
  BY <1>2, SameValid DEF Kept
<1>4. Fits(b, entered.count[b].held + 1)
  BY <1>2, RoomFits
<1>5. entered.total[b] \in Nat
  BY <1>3, SimTypes DEF Good
<1> HIDE DEF entered
<1>6. Kept(entered, pushed)
  BY <1>3, <1>4, KeepsQueuePush
<1>7. Kept(s, pushed) /\ Good(pushed)
  BY <1>2, <1>6, KeptTransitive DEF Kept
<1> HIDE DEF pushed
<1>8. CASE ~P(b).hasTimeout
  <2>1. u = pushed
    BY <1>8 DEF Joined, pushed, entered
  <2> QED
    BY <1>7, <2>1
<1>9. CASE P(b).hasTimeout
  <2>1. PICK t \in P(b).timeout.draws :
           u = Schedule(pushed, t, "timeout", b, NullRef, entered.total[b])
    BY <1>9 DEF Joined, pushed, entered
  <2>2. t \in Int /\ (Forward => t >= 0)
    BY QueueParts DEF Good, Forward
  <2>3. pushed.clock \in Int
    BY <1>7, SimTypes DEF Good
  <2>4. b \in {q \in OfKind("QUEUE") : P(q).hasTimeout}
    BY <1>9 DEF OfKind
  <2>5. [time |-> pushed.clock + t, do |-> "timeout", block |-> b, ref |-> NullRef,
         idx |-> entered.total[b]] \in ValidEvents(pushed)
    BY <1>5, <2>2, <2>3, <2>4 DEF ValidEvents, Events
  <2>6. Kept(pushed, u)
    BY <1>7, <2>1, <2>5, KeepsSchedule
  <2> QED
    BY <1>7, <2>6, KeptTransitive
<1> QED
  BY <1>8, <1>9

\* QUEUE.
LEMMA QueueKeeps ==
    ASSUME NEW call, Answers(call), NEW s, Good(s), NEW b \in Blocks, Kind(b) = "QUEUE",
           NEW ref, ValidRef(s, ref), NEW r \in EnterQueue(call, s, b, ref)
    PROVE  r \in Reply /\ Kept(s, r.s)
<1>0. s \in Sims /\ Linked
  BY DEF Good
<1>1. CASE P(b).exitOnOverflow /\ r \in call[<<TurnedAway(s, b), P(b).nextOverflow, ref>>]
  <2> DEFINE u == TurnedAway(s, b)
  <2>1. Kept(s, u) /\ Good(u) /\ ValidRef(u, ref)
    BY KeepsTurnedAway, SameValid DEF Kept
  <2>2. P(b).nextOverflow \in Blocks
    BY <1>0, <1>1, QueueParts
  <2> HIDE DEF u
  <2>3. r \in Reply /\ Kept(u, r.s)
    BY <1>1, <2>1, <2>2 DEF Answers, u
  <2> QED
    BY <2>1, <2>3, KeptTransitive
<1>2. CASE r = [ok |-> FALSE, s |-> s]
  BY <1>0, <1>2, KeptReflexive DEF Reply
<1>3. CASE r = [ok |-> FALSE, s |-> Stopped(Counted(s, b, "enterN"), "type")]
  <2> DEFINE u == Counted(s, b, "enterN")
  <2>1. "enterN" \in Tallies
    BY DEF CounterNames, Tallies
  <2>2. Kept(s, u) /\ Good(u)
    BY <2>1, KeepsCounted DEF Kept
  <2> HIDE DEF u
  <2>3. "type" \in Reasons /\ "type" # ""
    BY DEF Reasons
  <2>4. Kept(u, Stopped(u, "type"))
    BY <2>2, <2>3, KeepsStop, Zenon
  <2>5. Kept(s, Stopped(u, "type")) /\ Stopped(u, "type") \in Sims
    BY <2>2, <2>4, KeptTransitive DEF Kept, Good
  <2> QED
    BY <1>3, <2>5 DEF Reply, u
<1>4. ASSUME MayHaveRoom(s, b), NEW u \in Joined(s, b, ref), NEW w \in TryAdvance(call, u, b),
             r = [ok |-> TRUE, s |-> w.s]
      PROVE  r \in Reply /\ Kept(s, r.s)
  <2>1. Kept(s, u) /\ Good(u)
    BY <1>4, KeepsJoined DEF Kept
  <2>2. w \in Reply /\ Kept(u, w.s)
    BY <2>1, TryAdvanceKeeps
  <2> QED
    BY <1>4, <2>1, <2>2, KeptTransitive DEF Reply
<1>5. \/ P(b).exitOnOverflow /\ r \in call[<<TurnedAway(s, b), P(b).nextOverflow, ref>>]
      \/ r = [ok |-> FALSE, s |-> s]
      \/ r = [ok |-> FALSE, s |-> Stopped(Counted(s, b, "enterN"), "type")]
      \/ MayHaveRoom(s, b)
            /\ \E u \in Joined(s, b, ref) : \E w \in TryAdvance(call, u, b) : r = [ok |-> TRUE, s |-> w.s]
  BY <1>0, QueueShape
<1> QED
  BY <1>1, <1>2, <1>3, <1>4, <1>5

\* The globals in which a delay has taken an entity.
Taken(s, b) == [Counted(s, b, "enterN") EXCEPT !.count[b].held = @ + 1]

\* What the function of a DELAY block may come to.
LEMMA DelayShape ==
    ASSUME NEW s, NEW b, NEW ref, NEW r \in EnterDelay(s, b, ref)
    PROVE  \/ r = [ok |-> FALSE, s |-> s]
           \/ r = [ok |-> FALSE, s |-> Stopped(s, "type")]
           \/ /\ MayHaveRoom(s, b)
              /\ \E d \in P(b).duration.draws :
                    r = [ok |-> TRUE, s |-> Schedule(Taken(s, b), d, "delay", b, ref, 0)]
  BY DEF EnterDelay, JoinDelay, Returns, Taken

\* A delay with room takes an entity.
LEMMA KeepsTaken ==
    ASSUME NEW s, Good(s), NEW b \in Blocks, Kind(b) = "DELAY", MayHaveRoom(s, b)
    PROVE  LET t == Taken(s, b)
           IN  /\ Kept(s, t) /\ Differ(s, t, {"count"})
               /\ \A d \in Blocks \ {b} : t.count[d] = s.count[d]
               /\ t.count[b] = [s.count[b] EXCEPT !["enterN"] = s.count[b]["enterN"] + 1,
                                                  !["held"] = s.count[b]["held"] + 1]
<1> DEFINE u == Counted(s, b, "enterN")
           n == u.count[b].held + 1
           t == [u EXCEPT !.count[b].held = n]
<1>0. Taken(s, b) = t
  BY DEF Taken
<1>1. "enterN" \in Tallies
  BY DEF CounterNames, Tallies
<1>2. /\ Kept(s, u) /\ Differ(s, u, {"count"})
      /\ \A d \in Blocks \ {b} : u.count[d] = s.count[d]
      /\ u.count[b] = [s.count[b] EXCEPT !["enterN"] = s.count[b]["enterN"] + 1]
      /\ \A d \in Blocks : u.count[d].held = s.count[d].held
  <2>1. /\ Kept(s, u) /\ Differ(s, u, {"count"})
        /\ \A d \in Blocks \ {b} : u.count[d] = s.count[d]
        /\ u.count[b] = OneMore(s.count[b], "enterN")
        /\ \A d \in Blocks : u.count[d].held = s.count[d].held
    BY <1>1, KeepsCounted
  <2> QED
    BY <2>1 DEF OneMore
<1> HIDE DEF u
<1>3. n \in Nat /\ Fits(b, n)
  <2>1. s.count[b].held \in Nat /\ u.count[b].held = s.count[b].held
    BY <1>2, SimTypes DEF Good
  <2> QED
    BY <2>1, RoomFits
<1>4. s.count[b] \in [CounterNames -> Nat]
  BY SimTypes DEF Good
<1>5. n = s.count[b]["held"] + 1
  BY <1>2, <1>4 DEF CounterNames
<1> HIDE DEF n
<1>6. Good(u)
  BY <1>2 DEF Kept
<1>7. /\ Kept(u, t) /\ Differ(u, t, {"count"})
      /\ t.count[b] = [u.count[b] EXCEPT !.held = n]
      /\ \A d \in Blocks \ {b} : t.count[d] = u.count[d]
  BY <1>3, <1>6, KeepsHeld
<1> HIDE DEF t
<1>8. t.count[b] = [s.count[b] EXCEPT !["enterN"] = s.count[b]["enterN"] + 1,
                                      !["held"] = s.count[b]["held"] + 1]
  BY <1>2, <1>4, <1>5, <1>7
<1>9. Differ(s, t, {"count"}) /\ Kept(s, t)
  BY <1>2, <1>7, KeptTransitive DEF Differ
<1> QED
  BY <1>0, <1>2, <1>7, <1>8, <1>9

\* The end of a service may be scheduled.
LEMMA DelayEvent ==
    ASSUME NEW s, Good(s), NEW b \in Blocks, Kind(b) = "DELAY", NEW ref, ValidRef(s, ref),
           NEW d \in P(b).duration.draws
    PROVE  [time |-> s.clock + d, do |-> "delay", block |-> b, ref |-> ref, idx |-> 0] \in ValidEvents(s)
<1>1. d \in Int /\ (Forward => d >= 0)
  BY DelayParts DEF Good, Forward
<1>2. s.clock \in Int
  BY SimTypes DEF Good
<1>3. b \in OfKind("DELAY") /\ ref \in Refs
  BY DEF OfKind, ValidRef
<1> QED
  BY <1>1, <1>2, <1>3 DEF ValidEvents, Events

\* DELAY.
LEMMA DelayKeeps ==
    ASSUME NEW s, Good(s), NEW b \in Blocks, Kind(b) = "DELAY",
           NEW ref, ValidRef(s, ref), NEW r \in EnterDelay(s, b, ref)
    PROVE  r \in Reply /\ Kept(s, r.s)
<1>0. s \in Sims
  BY DEF Good
<1>1. CASE r = [ok |-> FALSE, s |-> s]
  BY <1>0, <1>1, KeptReflexive DEF Reply
<1>2. CASE r = [ok |-> FALSE, s |-> Stopped(s, "type")]
  <2>1. "type" \in Reasons /\ "type" # ""
    BY DEF Reasons
  <2>2. Kept(s, Stopped(s, "type"))
    BY <2>1, KeepsStop, Zenon
  <2> QED
    BY <1>2, <2>2 DEF Reply, Kept, Good
<1>3. ASSUME MayHaveRoom(s, b), NEW d \in P(b).duration.draws,
             r = [ok |-> TRUE, s |-> Schedule(Taken(s, b), d, "delay", b, ref, 0)]
      PROVE  r \in Reply /\ Kept(s, r.s)
  <2>1. Kept(s, Taken(s, b)) /\ Good(Taken(s, b)) /\ ValidRef(Taken(s, b), ref)
    BY <1>3, KeepsTaken, SameValid DEF Kept
  <2>2. Kept(Taken(s, b), Schedule(Taken(s, b), d, "delay", b, ref, 0))
    BY <2>1, DelayEvent, KeepsSchedule
  <2> QED
    BY <1>3, <2>1, <2>2, KeptTransitive DEF Reply, Kept, Good
<1> QED
  BY <1>1, <1>2, <1>3, DelayShape

\* TERMINATE.
LEMMA TerminateKeeps ==
    ASSUME NEW s, Good(s), NEW b \in Blocks, NEW ref, ValidRef(s, ref),
           NEW r \in EnterTerminate(s, b, ref)
    PROVE  r \in Reply /\ Kept(s, r.s)
<1> DEFINE u == Counted(s, b, "enterN")
<1>1. "enterN" \in Tallies
  BY DEF CounterNames, Tallies
<1>2. Kept(s, u)
  BY <1>1, KeepsCounted
<1>3. r = [ok |-> TRUE, s |-> FreeEntity(u, ref)]
  BY DEF EnterTerminate, Returns
<1> HIDE DEF u
<1>4. Good(u) /\ ValidRef(u, ref)
  BY <1>2, SameValid DEF Kept
<1>5. Kept(u, FreeEntity(u, ref))
  BY <1>4, KeepsFreeEntity
<1> QED
  BY <1>2, <1>3, <1>5, KeptTransitive DEF Reply, Kept, Good

\* A reply with other globals.
LEMMA ReplyWith ==
    ASSUME NEW o \in Reply, NEW t
    PROVE  [o EXCEPT !.s = t] = [ok |-> o.ok, s |-> t] /\ o.ok \in BOOLEAN
  BY DEF Reply

\* A reply by what the block next to an ASSIGN block replies for the new values.
Assigns(call, s, b, ref, r) ==
    \E u \in AllAssigned(s, b, ref) : \E o \in Reply :
       /\ NewValues(s, u)
       /\ o \in call[<<u, P(b).next, ref>>]
       /\ Kept(u, o.s)
       /\ r = [ok |-> o.ok, s |-> IF o.ok THEN Passed(o.s, b) ELSE Restored(o.s, b, ref, s)]

\* What the function of an ASSIGN block may come to.
LEMMA AssignShape ==
    ASSUME NEW call, Answers(call), NEW s, Good(s), NEW b \in Blocks, Kind(b) = "ASSIGN",
           NEW ref, ValidRef(s, ref), NEW r \in EnterAssign(call, s, b, ref)
    PROVE  Assigns(call, s, b, ref, r)
<1> DEFINE after(o) == IF o.ok THEN Passed(o.s, b) ELSE Restored(o.s, b, ref, s)
<1>1. PICK u \in AllAssigned(s, b, ref) :
         \E o \in call[<<u, P(b).next, ref>>] : r = [o EXCEPT !.s = after(o)]
  BY DEF EnterAssign
<1>5. PICK o \in call[<<u, P(b).next, ref>>] : r = [o EXCEPT !.s = after(o)]
  BY <1>1
<1>6. NewValues(s, u)
  BY <1>1, KeepsAllAssigned
<1>2. Good(u) /\ ValidRef(u, ref) /\ P(b).next \in Blocks
  BY <1>6, SameValid, AssignParts DEF NewValues, Kept, Good
<1> HIDE DEF after
<1>3. o \in Reply /\ Kept(u, o.s)
  BY <1>5, <1>2 DEF Answers
<1>4. r = [ok |-> o.ok, s |-> after(o)]
  BY <1>5, <1>3, ReplyWith
<1> QED
  BY <1>1, <1>3, <1>4, <1>5, <1>6 DEF after, Assigns

\* ASSIGN.
LEMMA AssignKeeps ==
    ASSUME NEW call, Answers(call), NEW s, Good(s), NEW b \in Blocks, Kind(b) = "ASSIGN",
           NEW ref, ValidRef(s, ref), NEW r \in EnterAssign(call, s, b, ref)
    PROVE  r \in Reply /\ Kept(s, r.s)
<1>0. Assigns(call, s, b, ref, r)
  BY AssignShape
<1>2. PICK u \in AllAssigned(s, b, ref), o \in Reply :
         /\ NewValues(s, u)
         /\ o \in call[<<u, P(b).next, ref>>]
         /\ Kept(u, o.s)
         /\ r = [ok |-> o.ok, s |-> IF o.ok THEN Passed(o.s, b) ELSE Restored(o.s, b, ref, s)]
  BY <1>0 DEF Assigns
<1>1. Kept(s, u)
  BY <1>2 DEF NewValues
<1>3. Kept(s, o.s) /\ Good(o.s) /\ ValidRef(o.s, ref) /\ Same(s, o.s) /\ o.ok \in BOOLEAN
  <2>1. Kept(s, o.s)
    BY <1>1, <1>2, KeptTransitive
  <2> QED
    BY <1>2, <2>1, SameValid DEF Kept, Reply
<1>4. Kept(o.s, Passed(o.s, b)) /\ Kept(o.s, Restored(o.s, b, ref, s))
  BY <1>3, KeepsPassed, KeepsRestored DEF NewValues
<1>5. Kept(s, Passed(o.s, b)) /\ Kept(s, Restored(o.s, b, ref, s))
  BY <1>3, <1>4, KeptTransitive
<1> QED
  BY <1>2, <1>3, <1>5 DEF Reply, Kept, Good

\* A reply that refuses and stops the run.
StopsRun(s, r) == \E why \in Reasons \ {""} : r = [ok |-> FALSE, s |-> Stopped(s, why)]

\* The blocks a BRANCH block may send an entity to.
Ways(b) ==
    {P(b).cases[i].next : i \in DOMAIN P(b).cases}
        \cup (IF P(b).hasElse THEN {P(b).elseNext} ELSE {})

\* A reply by what a block next to a BRANCH block replies.
WentOn(call, s, b, ref, r) ==
    \E next \in Ways(b) : \E o \in Reply :
       /\ o \in call[<<s, next, ref>>]
       /\ Kept(s, o.s)
       /\ r = [ok |-> o.ok, s |-> IF o.ok THEN Passed(o.s, b) ELSE o.s]

\* What the function of a BRANCH block may come to.
LEMMA BranchShape ==
    ASSUME NEW call, Answers(call), NEW s, Good(s), NEW b \in Blocks, Kind(b) = "BRANCH",
           NEW ref, ValidRef(s, ref), NEW r \in EnterBranch(call, s, b, ref)
    PROVE  StopsRun(s, r) \/ WentOn(call, s, b, ref, r)
<1>1. StopsRun(s, r) \/ \E next \in Ways(b) \cap Blocks : r \in BranchTo(call, s, b, next, ref)
  <2>1. Linked
    BY DEF Good
  <2> DEFINE cases == P(b).cases
             fails(i) == FALSE \in Outcomes(s, cases[i].cond, ref)
             taken == {i \in DOMAIN cases : /\ TRUE \in Outcomes(s, cases[i].cond, ref)
                                            /\ \A j \in 1..(i - 1) : fails(j)}
  <2> DEFINE byCase == UNION {BranchTo(call, s, b, cases[i].next, ref) : i \in taken}
             byElse == IF \E i \in DOMAIN cases : ~fails(i) THEN {}
                       ELSE IF P(b).hasElse THEN BranchTo(call, s, b, P(b).elseNext, ref)
                       ELSE Returns(FALSE, Stopped(s, "no branch condition matched"))
  <2>2. EnterBranch(call, s, b, ref) = byCase \cup byElse
    BY DEF EnterBranch
  <2>3. \A i \in taken : cases[i].next \in Ways(b) \cap Blocks
    BY <2>1, BranchParts DEF Ways
  <2>4. P(b).hasElse \in BOOLEAN /\ (P(b).hasElse => P(b).elseNext \in Ways(b) \cap Blocks)
    BY <2>1, BranchParts DEF Ways
  <2> HIDE DEF taken, fails, byCase, byElse
  <2>5. CASE r \in byCase
    BY <2>3, <2>5 DEF byCase
  <2> DEFINE refusal == "no branch condition matched"
  <2>6. CASE r \in byElse
    <3>1. refusal \in Reasons \ {""}
      BY DEF Reasons
    <3>2. byElse = IF \E i \in DOMAIN cases : ~fails(i) THEN {}
                   ELSE IF P(b).hasElse THEN BranchTo(call, s, b, P(b).elseNext, ref)
                   ELSE Returns(FALSE, Stopped(s, refusal))
      BY DEF byElse
    <3> HIDE DEF refusal
    <3> QED
      BY <2>4, <2>6, <3>1, <3>2 DEF Returns, StopsRun
  <2> QED
    BY <2>2, <2>5, <2>6
<1>2. ASSUME NEW next \in Ways(b) \cap Blocks, r \in BranchTo(call, s, b, next, ref)
      PROVE  WentOn(call, s, b, ref, r)
  <2> DEFINE after(o) == IF o.ok THEN Passed(o.s, b) ELSE o.s
  <2>1. PICK o \in call[<<s, next, ref>>] : r = [o EXCEPT !.s = after(o)]
    BY <1>2 DEF BranchTo
  <2> HIDE DEF after
  <2>2. o \in Reply /\ Kept(s, o.s)
    BY <2>1 DEF Answers
  <2>3. r = [ok |-> o.ok, s |-> after(o)]
    BY <2>1, <2>2, ReplyWith
  <2> QED
    BY <2>1, <2>2, <2>3 DEF after, WentOn
<1> QED
  BY <1>1, <1>2

\* BRANCH.
LEMMA BranchKeeps ==
    ASSUME NEW call, Answers(call), NEW s, Good(s), NEW b \in Blocks, Kind(b) = "BRANCH",
           NEW ref, ValidRef(s, ref), NEW r \in EnterBranch(call, s, b, ref)
    PROVE  r \in Reply /\ Kept(s, r.s)
<1>1. ASSUME NEW why \in Reasons \ {""}, r = [ok |-> FALSE, s |-> Stopped(s, why)]
      PROVE  r \in Reply /\ Kept(s, r.s)
  <2>1. Kept(s, Stopped(s, why))
    BY KeepsStop
  <2> QED
    BY <1>1, <2>1 DEF Reply, Kept, Good
<1>2. ASSUME NEW o \in Reply, Kept(s, o.s),
             r = [ok |-> o.ok, s |-> IF o.ok THEN Passed(o.s, b) ELSE o.s]
      PROVE  r \in Reply /\ Kept(s, r.s)
  <2>1. Good(o.s) /\ o.ok \in BOOLEAN
    BY <1>2 DEF Kept, Reply
  <2>2. Kept(s, Passed(o.s, b))
    BY <1>2, <2>1, KeepsPassed, KeptTransitive
  <2> QED
    BY <1>2, <2>1, <2>2 DEF Reply, Kept, Good
<1>3. StopsRun(s, r) \/ WentOn(call, s, b, ref, r)
  BY BranchShape
<1> QED
  BY <1>1, <1>2, <1>3 DEF StopsRun, WentOn

\* A unit of a resource taken, and given back.
UnitTaken(s, r) == InUse(s, r, s.resource[r].busy + 1)
UnitGiven(s, r) == InUse(s, r, s.resource[r].busy - 1)

\* A unit is taken while there is one, and given back while one is in use.
LEMMA KeepsUnit ==
    ASSUME NEW s, Good(s), NEW r \in DOMAIN program.capacity
    PROVE  /\ s.resource[r] \in Uses /\ program.capacity[r] \in Nat
           /\ s.resource[r].busy < program.capacity[r] =>
                 /\ Kept(s, UnitTaken(s, r)) /\ Differ(s, UnitTaken(s, r), {"resource"})
                 /\ UnitTaken(s, r).resource[r] = [s.resource[r] EXCEPT !.busy = s.resource[r].busy + 1]
                 /\ \A d \in DOMAIN program.capacity \ {r} :
                       UnitTaken(s, r).resource[d] = s.resource[d]
           /\ s.resource[r].busy # 0 =>
                 /\ Kept(s, UnitGiven(s, r)) /\ Differ(s, UnitGiven(s, r), {"resource"})
                 /\ UnitGiven(s, r).resource[r] = [s.resource[r] EXCEPT !.busy = s.resource[r].busy - 1]
                 /\ \A d \in DOMAIN program.capacity \ {r} :
                       UnitGiven(s, r).resource[d] = s.resource[d]
<1>1. s.resource[r] \in Uses /\ s.resource[r].busy <= program.capacity[r]
  BY SimTypes DEF Good, WithinCapacity
<1>2. program.capacity[r] \in Nat
  BY ResourceParts DEF Good
<1> DEFINE n == s.resource[r].busy
<1>3. n \in Nat
  BY <1>1 DEF Uses
<1>4. UnitTaken(s, r) = [s EXCEPT !.resource[r].busy = n + 1]
  BY DEF UnitTaken, InUse
<1>5. UnitGiven(s, r) = [s EXCEPT !.resource[r].busy = n - 1]
  BY DEF UnitGiven, InUse
<1> DEFINE c == program.capacity[r]
<1>6. n <= c /\ c \in Nat
  BY <1>1, <1>2
<1> HIDE DEF n, c
<1>7. n < c => n + 1 \in Nat /\ n + 1 <= c
  BY <1>3, <1>6
<1> DEFINE m == n - 1
<1>8. n # 0 => m \in Nat /\ m <= c
  BY <1>3, <1>6
<1> HIDE DEF m
<1>9. ASSUME n < c
      PROVE  /\ Kept(s, UnitTaken(s, r)) /\ Differ(s, UnitTaken(s, r), {"resource"})
             /\ UnitTaken(s, r).resource[r] = [s.resource[r] EXCEPT !.busy = n + 1]
             /\ \A d \in DOMAIN program.capacity \ {r} :
                   UnitTaken(s, r).resource[d] = s.resource[d]
  BY <1>4, <1>7, <1>9, KeepsBusy DEF c
<1>10. ASSUME n # 0
       PROVE  /\ Kept(s, UnitGiven(s, r)) /\ Differ(s, UnitGiven(s, r), {"resource"})
              /\ UnitGiven(s, r).resource[r] = [s.resource[r] EXCEPT !.busy = m]
              /\ \A d \in DOMAIN program.capacity \ {r} :
                    UnitGiven(s, r).resource[d] = s.resource[d]
  <2>1. m \in Nat /\ m <= program.capacity[r]
    BY <1>8, <1>10 DEF c
  <2>2. UnitGiven(s, r) = [s EXCEPT !.resource[r].busy = m]
    BY <1>5 DEF m
  <2> QED
    BY <2>1, <2>2, KeepsBusy
<1> QED
  BY <1>1, <1>2, <1>9, <1>10 DEF n, c, m

\* A unit counted.
LEMMA KeepsUseAndPass ==
    ASSUME NEW s, Good(s), NEW b \in Blocks, NEW r \in DOMAIN program.capacity
    PROVE  /\ Kept(s, Seized(s, b, r)) /\ Kept(s, Released(s, b, r))
           /\ Differ(s, Seized(s, b, r), {"count", "resource"})
           /\ Differ(s, Released(s, b, r), {"count", "resource"})
           /\ Seized(s, b, r).count = Passed(s, b).count /\ Released(s, b, r).count = Passed(s, b).count
           /\ Seized(s, b, r).resource[r] =
                 [s.resource[r] EXCEPT !.seizeN = s.resource[r].seizeN + 1]
           /\ Released(s, b, r).resource[r] =
                 [s.resource[r] EXCEPT !.releaseN = s.resource[r].releaseN + 1]
           /\ \A d \in DOMAIN program.capacity \ {r} :
                 /\ Seized(s, b, r).resource[d] = s.resource[d]
                 /\ Released(s, b, r).resource[d] = s.resource[d]
<1> DEFINE u == Passed(s, b)
           seized == [u EXCEPT !.resource[r].seizeN = @ + 1]
           released == [u EXCEPT !.resource[r].releaseN = @ + 1]
<1>1. Seized(s, b, r) = seized /\ Released(s, b, r) = released
  BY DEF Seized, Released
<1>2. Kept(s, u) /\ Differ(s, u, {"count"}) /\ Good(u)
  BY KeepsPassed DEF Kept
<1>3. u.resource = s.resource
  BY <1>2 DEF Differ, SimFields
<1> HIDE DEF u
<1>4. /\ Kept(u, seized) /\ Differ(u, seized, {"resource"})
      /\ seized.resource[r] = [u.resource[r] EXCEPT !.seizeN = u.resource[r].seizeN + 1]
      /\ Kept(u, released) /\ Differ(u, released, {"resource"})
      /\ released.resource[r] = [u.resource[r] EXCEPT !.releaseN = u.resource[r].releaseN + 1]
      /\ \A d \in DOMAIN program.capacity \ {r} :
            seized.resource[d] = u.resource[d] /\ released.resource[d] = u.resource[d]
  BY <1>2, KeepsUseCounted
<1> HIDE DEF seized, released
<1>5. seized.count = u.count /\ released.count = u.count
  BY <1>4 DEF Differ, SimFields
<1>6. Differ(s, seized, {"count", "resource"}) /\ Differ(s, released, {"count", "resource"})
  BY <1>2, <1>4 DEF Differ
<1>7. Kept(s, seized) /\ Kept(s, released)
  BY <1>2, <1>4, KeptTransitive
<1> QED
  BY <1>1, <1>3, <1>4, <1>5, <1>6, <1>7 DEF u

\* What the function of a SEIZE block may come to.
LEMMA SeizeShape ==
    ASSUME NEW call, Answers(call), NEW s, Good(s), NEW b \in Blocks, Kind(b) = "SEIZE",
           NEW ref, ValidRef(s, ref), NEW x \in EnterSeize(call, s, b, ref)
    PROVE  LET r == P(b).resource
               n == s.resource[r].busy
           IN  \/ x = [ok |-> FALSE, s |-> s]
               \/ /\ n < program.capacity[r]
                  /\ \E o \in Reply :
                        /\ o \in call[<<UnitTaken(s, r), P(b).next, ref>>]
                        /\ Kept(UnitTaken(s, r), o.s)
                        /\ x = [ok |-> o.ok, s |-> IF o.ok THEN Seized(o.s, b, r) ELSE InUse(o.s, r, n)]
<1> DEFINE r == P(b).resource
           n == s.resource[r].busy
           u == UnitTaken(s, r)
           after(o) == IF o.ok THEN Seized(o.s, b, r) ELSE InUse(o.s, r, n)
<1>1. r \in DOMAIN program.capacity /\ P(b).next \in Blocks
  BY SeizeParts DEF Good
<1>2. n \in Nat /\ program.capacity[r] \in Nat
  BY <1>1, KeepsUnit DEF Uses
<1>3. CASE n >= program.capacity[r]
  BY <1>3 DEF EnterSeize, Returns
<1>4. CASE ~(n >= program.capacity[r])
  <2>1. PICK o \in call[<<u, P(b).next, ref>>] : x = [o EXCEPT !.s = after(o)]
    <3>1. EnterSeize(call, s, b, ref) = {[o EXCEPT !.s = after(o)] : o \in call[<<u, P(b).next, ref>>]}
      BY <1>4 DEF EnterSeize, UnitTaken
    <3> HIDE DEF after, u
    <3> QED
      BY <3>1
  <2>2. n < program.capacity[r]
    BY <1>2, <1>4
  <2> HIDE DEF after, n
  <2>3. Good(u) /\ ValidRef(u, ref)
    <3>1. s.resource[r].busy < program.capacity[r]
      BY <2>2 DEF n
    <3> HIDE DEF r
    <3>2. Kept(s, u)
      BY <1>1, <3>1, KeepsUnit
    <3> HIDE DEF u
    <3> QED
      BY <3>2, SameValid DEF Kept
  <2> HIDE DEF u
  <2>4. o \in Reply /\ Kept(u, o.s)
    BY <1>1, <2>1, <2>3 DEF Answers
  <2>5. x = [ok |-> o.ok, s |-> after(o)]
    BY <2>1, <2>4, ReplyWith
  <2> QED
    BY <2>1, <2>2, <2>4, <2>5 DEF u, after, n
<1> QED
  BY <1>3, <1>4

\* SEIZE.
LEMMA SeizeKeeps ==
    ASSUME NEW call, Answers(call), NEW s, Good(s), NEW b \in Blocks, Kind(b) = "SEIZE",
           NEW ref, ValidRef(s, ref), NEW x \in EnterSeize(call, s, b, ref)
    PROVE  x \in Reply /\ Kept(s, x.s)
<1> DEFINE r == P(b).resource
           n == s.resource[r].busy
           u == UnitTaken(s, r)
<1>1. r \in DOMAIN program.capacity
  BY SeizeParts DEF Good
<1>2. n \in Nat /\ program.capacity[r] \in Nat
  BY <1>1, KeepsUnit DEF Uses
<1>3. CASE x = [ok |-> FALSE, s |-> s]
  BY <1>3, KeptReflexive DEF Reply, Good
<1>4. ASSUME n < program.capacity[r], NEW o \in Reply, Kept(u, o.s),
             x = [ok |-> o.ok, s |-> IF o.ok THEN Seized(o.s, b, r) ELSE InUse(o.s, r, n)]
      PROVE  x \in Reply /\ Kept(s, x.s)
  <2>1. Kept(s, u)
    BY <1>1, <1>4, KeepsUnit
  <2> HIDE DEF u
  <2>2. Kept(s, o.s) /\ Good(o.s) /\ o.ok \in BOOLEAN
    BY <1>4, <2>1, KeptTransitive DEF Kept, Reply
  <2>3. Kept(o.s, Seized(o.s, b, r))
    BY <1>1, <2>2, KeepsUseAndPass
  <2>4. n <= program.capacity[r]
    BY <1>2, <1>4
  <2> HIDE DEF n, r
  <2>5. Kept(o.s, InUse(o.s, r, n))
    BY <1>1, <1>2, <2>2, <2>4, KeepsBusy DEF InUse
  <2>6. Kept(s, Seized(o.s, b, r)) /\ Kept(s, InUse(o.s, r, n))
    BY <2>2, <2>3, <2>5, KeptTransitive
  <2> QED
    BY <1>4, <2>2, <2>6 DEF Reply, Kept, Good
<1>5. \/ x = [ok |-> FALSE, s |-> s]
      \/ /\ n < program.capacity[r]
         /\ \E o \in Reply :
               /\ o \in call[<<u, P(b).next, ref>>]
               /\ Kept(u, o.s)
               /\ x = [ok |-> o.ok, s |-> IF o.ok THEN Seized(o.s, b, r) ELSE InUse(o.s, r, n)]
  BY SeizeShape
<1> HIDE DEF r, n, u
<1> QED
  BY <1>3, <1>4, <1>5

\* Waking the queues of a resource comes to what try_advance comes to, again and again.
LEMMA WakeResourceWithin ==
    ASSUME NEW call, NEW R, NEW s, [ok |-> FALSE, s |-> s] \in R,
           NEW r, program.seizes[r] \in Seq(Blocks), NEW Q,
           \A i \in 1..Len(program.seizes[r]) :
              P(program.seizes[r][i]).waitQueues \in Seq(Q),
           \A x \in R : ~x.ok => \A q \in Q : TryAdvance(call, x.s, q) \subseteq R
    PROVE  WakeResourceQueues(call, s, r) \subseteq R
<1> DEFINE seizes == program.seizes[r]
           n == Len(seizes)
           A == SUBSET R
           start == Returns(FALSE, s)
           body(i, S) == WakeFirst(call, S, P(seizes[i]).waitQueues)
           step == [c \in (1..n) \X A |-> body(c[1], c[2])]
           Loops(f) == f = [i \in 0..n |-> IF i = 0 THEN start ELSE body(i, f[i - 1])]
           g == CHOOSE f : Loops(f)
<1>0. WakeResourceQueues(call, s, r) = g[n]
  BY DEF WakeResourceQueues
<1>1. n \in Nat
  OBVIOUS
<1>2. start \in A
  BY DEF Returns
<1>3. ASSUME NEW i \in 1..n, NEW S \in A PROVE body(i, S) \in A
  <2>1. P(seizes[i]).waitQueues \in Seq(Q) /\ S \in SUBSET R
    OBVIOUS
  <2> QED
    BY <2>1, WakeFirstWithin
<1> HIDE DEF A, body, start, seizes
<1>4. step \in [(1..n) \X A -> A]
  BY <1>3
<1>5. PICK f \in [0..n -> A] : IsLoop(f, n, start, step)
  BY <1>1, <1>2, <1>4, LoopExists
<1>6. Loops(f)
  <2>1. \A i \in 1..n : i - 1 \in 0..n /\ f[i - 1] \in A
    <3>1. \A i \in 1..n : i - 1 \in 0..n
      BY <1>1
    <3>2. \A i \in 0..n : f[i] \in A
      BY <1>5
    <3> QED
      BY <3>1, <3>2, Zenon
  <2>2. \A i \in 1..n : f[i] = body(i, f[i - 1])
    BY <1>5, <2>1 DEF IsLoop
  <2>3. f[0] = start
    BY <1>5 DEF IsLoop
  <2> QED
    BY <1>1, <1>5, <2>2, <2>3
<1>7. Loops(g)
  BY <1>6
<1> HIDE DEF g, n
<1>8. g[0] = start /\ \A i \in 1..n : g[i] = body(i, g[i - 1])
  <2>1. g = [i \in 0..n |-> IF i = 0 THEN start ELSE body(i, g[i - 1])]
    BY <1>7
  <2>2. 0 \in 0..n /\ \A i \in 1..n : i \in 0..n /\ i # 0
    BY <1>1
  <2>3. g[0] = start
    BY <2>1, <2>2
  <2>4. ASSUME NEW i \in 1..n PROVE g[i] = body(i, g[i - 1])
    BY <2>1, <2>2
  <2> QED
    BY <2>3, <2>4
<1>9. \A i \in 0..n : g[i] \in A
  BY <1>1, <1>2, <1>3, <1>8, LoopStays
<1>10. g[n] \in A
  BY <1>1, <1>9
<1> QED
  BY <1>0, <1>10 DEF A

\* Waking the queues of a resource keeps the invariant.
LEMMA WakeResourceKeeps ==
    ASSUME NEW call, Answers(call), NEW s, Good(s), NEW r \in DOMAIN program.capacity,
           NEW w \in WakeResourceQueues(call, s, r)
    PROVE  w \in Reply /\ Kept(s, w.s)
<1> DEFINE R == {x \in Reply : Kept(s, x.s)}
           seizes == program.seizes[r]
           Q == OfKind("QUEUE")
<1>1. Linked
  BY DEF Good
<1>2. seizes \in Seq(OfKind("SEIZE"))
  BY <1>1, ResourceParts
<1>3. \A i \in 1..Len(seizes) : P(seizes[i]).waitQueues \in Seq(Q)
  <2> SUFFICES ASSUME NEW i \in 1..Len(seizes) PROVE P(seizes[i]).waitQueues \in Seq(Q)
    OBVIOUS
  <2>1. seizes[i] \in Blocks /\ Kind(seizes[i]) = "SEIZE"
    BY <1>2 DEF OfKind
  <2> QED
    BY <1>1, <2>1, SeizeParts DEF Queues
<1>4. seizes \in Seq(Blocks)
  BY <1>2 DEF OfKind
<1>5. [ok |-> FALSE, s |-> s] \in R
  BY KeptReflexive DEF Reply, Good
<1>6. ASSUME NEW x \in R, NEW q \in Q, NEW y \in TryAdvance(call, x.s, q) PROVE y \in R
  <2>1. Kept(s, x.s) /\ Good(x.s)
    BY DEF Kept
  <2>2. q \in Blocks /\ Kind(q) = "QUEUE"
    BY DEF OfKind
  <2>3. y \in Reply /\ Kept(x.s, y.s)
    BY <2>1, <2>2, TryAdvanceKeeps
  <2> QED
    BY <2>1, <2>3, KeptTransitive
<1> HIDE DEF R
<1>7. \A x \in R : ~x.ok => \A q \in Q : TryAdvance(call, x.s, q) \subseteq R
  BY <1>6
<1> HIDE DEF Q
<1>8. WakeResourceQueues(call, s, r) \subseteq R
  BY <1>3, <1>4, <1>5, <1>7, WakeResourceWithin
<1> QED
  BY <1>8 DEF R

\* A reply by what the block next to a RELEASE block replies: the queues that
\* wait for the unit are woken once it has taken the entity.
GivesBack(call, s, b, ref, x) ==
    LET r == P(b).resource
    IN  \E o \in Reply :
           /\ o \in call[<<UnitGiven(s, r), P(b).next, ref>>]
           /\ Kept(UnitGiven(s, r), o.s)
           /\ \/ ~o.ok /\ x = [ok |-> FALSE, s |-> InUse(o.s, r, s.resource[r].busy)]
              \/ /\ o.ok
                 /\ \E w \in WakeResourceQueues(call, Released(o.s, b, r), r) : x = [ok |-> TRUE, s |-> w.s]

\* What the function of a RELEASE block may come to.
LEMMA ReleaseShape ==
    ASSUME NEW call, Answers(call), NEW s, Good(s), NEW b \in Blocks, Kind(b) = "RELEASE",
           NEW ref, ValidRef(s, ref), NEW x \in EnterRelease(call, s, b, ref)
    PROVE  StopsRun(s, x) \/ (s.resource[P(b).resource].busy # 0 /\ GivesBack(call, s, b, ref, x))
<1> DEFINE r == P(b).resource
           n == s.resource[r].busy
           u == UnitGiven(s, r)
<1>1. r \in DOMAIN program.capacity /\ P(b).next \in Blocks
  BY ReleaseParts DEF Good
<1> DEFINE refusal == "empty resource"
<1>2. refusal \in Reasons \ {""}
  BY DEF Reasons
<1>3. CASE n = 0
  <2>1. x = [ok |-> FALSE, s |-> Stopped(s, refusal)]
    BY <1>3 DEF EnterRelease, Returns
  <2> HIDE DEF refusal, n, r
  <2> QED
    BY <1>2, <2>1 DEF StopsRun
<1>4. CASE n # 0
  <2>1. PICK o \in call[<<u, P(b).next, ref>>] :
           x \in IF o.ok
                 THEN {[ok |-> TRUE, s |-> w.s] : w \in WakeResourceQueues(call, Released(o.s, b, r), r)}
                 ELSE Returns(FALSE, InUse(o.s, r, n))
    BY <1>4 DEF EnterRelease, UnitGiven
  <2>2. Good(u) /\ ValidRef(u, ref)
    <3> HIDE DEF r
    <3>1. Kept(s, u)
      BY <1>1, <1>4, KeepsUnit
    <3> HIDE DEF u
    <3> QED
      BY <3>1, SameValid DEF Kept
  <2> HIDE DEF u
  <2>3. o \in Reply /\ Kept(u, o.s)
    BY <1>1, <2>1, <2>2 DEF Answers
  <2>4. \/ ~o.ok /\ x = [ok |-> FALSE, s |-> InUse(o.s, r, n)]
        \/ /\ o.ok
           /\ \E w \in WakeResourceQueues(call, Released(o.s, b, r), r) : x = [ok |-> TRUE, s |-> w.s]
    <3> HIDE DEF n
    <3> QED
      BY <2>1 DEF Returns
  <2> QED
    BY <1>4, <2>1, <2>3, <2>4 DEF u, GivesBack
<1> QED
  BY <1>3, <1>4

\* RELEASE.
LEMMA ReleaseKeeps ==
    ASSUME NEW call, Answers(call), NEW s, Good(s), NEW b \in Blocks, Kind(b) = "RELEASE",
           NEW ref, ValidRef(s, ref), NEW x \in EnterRelease(call, s, b, ref)
    PROVE  x \in Reply /\ Kept(s, x.s)
<1> DEFINE r == P(b).resource
           n == s.resource[r].busy
           u == UnitGiven(s, r)
<1>1. r \in DOMAIN program.capacity
  BY ReleaseParts DEF Good
<1>2. n \in Nat /\ n <= program.capacity[r]
  BY <1>1, KeepsUnit DEF Uses, Good, WithinCapacity
<1>3. ASSUME NEW why \in Reasons \ {""}, x = [ok |-> FALSE, s |-> Stopped(s, why)]
      PROVE  x \in Reply /\ Kept(s, x.s)
  <2>1. Kept(s, Stopped(s, why))
    BY KeepsStop
  <2> QED
    BY <1>3, <2>1 DEF Reply, Kept, Good
<1>4. ASSUME n # 0, NEW o \in Reply, Kept(u, o.s),
             \/ x = [ok |-> FALSE, s |-> InUse(o.s, r, n)]
             \/ \E w \in WakeResourceQueues(call, Released(o.s, b, r), r) : x = [ok |-> TRUE, s |-> w.s]
      PROVE  x \in Reply /\ Kept(s, x.s)
  <2>1. Kept(s, u)
    BY <1>1, <1>4, KeepsUnit
  <2> HIDE DEF u
  <2>2. Kept(s, o.s) /\ Good(o.s)
    BY <1>4, <2>1, KeptTransitive DEF Kept
  <2> HIDE DEF n, r
  <2>3. CASE x = [ok |-> FALSE, s |-> InUse(o.s, r, n)]
    <3>1. Kept(o.s, InUse(o.s, r, n))
      BY <1>1, <1>2, <2>2, KeepsBusy DEF InUse
    <3> QED
      BY <2>2, <2>3, <3>1, KeptTransitive DEF Reply, Kept, Good
  <2>4. ASSUME NEW w \in WakeResourceQueues(call, Released(o.s, b, r), r), x = [ok |-> TRUE, s |-> w.s]
        PROVE  x \in Reply /\ Kept(s, x.s)
    <3>1. Kept(o.s, Released(o.s, b, r)) /\ Good(Released(o.s, b, r))
      BY <1>1, <2>2, KeepsUseAndPass DEF Kept
    <3>2. w \in Reply /\ Kept(Released(o.s, b, r), w.s)
      BY <1>1, <2>4, <3>1, WakeResourceKeeps
    <3>3. Kept(s, w.s)
      BY <2>2, <3>1, <3>2, KeptTransitive
    <3> QED
      BY <2>4, <3>3 DEF Reply, Kept, Good
  <2> QED
    BY <1>4, <2>3, <2>4
<1>5. StopsRun(s, x) \/ (n # 0 /\ GivesBack(call, s, b, ref, x))
  BY ReleaseShape
<1>6. CASE StopsRun(s, x)
  BY <1>3, <1>6 DEF StopsRun
<1>7. CASE n # 0 /\ GivesBack(call, s, b, ref, x)
  <2>1. PICK o \in Reply :
           /\ Kept(u, o.s)
           /\ \/ x = [ok |-> FALSE, s |-> InUse(o.s, r, n)]
              \/ \E w \in WakeResourceQueues(call, Released(o.s, b, r), r) : x = [ok |-> TRUE, s |-> w.s]
    BY <1>7 DEF GivesBack
  <2> HIDE DEF u, n, r
  <2> QED
    BY <1>4, <1>7, <2>1
<1> QED
  BY <1>5, <1>6, <1>7

\* Every block function.
LEMMA BlockKeeps ==
    ASSUME NEW call, Answers(call), NEW s, Good(s), NEW b \in Blocks,
           NEW ref, ValidRef(s, ref), NEW r \in BlockFunction(call, s, b, ref)
    PROVE  r \in Reply /\ Kept(s, r.s)
<1>0. Kind(b) \in Kinds
  BY ModelTypes DEF Good
<1>1. CASE Kind(b) = "QUEUE"
  BY <1>1, QueueKeeps DEF BlockFunction
<1>2. CASE Kind(b) = "DELAY"
  BY <1>2, DelayKeeps DEF BlockFunction
<1>3. CASE Kind(b) = "SEIZE"
  BY <1>3, SeizeKeeps DEF BlockFunction
<1>4. CASE Kind(b) = "RELEASE"
  BY <1>4, ReleaseKeeps DEF BlockFunction
<1>5. CASE Kind(b) = "ASSIGN"
  BY <1>5, AssignKeeps DEF BlockFunction
<1>6. CASE Kind(b) = "BRANCH"
  BY <1>6, BranchKeeps DEF BlockFunction
<1>7. CASE Kind(b) = "TERMINATE"
  BY <1>7, TerminateKeeps DEF BlockFunction
<1>8. CASE Kind(b) = "CREATE"
  BY <1>8 DEF BlockFunction
<1> QED
  BY <1>0, <1>1, <1>2, <1>3, <1>4, <1>5, <1>6, <1>7, <1>8 DEF Kinds

\* The levels of calls: the function Call takes its last level of.
Levels(n, within) ==
    within = [k \in 0..n |->
                [c \in Calls |-> IF k = 0 THEN {} ELSE BlockFunction(within[k - 1], c[1], c[2], c[3])]]

\* There are levels as deep as one likes.
LEMMA LevelsExist ==
    ASSUME NEW n \in Nat
    PROVE  \E within : Levels(n, within)
<1> DEFINE G == {k \in Nat : \E within : Levels(k, within)}
           top(w, k) == [c \in Calls |-> IF k = 0 THEN {} ELSE BlockFunction(w[k - 1], c[1], c[2], c[3])]
<1>1. 0 \in G
  <2> DEFINE none == [c \in Calls |-> {}]
             w == [k \in 0..0 |-> none]
  <2>1. \A k \in 0..0 : top(w, k) = none
    OBVIOUS
  <2> HIDE DEF top, none
  <2>2. w = [k \in 0..0 |-> top(w, k)]
    BY <2>1
  <2> HIDE DEF w
  <2>3. Levels(0, w)
    BY <2>2 DEF Levels, top
  <2> QED
    BY <2>3
<1>2. ASSUME NEW k \in Nat, k \in G PROVE k + 1 \in G
  <2>1. PICK w : Levels(k, w)
    BY <1>2
  <2> DEFINE v == [j \in 0..(k + 1) |-> top(w, j)]
  <2> HIDE DEF top
  <2>2. w = [j \in 0..k |-> top(w, j)]
    BY <2>1 DEF Levels, top
  <2>3. \A j \in 0..k : v[j] = w[j]
    BY <2>2
  <2>4. ASSUME NEW j \in 0..(k + 1) PROVE top(v, j) = top(w, j)
    <3>1. CASE j = 0
      BY <3>1 DEF top
    <3>2. CASE j # 0
      <4>1. j - 1 \in 0..k
        BY <2>4, <3>2
      <4>2. v[j - 1] = w[j - 1]
        BY <2>3, <4>1
      <4> HIDE DEF v
      <4> QED
        BY <4>2 DEF top
    <3> QED
      BY <3>1, <3>2
  <2>5. v = [j \in 0..(k + 1) |-> top(v, j)]
    BY <2>4
  <2>6. Levels(k + 1, v)
    BY <2>5 DEF Levels, top
  <2> QED
    BY <2>6
<1> HIDE DEF G
<1>3. n \in G
  BY <1>1, <1>2, NumbersInduct
<1> QED
  BY <1>3 DEF G

\* Every call of a block function in a handler keeps the invariant.
LEMMA CallAnswers == Linked => Answers(Call)
<1> DEFINE N == MaxDepth
           w == CHOOSE v : Levels(N, v)
<1>0. Call = w[N]
  BY DEF Call, Levels
<1>1. N \in Nat
  BY SimulationAssumption
<1> HIDE DEF N
<1>2. Levels(N, w)
  BY <1>1, LevelsExist
<1> HIDE DEF w
<1>3. \A k \in 0..N : w[k] =
         [c \in Calls |-> IF k = 0 THEN {} ELSE BlockFunction(w[k - 1], c[1], c[2], c[3])]
  BY <1>2 DEF Levels
<1> SUFFICES ASSUME Linked PROVE Answers(Call)
  OBVIOUS
<1> DEFINE G == {k \in Nat : k <= N => Answers(w[k])}
<1>4. ASSUME NEW s, NEW b \in Blocks, NEW ref, Good(s), ValidRef(s, ref)
      PROVE  <<s, b, ref>> \in Calls
  BY <1>4 DEF Calls, Good, ValidRef
<1>5. 0 \in G
  <2>1. w[0] = [c \in Calls |-> {}]
    BY <1>1, <1>3
  <2> QED
    BY <1>4, <2>1 DEF Answers
<1>6. ASSUME NEW k \in Nat, k \in G PROVE k + 1 \in G
  <2> SUFFICES ASSUME k + 1 <= N PROVE Answers(w[k + 1])
    OBVIOUS
  <2>1. Answers(w[k])
    BY <1>1, <1>6
  <2>2. k + 1 \in 0..N /\ k + 1 # 0 /\ (k + 1) - 1 = k
    BY <1>1
  <2>3. w[k + 1] = [c \in Calls |-> BlockFunction(w[k], c[1], c[2], c[3])]
    BY <1>3, <2>2
  <2> SUFFICES ASSUME NEW s, NEW b \in Blocks, NEW ref, Good(s), ValidRef(s, ref),
                      NEW r \in w[k + 1][<<s, b, ref>>]
               PROVE  r \in Reply /\ Kept(s, r.s)
    BY DEF Answers
  <2>4. r \in BlockFunction(w[k], s, b, ref)
    BY <1>4, <2>3
  <2> QED
    BY <2>1, <2>4, BlockKeeps
<1> HIDE DEF G
<1>7. N \in G
  BY <1>1, <1>5, <1>6, NumbersInduct
<1> QED
  BY <1>0, <1>1, <1>7 DEF G

------------------------------------------------------------------------------
(* The CREATE blocks, which make a pool grow.                              *)

\* No pool is smaller in t than in s, which agree on the clock and the metrics.
Grows(s, t) ==
    /\ t.clock = s.clock /\ t.nextMetricAt = s.nextMetricAt /\ t.stats = s.stats
    /\ \A e \in EntityTypes : DOMAIN s.pool[e].entities \subseteq DOMAIN t.pool[e].entities
    /\ s.stop => t.stop

Reached(s, t) == Good(t) /\ Grows(s, t)

\* Two such steps are one, and one that keeps the pools is one.
LEMMA ReachedTransitive ==
    ASSUME NEW s, NEW t, NEW u, Reached(s, t), Reached(t, u)
    PROVE  Reached(s, u)
  BY DEF Reached, Grows

\* A step that keeps the pools is one.
LEMMA KeptReached ==
    ASSUME NEW s, NEW t, Kept(s, t)
    PROVE  Reached(s, t)
  BY DEF Kept, Same, Reached, Grows

\* A step that does nothing is one.
LEMMA ReachedReflexive ==
    ASSUME NEW s, Good(s)
    PROVE  Reached(s, s)
  BY DEF Reached, Grows

\* What was valid stays valid.
LEMMA GrowsValid ==
    ASSUME NEW s, NEW t, Grows(s, t)
    PROVE  /\ ValidEvents(s) \subseteq ValidEvents(t) /\ ValidSlots(s) \subseteq ValidSlots(t)
           /\ \A ref : ValidRef(s, ref) => ValidRef(t, ref)
<1>1. \A ref : ValidRef(s, ref) => ValidRef(t, ref)
  BY DEF ValidRef, Grows, Refs
<1>2. t.clock = s.clock
  BY DEF Grows
<1> QED
  BY <1>1, <1>2 DEF ValidEvents, ValidSlots

\* The entity a pool gives out is one of the pool, whatever was freed before.
LEMMA AllocFacts ==
    ASSUME NEW p \in Pool, ToSet(p.free) \subseteq DOMAIN p.entities, NEW d \in [FieldNames -> Int]
    PROVE  LET x == Alloc(p, d)
           IN  /\ x \in Pool /\ DOMAIN p.entities \subseteq DOMAIN x.entities
               /\ AllocIdx(p) \in Nat \ {0} /\ AllocIdx(p) \in DOMAIN x.entities
               /\ ToSet(x.free) \subseteq DOMAIN x.entities
<1> DEFINE E == [FieldNames -> Int]
           x == Alloc(p, d)
           n == Len(p.free)
<1>1. p.entities \in Seq(E) /\ p.free \in Seq(Nat \ {0}) /\ d \in E
  BY DEF Pool
<1> HIDE DEF E
<1>2. CASE p.free = <<>>
  <2>1. x = [p EXCEPT !.entities = Append(p.entities, d)] /\ AllocIdx(p) = Len(p.entities) + 1
    BY <1>2 DEF Alloc, AllocIdx
  <2>2. /\ Append(p.entities, d) \in Seq(E)
        /\ DOMAIN p.entities \subseteq DOMAIN Append(p.entities, d)
        /\ Len(p.entities) + 1 \in Nat \ {0}
        /\ Len(p.entities) + 1 \in DOMAIN Append(p.entities, d)
    BY <1>1
  <2>3. x \in Pool /\ x.entities = Append(p.entities, d) /\ x.free = p.free
    BY <1>1, <2>1, <2>2 DEF Pool, E
  <2>4. ToSet(p.free) = {}
    BY <1>2 DEF ToSet
  <2> QED
    BY <2>1, <2>2, <2>3, <2>4
<1>3. CASE p.free # <<>>
  <2>1. n \in Nat \ {0} /\ n \in DOMAIN p.free /\ DOMAIN p.free = 1..n
    BY <1>1, <1>3
  <2> DEFINE i == AllocIdx(p)
  <2>2. i = p.free[n]
    BY <1>3 DEF AllocIdx
  <2>3. i \in Nat \ {0} /\ i \in DOMAIN p.entities
    BY <1>1, <2>1, <2>2 DEF ToSet
  <2> DEFINE y == [p.entities EXCEPT ![i] = d]
             z == SubSeq(p.free, 1, n - 1)
  <2>4. x = [entities |-> y, free |-> z]
    BY <1>3 DEF Alloc
  <2> HIDE DEF i
  <2>5. y \in Seq(E) /\ DOMAIN y = DOMAIN p.entities
    BY <1>1, <2>3
  <2>6. z \in Seq(Nat \ {0}) /\ \A k \in DOMAIN z : k \in DOMAIN p.free /\ z[k] = p.free[k]
    <3> DEFINE w == p.free
    <3>1. w \in Seq(Nat \ {0}) /\ n = Len(w) /\ n \in Nat \ {0} /\ DOMAIN w = 1..n
      BY <1>1, <2>1
    <3> HIDE DEF w, n
    <3>2. SubSeq(w, 1, n - 1) \in Seq(Nat \ {0})
      BY <3>1
    <3>3. DOMAIN SubSeq(w, 1, n - 1) = 1..(n - 1)
      BY <3>1
    <3>4. \A k \in 1..(n - 1) : k \in DOMAIN w /\ SubSeq(w, 1, n - 1)[k] = w[k]
      BY <3>1
    <3> QED
      BY <3>2, <3>3, <3>4 DEF w
  <2>7. ToSet(z) \subseteq ToSet(p.free)
    BY <2>6 DEF ToSet
  <2> HIDE DEF y, z
  <2>8. x \in Pool /\ x.entities = y /\ x.free = z
    BY <2>4, <2>5, <2>6 DEF Pool, E
  <2> QED
    BY <2>3, <2>5, <2>7, <2>8 DEF i
<1> QED
  BY <1>2, <1>3

\* The globals in which a CREATE block has made an entity, and the entity.
Made(s, b) == [s EXCEPT !.pool[P(b).entity] = Alloc(@, Defaults(P(b).entity))]
MadeRef(s, b) == [type |-> P(b).entity, idx |-> AllocIdx(s.pool[P(b).entity])]

\* Making an entity.
LEMMA ReachesMade ==
    ASSUME NEW s, Good(s), NEW b \in Blocks, Kind(b) = "CREATE"
    PROVE  Reached(s, Made(s, b)) /\ ValidRef(Made(s, b), MadeRef(s, b))
<1> DEFINE e == P(b).entity
           p == s.pool[e]
           x == Alloc(p, Defaults(e))
           t == [s EXCEPT !.pool[e] = x]
           ref == MadeRef(s, b)
<1>0. Made(s, b) = t /\ ref = [type |-> e, idx |-> AllocIdx(p)]
  BY DEF Made, MadeRef
<1>1. Linked /\ s \in Sims
  BY DEF Good
<1>2. e \in EntityTypes
  BY <1>1, CreateParts
<1>3. p \in Pool /\ ToSet(p.free) \subseteq DOMAIN p.entities /\ Defaults(e) \in [FieldNames -> Int]
  BY <1>1, <1>2, SimTypes, DefaultsType DEF Good, FreeValid
<1>4. /\ x \in Pool /\ DOMAIN p.entities \subseteq DOMAIN x.entities
      /\ AllocIdx(p) \in Nat \ {0} /\ AllocIdx(p) \in DOMAIN x.entities
      /\ ToSet(x.free) \subseteq DOMAIN x.entities
  <2> HIDE DEF p
  <2> QED
    BY <1>3, AllocFacts
<1> HIDE DEF x, e, ref
<1>5. /\ t \in Sims /\ Differ(s, t, {"pool"}) /\ t.pool[e] = x
      /\ \A d \in EntityTypes \ {e} : t.pool[d] = s.pool[d]
  BY <1>1, <1>2, <1>4, SetPool
<1> HIDE DEF t
<1>6. /\ t.clock = s.clock /\ t.nextMetricAt = s.nextMetricAt /\ t.stats = s.stats /\ t.stop = s.stop
      /\ t.reason = s.reason /\ t.events = s.events /\ t.arr = s.arr /\ t.resource = s.resource /\ t.count = s.count
  BY <1>5 DEF Differ, SimFields
<1>7. Grows(s, t)
  BY <1>4, <1>5, <1>6 DEF Grows
<1>8. ValidEvents(s) \subseteq ValidEvents(t) /\ ValidSlots(s) \subseteq ValidSlots(t)
  BY <1>7, GrowsValid
<1>9. SlotsValid(t)
  <2>1. \A d \in Blocks : s.arr[d] \in Seq(ValidSlots(s))
    BY DEF Good, SlotsValid
  <2>2. \A d \in Blocks : s.arr[d] \in Seq(ValidSlots(t))
    BY <1>8, <2>1
  <2> QED
    BY <1>6, <2>2 DEF SlotsValid
<1>10. EventsValid(t)
  <2>1. s.events \in Seq(ValidEvents(s)) /\ IsHeap(s.events)
    BY DEF Good, EventsValid
  <2>2. s.events \in Seq(ValidEvents(t))
    BY <1>8, <2>1
  <2> QED
    BY <1>6, <2>1, <2>2 DEF EventsValid
<1>11. FreeValid(t)
  BY <1>4, <1>5 DEF FreeValid, Good
<1>12. Good(t)
  BY <1>5, <1>6, <1>9, <1>10, <1>11 DEF Good, GivesReason, WithinCapacity
<1>13. ValidRef(t, ref)
  BY <1>0, <1>2, <1>4, <1>5 DEF ValidRef, Refs
<1> QED
  BY <1>0, <1>7, <1>12, <1>13 DEF Reached, ref

\* No block has the name of an absent one.
LEMMA BlocksNamed == Linked => "" \notin Blocks
  BY ModelTypes DEF WellTyped, BlockName, NoBlock, Blocks

\* A block that stops the run gives its name for the reason.
LEMMA KeepsBlockStop ==
    ASSUME NEW s, Good(s), NEW b \in Blocks
    PROVE  Kept(s, Stopped(s, b))
<1>1. b \in Reasons /\ b # ""
  BY BlocksNamed DEF Good, Reasons
<1> QED
  BY <1>1, KeepsStop

\* One entity of a batch.
LEMMA CreateOneReaches ==
    ASSUME NEW s, Good(s), NEW b \in Blocks, Kind(b) = "CREATE", NEW x \in CreateOne(s, b)
    PROVE  x \in Reply /\ Reached(s, x.s)
<1> DEFINE ref == MadeRef(s, b)
           t == Made(s, b)
           u == Counted(t, b, "createdN")
<1>1. Reached(s, t) /\ Good(t) /\ ValidRef(t, ref)
  BY ReachesMade DEF Reached
<1>2. PICK r \in Call[<<u, P(b).next, ref>>] :
         x = CASE r.ok -> [r EXCEPT !.s = Counted(r.s, b, "exitN")]
               [] ~r.ok /\ r.s.stop -> r
               [] ~r.ok /\ ~r.s.stop /\ P(b).policy = "destroy" ->
                     [ok |-> TRUE, s |-> FreeEntity(Counted(r.s, b, "dropN"), ref)]
               [] OTHER -> [ok |-> FALSE, s |-> Stopped(r.s, b)]
  BY DEF CreateOne, Made, MadeRef
<1> HIDE DEF t, ref
<1>3. "createdN" \in Tallies /\ "exitN" \in Tallies /\ "dropN" \in Tallies
  BY DEF CounterNames, Tallies
<1>4. Kept(t, u)
  BY <1>1, <1>3, KeepsCounted
<1> HIDE DEF u
<1>5. Good(u) /\ ValidRef(u, ref) /\ P(b).next \in Blocks /\ Linked
  BY <1>1, <1>4, SameValid, CreateParts DEF Kept, Good
<1>6. r \in Reply /\ Kept(u, r.s)
  BY <1>2, <1>5, CallAnswers DEF Answers
<1>7. Good(r.s) /\ ValidRef(r.s, ref) /\ Reached(s, r.s)
  BY <1>1, <1>4, <1>5, <1>6, KeptReached, ReachedTransitive, SameValid DEF Kept
<1> DEFINE v == Counted(r.s, b, "dropN")
           w == Counted(r.s, b, "exitN")
<1>8. Kept(r.s, v)
  BY <1>3, <1>7, KeepsCounted
<1>9. Kept(r.s, w)
  BY <1>3, <1>7, KeepsCounted
<1> HIDE DEF v, w
<1>10. Kept(v, FreeEntity(v, ref))
  <2>1. Good(v) /\ ValidRef(v, ref)
    BY <1>7, <1>8, SameValid DEF Kept
  <2> QED
    BY <2>1, KeepsFreeEntity
<1>11. Kept(r.s, Stopped(r.s, b))
  BY <1>7, KeepsBlockStop
<1>12. \A y : Kept(r.s, y) => y \in Sims /\ Reached(s, y)
  BY <1>7, KeptReached, ReachedTransitive DEF Kept, Good
<1>13. Kept(r.s, FreeEntity(v, ref))
  BY <1>8, <1>10, KeptTransitive
<1>14. r.ok \in BOOLEAN /\ r.s.stop \in BOOLEAN
  BY <1>6, <1>7, SimTypes DEF Reply, Good
<1>15. CASE r.ok
  <2>1. x = [r EXCEPT !.s = w]
    BY <1>2, <1>15 DEF w
  <2>2. x = [ok |-> r.ok, s |-> w]
    BY <1>6, <2>1, ReplyWith
  <2> QED
    BY <1>9, <1>12, <1>14, <2>2 DEF Reply
<1>16. CASE ~r.ok /\ r.s.stop
  BY <1>2, <1>6, <1>7, <1>16
<1>17. CASE ~r.ok /\ ~r.s.stop /\ P(b).policy = "destroy"
  <2>1. x = [ok |-> TRUE, s |-> FreeEntity(v, ref)]
    BY <1>2, <1>17 DEF v
  <2> QED
    BY <1>12, <1>13, <2>1 DEF Reply
<1>18. CASE ~r.ok /\ ~r.s.stop /\ P(b).policy # "destroy"
  <2>1. x = [ok |-> FALSE, s |-> Stopped(r.s, b)]
    BY <1>2, <1>18
  <2> QED
    BY <1>11, <1>12, <2>1 DEF Reply
<1> QED
  BY <1>14, <1>15, <1>16, <1>17, <1>18

\* A batch of n comes to what one entity of it comes to, again and again.
LEMMA CreateManyWithin ==
    ASSUME NEW n \in Nat, NEW b, NEW s, NEW R, [ok |-> TRUE, s |-> s] \in R,
           \A r \in R : r.ok => CreateOne(r.s, b) \subseteq R
    PROVE  CreateMany(s, b, n) \subseteq {r.s : r \in R}
<1> DEFINE A == SUBSET R
           start == Returns(TRUE, s)
           body(i, S) == UNION {IF r.ok THEN CreateOne(r.s, b) ELSE {r} : r \in S}
           step == [c \in (1..n) \X A |-> body(c[1], c[2])]
           Loops(f) == f = [i \in 0..n |-> IF i = 0 THEN start ELSE body(i, f[i - 1])]
           g == CHOOSE f : Loops(f)
<1>0. CreateMany(s, b, n) = {r.s : r \in g[n]}
  BY DEF CreateMany
<1>1. n \in Nat
  OBVIOUS
<1>2. start \in A
  BY DEF Returns
<1>3. ASSUME NEW i \in 1..n, NEW S \in A PROVE body(i, S) \in A
  <2>1. \A r \in S : (IF r.ok THEN CreateOne(r.s, b) ELSE {r}) \subseteq R
    OBVIOUS
  <2> QED
    BY <2>1
<1> HIDE DEF A, body, start
<1>4. step \in [(1..n) \X A -> A]
  BY <1>3
<1>5. PICK f \in [0..n -> A] : IsLoop(f, n, start, step)
  BY <1>1, <1>2, <1>4, LoopExists
<1>6. Loops(f)
  <2>1. \A i \in 1..n : i - 1 \in 0..n /\ f[i - 1] \in A
    <3>1. \A i \in 1..n : i - 1 \in 0..n
      BY <1>1
    <3>2. \A i \in 0..n : f[i] \in A
      BY <1>5
    <3> QED
      BY <3>1, <3>2, Zenon
  <2>2. \A i \in 1..n : f[i] = body(i, f[i - 1])
    BY <1>5, <2>1 DEF IsLoop
  <2>3. f[0] = start
    BY <1>5 DEF IsLoop
  <2> QED
    BY <1>1, <1>5, <2>2, <2>3
<1>7. Loops(g)
  BY <1>6
<1> HIDE DEF g
<1>8. g[0] = start /\ \A i \in 1..n : g[i] = body(i, g[i - 1])
  <2>1. g = [i \in 0..n |-> IF i = 0 THEN start ELSE body(i, g[i - 1])]
    BY <1>7
  <2>2. 0 \in 0..n /\ \A i \in 1..n : i \in 0..n /\ i # 0
    BY <1>1
  <2>3. g[0] = start
    BY <2>1, <2>2
  <2>4. ASSUME NEW i \in 1..n PROVE g[i] = body(i, g[i - 1])
    BY <2>1, <2>2
  <2> QED
    BY <2>3, <2>4
<1>9. \A i \in 0..n : g[i] \in A
  BY <1>1, <1>2, <1>3, <1>8, LoopStays
<1>10. g[n] \in A
  BY <1>1, <1>9
<1> QED
  BY <1>0, <1>10 DEF A

\* So does a batch of whatever size it comes to.
LEMMA CreateBatchWithin ==
    ASSUME Linked, NEW b \in Blocks, Kind(b) = "CREATE", NEW s, NEW R, [ok |-> TRUE, s |-> s] \in R,
           \A r \in R : r.ok => CreateOne(r.s, b) \subseteq R
    PROVE  CreateBatch(s, b) \subseteq {r.s : r \in R}
<1>1. ASSUME NEW n \in P(b).batch PROVE CreateMany(s, b, n) \subseteq {r.s : r \in R}
  <2>1. n \in Nat
    BY CreateParts
  <2> QED
    BY <2>1, CreateManyWithin
<1> QED
  BY <1>1 DEF CreateBatch

\* A batch.
LEMMA CreateBatchReaches ==
    ASSUME NEW s, Good(s), NEW b \in Blocks, Kind(b) = "CREATE", NEW t \in CreateBatch(s, b)
    PROVE  Reached(s, t)
<1> DEFINE R == {r \in Reply : Reached(s, r.s)}
<1>1. Linked
  BY DEF Good
<1>2. [ok |-> TRUE, s |-> s] \in R
  BY ReachedReflexive DEF Reply, Good
<1>3. ASSUME NEW r \in R, NEW x \in CreateOne(r.s, b) PROVE x \in R
  <2>1. Reached(s, r.s) /\ Good(r.s)
    BY DEF Reached
  <2>2. x \in Reply /\ Reached(r.s, x.s)
    BY <1>3, <2>1, CreateOneReaches
  <2> QED
    BY <2>1, <2>2, ReachedTransitive
<1> HIDE DEF R
<1>4. CreateBatch(s, b) \subseteq {r.s : r \in R}
  BY <1>1, <1>2, <1>3, CreateBatchWithin
<1> QED
  BY <1>4 DEF R

\* The next arrival is scheduled.
LEMMA ScheduleCreateReaches ==
    ASSUME NEW s, Good(s), NEW b \in Blocks, Kind(b) = "CREATE", NEW t \in ScheduleCreate(s, b)
    PROVE  Reached(s, t)
<1>1. PICK d \in P(b).interval : t = Schedule(s, d, "create", b, NullRef, 0)
  BY DEF ScheduleCreate
<1>2. d \in Int /\ (Forward => d >= 0)
  BY CreateParts DEF Good, Forward
<1>3. s.clock \in Int
  BY SimTypes DEF Good
<1>4. b \in OfKind("CREATE")
  BY DEF OfKind
<1>5. [time |-> s.clock + d, do |-> "create", block |-> b, ref |-> NullRef, idx |-> 0] \in ValidEvents(s)
  BY <1>2, <1>3, <1>4 DEF ValidEvents, Events
<1>6. Kept(s, t)
  BY <1>1, <1>5, KeepsSchedule
<1> QED
  BY <1>6, KeptReached

\* The handler of an arrival.
LEMMA ArriveReaches ==
    ASSUME NEW s, Good(s), NEW b \in Blocks, Kind(b) = "CREATE", NEW t \in Arrive(s, b)
    PROVE  Reached(s, t)
<1>1. PICK u \in CreateBatch(s, b) : t \in IF u.stop THEN {u} ELSE ScheduleCreate(u, b)
  BY DEF Arrive
<1>2. Reached(s, u) /\ Good(u)
  BY CreateBatchReaches DEF Reached
<1>3. t = u \/ t \in ScheduleCreate(u, b)
  BY <1>1
<1>4. ASSUME t \in ScheduleCreate(u, b) PROVE Reached(s, t)
  BY <1>2, <1>4, ScheduleCreateReaches, ReachedTransitive
<1> QED
  BY <1>2, <1>3, <1>4

\* The start comes to what one CREATE block comes to, again and again.
LEMMA StartAllWithin ==
    ASSUME Linked, NEW s, NEW R, s \in R,
           \A u \in R : \A b \in Blocks : Kind(b) = "CREATE" => StartCreate(u, b) \subseteq R
    PROVE  StartAll(s) \subseteq R
<1> DEFINE order == program.order
           n == Len(order)
           A == SUBSET R
           start == {s}
           body(i, S) == UNION {IF Kind(order[i]) = "CREATE" THEN StartCreate(u, order[i]) ELSE {u} : u \in S}
           step == [c \in (1..n) \X A |-> body(c[1], c[2])]
           Loops(f) == f = [i \in 0..n |-> IF i = 0 THEN start ELSE body(i, f[i - 1])]
           g == CHOOSE f : Loops(f)
<1>0. StartAll(s) = g[n]
  BY DEF StartAll
<1>1. n \in Nat /\ \A i \in 1..n : order[i] \in Blocks
  <2>1. order \in Seq(Blocks)
    BY ModelTypes DEF WellTyped, Blocks
  <2> QED
    BY <2>1
<1>2. start \in A
  OBVIOUS
<1>3. ASSUME NEW i \in 1..n, NEW S \in A PROVE body(i, S) \in A
  <2> DEFINE b == order[i]
  <2>1. b \in Blocks
    BY <1>1
  <2> HIDE DEF b
  <2>2. \A u \in S : (IF Kind(b) = "CREATE" THEN StartCreate(u, b) ELSE {u}) \subseteq R
    BY <2>1
  <2> QED
    BY <2>2 DEF b
<1> HIDE DEF A, body, start, order
<1>4. step \in [(1..n) \X A -> A]
  BY <1>3
<1>5. PICK f \in [0..n -> A] : IsLoop(f, n, start, step)
  BY <1>1, <1>2, <1>4, LoopExists
<1>6. Loops(f)
  <2>1. \A i \in 1..n : i - 1 \in 0..n /\ f[i - 1] \in A
    <3>1. \A i \in 1..n : i - 1 \in 0..n
      BY <1>1
    <3>2. \A i \in 0..n : f[i] \in A
      BY <1>5
    <3> QED
      BY <3>1, <3>2, Zenon
  <2>2. \A i \in 1..n : f[i] = body(i, f[i - 1])
    BY <1>5, <2>1 DEF IsLoop
  <2>3. f[0] = start
    BY <1>5 DEF IsLoop
  <2> QED
    BY <1>1, <1>5, <2>2, <2>3
<1>7. Loops(g)
  BY <1>6
<1> HIDE DEF g, n
<1>8. g[0] = start /\ \A i \in 1..n : g[i] = body(i, g[i - 1])
  <2>1. g = [i \in 0..n |-> IF i = 0 THEN start ELSE body(i, g[i - 1])]
    BY <1>7
  <2>2. 0 \in 0..n /\ \A i \in 1..n : i \in 0..n /\ i # 0
    BY <1>1
  <2>3. g[0] = start
    BY <2>1, <2>2
  <2>4. ASSUME NEW i \in 1..n PROVE g[i] = body(i, g[i - 1])
    BY <2>1, <2>2
  <2> QED
    BY <2>3, <2>4
<1>9. \A i \in 0..n : g[i] \in A
  BY <1>1, <1>2, <1>3, <1>8, LoopStays
<1>10. g[n] \in A
  BY <1>1, <1>9
<1> QED
  BY <1>0, <1>10 DEF A

\* The start of all CREATE blocks.
LEMMA StartAllReaches ==
    ASSUME NEW s, Good(s), NEW t \in StartAll(s)
    PROVE  Reached(s, t)
<1> DEFINE R == {u \in Sims : Reached(s, u)}
<1>1. Linked /\ s \in R
  BY ReachedReflexive DEF Good
<1>2. ASSUME NEW u \in R, NEW b \in Blocks, Kind(b) = "CREATE", NEW x \in StartCreate(u, b)
      PROVE  x \in R
  <2>1. Reached(s, u) /\ Good(u)
    BY DEF Reached
  <2>2. x \in Arrive(u, b) \/ x \in ScheduleCreate(u, b)
    BY <1>2 DEF StartCreate
  <2>3. Reached(u, x)
    BY <1>2, <2>1, <2>2, ArriveReaches, ScheduleCreateReaches
  <2>4. Reached(s, x)
    BY <2>1, <2>3, ReachedTransitive
  <2> QED
    BY <2>4 DEF Reached, Good
<1> HIDE DEF R
<1>3. StartAll(s) \subseteq R
  BY <1>1, <1>2, StartAllWithin
<1> QED
  BY <1>3 DEF R

------------------------------------------------------------------------------
(* The handlers of the other events, and the loop.                         *)

\* A delay that has let an entity go.
Left(s, b) == [Counted(s, b, "exitN") EXCEPT !.count[b].held = IF @ > 0 THEN @ - 1 ELSE @]

\* A delay lets an entity go.
LEMMA KeepsLeft ==
    ASSUME NEW s, Good(s), NEW b \in Blocks, Kind(b) = "DELAY"
    PROVE  Kept(s, Left(s, b))
<1> DEFINE u == Counted(s, b, "exitN")
           m == u.count[b].held
           n == IF m > 0 THEN m - 1 ELSE m
           t == [u EXCEPT !.count[b].held = n]
<1>0. Left(s, b) = t
  BY DEF Left
<1>1. "exitN" \in Tallies
  BY DEF CounterNames, Tallies
<1>2. Kept(s, u)
  BY <1>1, KeepsCounted
<1> HIDE DEF u
<1>3. Good(u)
  BY <1>2 DEF Kept
<1>4. m \in Nat /\ Fits(b, m)
  BY <1>3, SimTypes DEF Good, WithinCapacity
<1> HIDE DEF m
<1>5. n \in Nat /\ n <= m
  BY <1>4
<1> HIDE DEF n
<1>6. Fits(b, n)
  BY <1>3, <1>4, <1>5, FewerFit DEF Good
<1>7. Kept(u, t)
  BY <1>3, <1>5, <1>6, KeepsHeld
<1> QED
  BY <1>0, <1>2, <1>7, KeptTransitive

\* The end of a delay.
LEMMA DelayEndsKeeps ==
    ASSUME NEW s, Good(s), NEW b \in Blocks, Kind(b) = "DELAY", NEW ref, ValidRef(s, ref),
           NEW t \in DelayEnds(s, b, ref)
    PROVE  Kept(s, t)
<1>0. Linked /\ P(b).next \in Blocks /\ P(b).waitQueues \in Seq(OfKind("QUEUE"))
  BY DelayParts DEF Good, Queues
<1>1. PICK r \in Call[<<s, P(b).next, ref>>] :
         t \in CASE r.ok -> {w.s : w \in WakeFirst(Call, Returns(FALSE, Left(r.s, b)), P(b).waitQueues)}
                 [] ~r.ok /\ r.s.stop -> {r.s}
                 [] OTHER -> {Stopped(r.s, b)}
  BY DEF DelayEnds, Left
<1>2. r \in Reply /\ Kept(s, r.s)
  BY <1>0, <1>1, CallAnswers DEF Answers
<1>3. Good(r.s) /\ r.ok \in BOOLEAN /\ r.s.stop \in BOOLEAN
  BY <1>2, SimTypes DEF Kept, Reply, Good
<1>4. CASE r.ok
  <2> DEFINE u == Left(r.s, b)
             R == {x \in Reply : Kept(u, x.s)}
  <2>1. PICK w \in WakeFirst(Call, Returns(FALSE, u), P(b).waitQueues) : t = w.s
    BY <1>1, <1>4
  <2>2. Kept(r.s, u) /\ Good(u) /\ u \in Sims
    BY <1>3, KeepsLeft DEF Kept, Good
  <2> HIDE DEF u
  <2>3. Returns(FALSE, u) \in SUBSET R
    BY <2>2, KeptReflexive DEF Returns, Reply
  <2>4. ASSUME NEW x \in R, NEW q \in OfKind("QUEUE"), NEW y \in TryAdvance(Call, x.s, q)
        PROVE  y \in R
    <3>1. Good(x.s) /\ q \in Blocks /\ Kind(q) = "QUEUE"
      BY DEF Kept, OfKind
    <3>2. y \in Reply /\ Kept(x.s, y.s)
      BY <1>0, <3>1, CallAnswers, TryAdvanceKeeps
    <3> QED
      BY <3>2, KeptTransitive
  <2> HIDE DEF R
  <2>5. \A x \in R : ~x.ok => \A q \in OfKind("QUEUE") : TryAdvance(Call, x.s, q) \subseteq R
    BY <2>4
  <2>6. WakeFirst(Call, Returns(FALSE, u), P(b).waitQueues) \subseteq R
    BY <1>0, <2>3, <2>5, WakeFirstWithin
  <2>7. Kept(u, w.s)
    BY <2>1, <2>6 DEF R
  <2> QED
    BY <1>2, <2>1, <2>2, <2>7, KeptTransitive
<1>5. CASE ~r.ok /\ r.s.stop
  BY <1>1, <1>2, <1>5
<1>6. CASE ~r.ok /\ ~r.s.stop
  <2>1. t = Stopped(r.s, b)
    BY <1>1, <1>6
  <2> QED
    BY <1>2, <1>3, <2>1, KeepsBlockStop, KeptTransitive
<1> QED
  BY <1>3, <1>4, <1>5, <1>6

\* The slot a timeout finds is one of the queue, and the entity in it one of
\* its pool.
LEMMA FoundSlot ==
    ASSUME NEW s, Good(s), NEW b \in Blocks, NEW idx \in Nat, QueueFind(s, b, idx) # 0
    PROVE  LET pos == QueueFind(s, b, idx)
           IN  /\ pos \in DOMAIN s.arr[b] /\ s.arr[b][pos].valid
               /\ ValidRef(s, s.arr[b][pos].ref)
<1> DEFINE a == s.arr[b]
           o == s.total[b]
           n == Len(a)
           p == idx - (o - n) + 1
<1>1. a \in Seq(ValidSlots(s)) /\ o \in Nat
  BY SimTypes DEF Good, SlotsValid
<1>2. n \in Nat /\ DOMAIN a = 1..n
  BY <1>1
<1>3. /\ QueueFind(s, b, idx) = p
      /\ idx >= o - n /\ p <= n /\ a[p].valid
  BY DEF QueueFind
<1>4. p \in 1..n
  <2>1. idx >= o - n /\ p <= n /\ o \in Nat /\ n \in Nat
    BY <1>1, <1>2, <1>3
  <2> HIDE DEF o, n
  <2> QED
    BY <2>1
<1> HIDE DEF p
<1>5. p \in DOMAIN a /\ a[p] \in ValidSlots(s)
  BY <1>1, <1>2, <1>4
<1> QED
  BY <1>3, <1>5 DEF ValidSlots

\* A timeout.
LEMMA TimesOutKeeps ==
    ASSUME NEW s, Good(s), NEW b \in Blocks, Kind(b) = "QUEUE", P(b).hasTimeout, NEW idx \in Nat,
           NEW t \in TimesOut(s, b, idx)
    PROVE  Kept(s, t)
<1> DEFINE pos == QueueFind(s, b, idx)
           v == QueueGet(s, b, pos)
           u == Counted(v, b, "timeoutN")
           ref == s.arr[b][pos].ref
<1>0. Linked /\ P(b).nextTimeout \in Blocks
  BY QueueParts DEF Good
<1>1. CASE pos = 0
  BY <1>1, KeptReflexive DEF TimesOut
<1>2. CASE pos # 0
  <2>1. pos \in DOMAIN s.arr[b] /\ s.arr[b][pos].valid /\ ValidRef(s, ref)
    BY <1>2, FoundSlot
  <2>2. PICK r \in Call[<<u, P(b).nextTimeout, ref>>] :
           t = IF r.ok \/ r.s.stop THEN r.s ELSE Stopped(r.s, b)
    BY <1>2 DEF TimesOut
  <2> HIDE DEF pos
  <2>3. Kept(s, v)
    BY <2>1, KeepsQueueGet
  <2> HIDE DEF v
  <2>4. "timeoutN" \in Tallies
    BY DEF CounterNames, Tallies
  <2>5. Good(v)
    BY <2>3 DEF Kept
  <2>6. Kept(v, u)
    BY <2>4, <2>5, KeepsCounted
  <2>7. Kept(s, u) /\ Good(u)
    BY <2>3, <2>6, KeptTransitive DEF Kept
  <2>8. ValidRef(u, ref)
    BY <2>1, <2>7, SameValid DEF Kept
  <2> HIDE DEF u, ref
  <2>9. r \in Reply /\ Kept(u, r.s)
    BY <1>0, <2>2, <2>7, <2>8, CallAnswers DEF Answers
  <2>10. Kept(s, r.s) /\ Good(r.s)
    BY <2>7, <2>9, KeptTransitive DEF Kept
  <2>11. Kept(s, Stopped(r.s, b))
    BY <2>10, KeepsBlockStop, KeptTransitive
  <2> QED
    BY <2>2, <2>10, <2>11
<1> QED
  BY <1>1, <1>2

\* Every handler.
LEMMA HandleReaches ==
    ASSUME NEW s, Good(s), NEW v \in ValidEvents(s), NEW t \in Handle(s, v)
    PROVE  Reached(s, t)
<1>1. CASE v.do = "create"
  <2>1. v.block \in Blocks /\ Kind(v.block) = "CREATE"
    BY <1>1 DEF ValidEvents, Events, OfKind
  <2> QED
    BY <1>1, <2>1, ArriveReaches DEF Handle
<1>2. CASE v.do = "delay"
  <2>1. v.block \in Blocks /\ Kind(v.block) = "DELAY" /\ ValidRef(s, v.ref)
    BY <1>2 DEF ValidEvents, Events, OfKind
  <2>2. t \in DelayEnds(s, v.block, v.ref)
    BY <1>2 DEF Handle
  <2> QED
    BY <2>1, <2>2, DelayEndsKeeps, KeptReached
<1>3. CASE v.do = "timeout"
  <2>1. v.block \in Blocks /\ Kind(v.block) = "QUEUE" /\ P(v.block).hasTimeout /\ v.idx \in Nat
    BY <1>3 DEF ValidEvents, Events, OfKind
  <2>2. t \in TimesOut(s, v.block, v.idx)
    BY <1>3 DEF Handle
  <2> QED
    BY <2>1, <2>2, TimesOutKeeps, KeptReached
<1> QED
  BY <1>1, <1>2, <1>3 DEF ValidEvents, Events

\* What is valid depends on the clock and the pools only.
LEMMA ValidDepends ==
    ASSUME NEW s, NEW t, t.clock = s.clock, t.pool = s.pool
    PROVE  ValidEvents(t) = ValidEvents(s) /\ ValidSlots(t) = ValidSlots(s)
  BY DEF ValidEvents, ValidSlots, ValidRef

\* Other numbers of the metrics.
LEMMA KeepsMetrics ==
    ASSUME NEW s, Good(s), NEW n \in Nat, NEW at \in Int
    PROVE  LET t == [s EXCEPT !.stats = n, !.nextMetricAt = at]
           IN  /\ Good(t) /\ Differ(s, t, {"stats", "nextMetricAt"})
               /\ t.stats = n /\ t.nextMetricAt = at
<1> DEFINE t == [s EXCEPT !.stats = n, !.nextMetricAt = at]
<1>1. /\ t \in Sims /\ Differ(s, t, {"stats", "nextMetricAt"})
      /\ t.stats = n /\ t.nextMetricAt = at
  BY DEF Good, Sims, Differ, SimFields
<1> HIDE DEF t
<1>2. /\ t.clock = s.clock /\ t.pool = s.pool /\ t.stop = s.stop /\ t.reason = s.reason
      /\ t.events = s.events /\ t.arr = s.arr /\ t.resource = s.resource /\ t.count = s.count
  BY <1>1 DEF Differ, SimFields
<1>3. Good(t)
  BY <1>1, <1>2, ValidDepends
     DEF Good, GivesReason, WithinCapacity, FreeValid, SlotsValid, EventsValid
<1> QED
  BY <1>1, <1>3 DEF t

\* The globals when the handler of the earliest event is called.
Popping(s) == [s EXCEPT !.clock = Head(s.events).time, !.events = Popped(s.events)]

\* The earliest event is taken off the queue.  None is left that is due before it.
LEMMA PoppingGood ==
    ASSUME NEW s, Good(s), s.events # <<>>
    PROVE  /\ Good(Popping(s)) /\ Head(s.events) \in ValidEvents(Popping(s))
           /\ Differ(s, Popping(s), {"clock", "events"})
           /\ Popping(s).clock = Head(s.events).time
           /\ Popping(s).events = Popped(s.events)
<1> DEFINE q == s.events
           v == Head(q)
           t == Popping(s)
           E == {e \in ValidEvents(s) : e.time >= v.time}
<1>1. q \in Seq(ValidEvents(s)) /\ IsHeap(q) /\ q # <<>> /\ s \in Sims
  BY DEF Good, EventsValid
<1>2. Timed(ValidEvents(s)) /\ Timed(E)
  BY DEF Timed, ValidEvents, Events
<1>3. /\ Len(q) \in Nat \ {0} /\ DOMAIN q = 1..Len(q) /\ v = q[1]
      /\ \A i \in DOMAIN q : q[i] \in ValidEvents(s)
  BY <1>1
<1>4. \A i \in DOMAIN q : v.time <= q[i].time
  <2> HIDE DEF q, v
  <2> QED
    BY <1>1, <1>2, HeadIsEarliest DEF v
<1>5. \A i \in DOMAIN q : q[i] \in E
  <2>1. \A e \in ValidEvents(s) : e.time \in Int
    BY <1>2 DEF Timed
  <2> QED
    BY <1>3, <1>4, <2>1
<1> HIDE DEF E
<1>6. q \in Seq(E) /\ v \in E
  BY <1>1, <1>3, <1>5
<1>7. Popped(q) \in Seq(E) /\ IsHeap(Popped(q))
  <2> HIDE DEF q
  <2> QED
    BY <1>1, <1>2, <1>6, PoppedFacts
<1>8. E \subseteq Events /\ v.time \in Int
  BY <1>6 DEF E, ValidEvents, Events
<1>9. Popped(q) \in Seq(Events)
  BY <1>7, <1>8
<1> DEFINE now == v.time
           rest == Popped(q)
<1>10. t = [s EXCEPT !.clock = now, !.events = rest]
  BY DEF Popping
<1> HIDE DEF v, q, now, rest
<1>11. now \in Int /\ rest \in Seq(Events)
  BY <1>8, <1>9 DEF now, rest
<1>12. t \in Sims /\ Differ(s, t, {"clock", "events"}) /\ t.clock = now /\ t.events = rest
  <2> HIDE DEF t
  <2> QED
    BY <1>1, <1>10, <1>11 DEF Sims, Differ, SimFields
<1> HIDE DEF t
<1>13. /\ t.pool = s.pool /\ t.stop = s.stop /\ t.reason = s.reason
       /\ t.arr = s.arr /\ t.resource = s.resource /\ t.count = s.count
  BY <1>12 DEF Differ, SimFields
<1>14. E \subseteq ValidEvents(t)
  BY <1>12, <1>13 DEF E, ValidEvents, ValidRef, now
<1>15. ValidSlots(t) = ValidSlots(s)
  BY <1>13 DEF ValidSlots, ValidRef
<1>16. EventsValid(t)
  BY <1>7, <1>12, <1>14 DEF EventsValid, rest
<1>17. Good(t)
  BY <1>12, <1>13, <1>15, <1>16 DEF Good, GivesReason, WithinCapacity, FreeValid, SlotsValid
<1> QED
  BY <1>6, <1>12, <1>14, <1>17 DEF t, v, q, now, rest

\* Division by the metric step.
LEMMA DivFacts ==
    ASSUME NEW m \in Nat \ {0}, NEW n \in Int
    PROVE  n \div m \in Int /\ m * (n \div m) <= n /\ n < m * ((n \div m) + 1)
  OBVIOUS

\* A number between two multiples.
LEMMA BetweenMultiples ==
    ASSUME NEW m \in Nat \ {0}, NEW n \in Int, NEW k \in Int, NEW j \in Int, m * k <= n, n < m * (j + 1)
    PROVE  k <= j
<1> SUFFICES ASSUME k >= j + 1 PROVE FALSE
  OBVIOUS
<1>1. m * (j + 1) <= m * k
  OBVIOUS
<1> QED
  BY <1>1

\* The quotient is where the number lies.
LEMMA DivUnique ==
    ASSUME NEW m \in Nat \ {0}, NEW n \in Int, NEW k \in Int, m * k <= n, n < m * (k + 1)
    PROVE  n \div m = k
<1>1. n \div m \in Int /\ m * (n \div m) <= n /\ n < m * ((n \div m) + 1)
  BY DivFacts
<1> QED
  BY <1>1, BetweenMultiples

\* The next point of the metrics is the first the clock has not reached.
Aligned(s) == s.nextMetricAt = MetricStep * (s.clock \div MetricStep + 1)

\* The sampling of the metrics, for a clock that has not gone back.
LEMMA SampledFacts ==
    ASSUME NEW s, Good(s), NEW before \in Int, before <= s.clock,
           s.nextMetricAt = MetricStep * (before \div MetricStep + 1)
    PROVE  LET t == Sampled(s)
           IN  /\ t.clock = s.clock /\ Aligned(t)
               /\ t.stats - s.stats =
                     IF s.clock \div MetricStep > before \div MetricStep THEN 1 ELSE 0
<1> DEFINE M == MetricStep
           c == s.clock
           k == before \div M
           j == c \div M
           at == s.nextMetricAt
           t == Sampled(s)
<1>1. M \in Nat \ {0} /\ c \in Int /\ s.stats \in Nat /\ at \in Int /\ s \in Sims
  BY SimulationAssumption, SimTypes DEF Good
<1>2. /\ k \in Int /\ M * k <= before /\ before < M * (k + 1)
      /\ j \in Int /\ M * j <= c /\ c < M * (j + 1)
  BY <1>1, DivFacts
<1>3. at = M * (k + 1) /\ before \in Int /\ before <= c
  OBVIOUS
<1>4. k <= j
  <2>1. M * k <= c
    BY <1>1, <1>2, <1>3
  <2> HIDE DEF M, c, k, j, at
  <2> QED
    BY <1>1, <1>2, <2>1, BetweenMultiples
<1>5. CASE c < at
  <2>1. t = s
    BY <1>1, <1>5 DEF Sampled
  <2> HIDE DEF M, c, k, j, at, t
  <2>2. j <= k
    BY <1>1, <1>2, <1>3, <1>5, BetweenMultiples
  <2>3. j = k
    BY <1>2, <1>4, <2>2
  <2>4. at = M * (j + 1)
    BY <1>3, <2>3
  <2>5. s.stats - s.stats = 0 /\ ~(j > k)
    BY <1>1, <1>2, <2>3
  <2> QED
    BY <2>1, <2>4, <2>5 DEF Aligned, M, c, k, j, at, t
<1>6. CASE ~(c < at)
  <2> DEFINE n == s.stats + 1
             next == at + M * ((c - at) \div M + 1)
  <2>1. t = [s EXCEPT !.stats = n, !.nextMetricAt = next]
    BY <1>6 DEF Sampled
  <2>2. (c - at) \div M = j - (k + 1)
    <3> HIDE DEF M, c, k, j, at
    <3> DEFINE d == j - (k + 1)
    <3>1. d \in Int /\ c - at \in Int
      BY <1>1, <1>2
    <3>2. M * d = M * j - M * (k + 1) /\ M * (d + 1) = M * (j + 1) - M * (k + 1)
      BY <1>1, <1>2
    <3>3. M * j \in Int /\ M * (j + 1) \in Int /\ M * (k + 1) \in Int
      BY <1>1, <1>2
    <3>4. M * d <= c - at /\ c - at < M * (d + 1)
      BY <1>1, <1>2, <1>3, <3>2, <3>3
    <3> HIDE DEF d
    <3>5. (c - at) \div M = d
      BY <1>1, <3>1, <3>4, DivUnique
    <3> QED
      BY <3>5 DEF d
  <2>3. k + 1 <= j
    <3> HIDE DEF M, c, k, j, at
    <3>1. M * (k + 1) <= c /\ k + 1 \in Int
      BY <1>1, <1>2, <1>3, <1>6
    <3> QED
      BY <1>1, <1>2, <3>1, BetweenMultiples
  <2>4. next = M * (j + 1)
    <3> HIDE DEF M, c, k, j, at
    <3>1. next = M * (k + 1) + M * (j - (k + 1) + 1)
      BY <1>3, <2>2
    <3> QED
      BY <1>1, <1>2, <3>1
  <2> HIDE DEF n, next
  <2>5. t.clock = c /\ t.stats = n /\ t.nextMetricAt = next
    BY <1>1, <2>1 DEF Sims
  <2>6. n - s.stats = 1 /\ j > k
    BY <1>1, <1>2, <2>3 DEF n
  <2>7. Aligned(t)
    <3> HIDE DEF t
    <3> QED
      BY <2>4, <2>5 DEF Aligned
  <2>8. t.stats - s.stats = 1
    BY <2>5, <2>6
  <2> QED
    BY <2>5, <2>6, <2>7, <2>8
<1> QED
  BY <1>5, <1>6

\* Sampling keeps the invariant, whatever the clock did.
LEMMA SampledGood ==
    ASSUME NEW s, Good(s)
    PROVE  Good(Sampled(s)) /\ Sampled(s).clock = s.clock /\ (s.stop => Sampled(s).stop)
<1> DEFINE n == s.stats + 1
           next == s.nextMetricAt + MetricStep * ((s.clock - s.nextMetricAt) \div MetricStep + 1)
           t == [s EXCEPT !.stats = n, !.nextMetricAt = next]
<1>1. MetricStep \in Nat \ {0} /\ s.clock \in Int /\ s.nextMetricAt \in Int /\ s.stats \in Nat
  BY SimulationAssumption, SimTypes DEF Good
<1>2. n \in Nat
  BY <1>1
<1>3. next \in Int
  <2> DEFINE d == (s.clock - s.nextMetricAt) \div MetricStep
  <2>1. s.clock - s.nextMetricAt \in Int
    BY <1>1
  <2>2. d \in Int
    BY <1>1, <2>1, DivFacts
  <2> HIDE DEF d
  <2> QED
    BY <1>1, <2>2 DEF d
<1>4. Sampled(s) = s \/ Sampled(s) = t
  BY DEF Sampled
<1> HIDE DEF n, next
<1>5. Good(t) /\ Differ(s, t, {"stats", "nextMetricAt"})
  BY <1>2, <1>3, KeepsMetrics
<1> HIDE DEF t
<1>6. t.clock = s.clock /\ t.stop = s.stop
  BY <1>5 DEF Differ, SimFields
<1> QED
  BY <1>4, <1>5, <1>6

\* The stop rule keeps the invariant.
LEMMA StopRuleKeeps ==
    ASSUME NEW s, Good(s)
    PROVE  Kept(s, StopRuleApplied(s))
<1> DEFINE why == "stop_rule"
<1>1. why \in Reasons /\ why # ""
  BY DEF Reasons
<1>2. StopRuleApplied(s) = s \/ StopRuleApplied(s) = Stopped(s, why)
  BY DEF StopRuleApplied
<1> HIDE DEF why
<1>3. Kept(s, Stopped(s, why))
  BY <1>1, KeepsStop
<1> QED
  BY <1>2, <1>3, KeptReflexive

------------------------------------------------------------------------------
(* The invariant of the process.                                           *)

IInv ==
    /\ phase \in {"configured", "running", "ended"}
    /\ Good(sim)

\* The globals initModel leaves.
LEMMA InitGood ==
    ASSUME Linked, NEW s, s = InitModel(program)
    PROVE  Good(s) /\ Aligned(s)
<1> DEFINE m == program
           Resources == DOMAIN m.capacity
<1>1. /\ m.vars \in [DOMAIN m.vars -> Int] /\ MetricStep \in Nat \ {0}
      /\ \A r \in Resources : m.capacity[r] \in Nat
  BY ModelTypes, SimulationAssumption DEF WellTyped
<1>2. ZeroCount \in Counters /\ ZeroCount.held = 0
  BY DEF ZeroCount, Counters
<1>3. EmptyPool \in Pool /\ EmptyPool.free = <<>>
  BY DEF EmptyPool, Pool
<1>4. <<>> \in Seq(Events) /\ <<>> \in Seq(Slots)
  OBVIOUS
<1> DEFINE unused == [busy |-> 0, seizeN |-> 0, releaseN |-> 0]
           no == ""
<1>5. s = [clock |-> 0, events |-> <<>>, stop |-> FALSE, reason |-> no,
           pool |-> [e \in EntityTypes |-> EmptyPool], vars |-> m.vars,
           resource |-> [r \in Resources |-> unused],
           count |-> [b \in Blocks |-> ZeroCount],
           arr |-> [b \in Blocks |-> <<>>], total |-> [b \in Blocks |-> 0],
           nextMetricAt |-> MetricStep, stats |-> 0]
  BY DEF InitModel, EntityTypes, Blocks
<1>6. unused \in Uses /\ unused.busy = 0 /\ no \in Reasons
  BY DEF Uses, Reasons
<1> HIDE DEF unused, no
<1>7. /\ s.clock = 0 /\ s.nextMetricAt = MetricStep /\ s.events = <<>> /\ s.stop = FALSE
      /\ \A e \in EntityTypes : s.pool[e] = EmptyPool
      /\ \A b \in Blocks : s.count[b] = ZeroCount /\ s.arr[b] = <<>>
      /\ \A r \in Resources : s.resource[r] = unused
  BY <1>5
<1>8. s \in Sims
  <2>1. /\ [r \in Resources |-> unused] \in [Resources -> Uses]
        /\ [e \in EntityTypes |-> EmptyPool] \in [EntityTypes -> Pool]
        /\ [b \in Blocks |-> ZeroCount] \in [Blocks -> Counters]
    BY <1>2, <1>3, <1>6
  <2>2. /\ [b \in Blocks |-> <<>>] \in [Blocks -> Seq(Slots)]
        /\ [b \in Blocks |-> 0] \in [Blocks -> Nat]
    BY <1>4
  <2>3. 0 \in Int /\ 0 \in Nat /\ MetricStep \in Int /\ FALSE \in BOOLEAN
    BY <1>1
  <2> HIDE DEF m
  <2> QED
    BY <1>1, <1>4, <1>5, <1>6, <2>1, <2>2, <2>3 DEF Sims, m
<1>9. WithinCapacity(s)
  <2>1. ASSUME NEW b \in Blocks PROVE Fits(b, 0)
    BY DEF Fits
  <2>2. \A b \in Blocks : s.count[b].held = 0
    BY <1>2, <1>7
  <2>3. \A r \in Resources : s.resource[r].busy = 0 /\ 0 <= m.capacity[r]
    BY <1>1, <1>6, <1>7
  <2> QED
    BY <2>1, <2>2, <2>3 DEF WithinCapacity
<1>10. FreeValid(s)
  <2>1. \A e \in EntityTypes : s.pool[e].free = <<>>
    BY <1>3, <1>7
  <2>2. ToSet(<<>>) = {}
    BY DEF ToSet
  <2> QED
    BY <2>1, <2>2 DEF FreeValid
<1>11. SlotsValid(s)
  <2>1. <<>> \in Seq(ValidSlots(s))
    OBVIOUS
  <2> QED
    BY <1>7, <2>1 DEF SlotsValid
<1>12. EventsValid(s)
  <2>1. <<>> \in Seq(ValidEvents(s))
    OBVIOUS
  <2> QED
    BY <1>7, <2>1 DEF EventsValid, IsHeap
<1>13. GivesReason(s)
  BY <1>7 DEF GivesReason
<1>14. Aligned(s)
  <2>1. 0 \div MetricStep = 0
    <3>1. MetricStep * 0 <= 0 /\ 0 < MetricStep * (0 + 1)
      BY <1>1
    <3> QED
      BY <1>1, <3>1, DivUnique
  <2> QED
    BY <1>1, <1>7, <2>1 DEF Aligned
<1> QED
  BY <1>8, <1>9, <1>10, <1>11, <1>12, <1>13, <1>14 DEF Good

\* What a round of the loop leaves.
LEMMA StepGood ==
    ASSUME Good(sim), Step
    PROVE  Good(sim')
<1>1. PICK s \in Handle(Popping(sim), Head(sim.events)) : sim' = StopRuleApplied(Sampled(s))
  BY DEF Step, NothingToDo, Popping
<1>2. sim.events # <<>>
  BY DEF Step, NothingToDo
<1>3. Good(Popping(sim)) /\ Head(sim.events) \in ValidEvents(Popping(sim))
  BY <1>2, PoppingGood
<1>4. Good(s)
  BY <1>1, <1>3, HandleReaches DEF Reached
<1>5. Good(Sampled(s))
  BY <1>4, SampledGood
<1> QED
  BY <1>1, <1>5, StopRuleKeeps DEF Kept

\* What the end leaves.
LEMMA EndGood ==
    ASSUME Good(sim), End
    PROVE  Good(sim')
<1> DEFINE why == "empty_event_queue"
           n == sim.stats + 1
           s == [sim EXCEPT !.reason = IF sim.reason = "" THEN why ELSE sim.reason, !.stats = n]
<1>0. sim' = s
  BY DEF End
<1>1. why \in Reasons /\ why # ""
  BY DEF Reasons
<1>2. sim \in Sims /\ sim.reason \in Reasons /\ n \in Nat
  BY SimTypes DEF Good
<1> HIDE DEF why, n
<1>3. s \in Sims /\ Differ(sim, s, {"reason", "stats"}) /\ s.reason # ""
  BY <1>1, <1>2 DEF Sims, Differ, SimFields
<1> HIDE DEF s
<1>4. /\ s.clock = sim.clock /\ s.pool = sim.pool /\ s.events = sim.events
      /\ s.arr = sim.arr /\ s.resource = sim.resource /\ s.count = sim.count
  BY <1>3 DEF Differ, SimFields
<1>5. Good(s)
  BY <1>3, <1>4, ValidDepends
     DEF Good, GivesReason, WithinCapacity, FreeValid, SlotsValid, EventsValid
<1> QED
  BY <1>0, <1>5

\* The invariant speaks of the text, which does not change.
LEMMA GoodPrimed ==
    ASSUME program' = program, Good(sim')
    PROVE  Good(sim)'
<1>1. Sims' = Sims
  BY DEF Sims, Events, Refs, OfKind, EntityTypes, Slots, Pool, FieldNames, Counters, Uses, Reasons,
         Blocks, Kind, P, Models
<1>2. Blocks' = Blocks /\ EntityTypes' = EntityTypes /\ Models' = Models
  BY DEF Blocks, EntityTypes, Models
<1>3. ValidEvents(sim)' = ValidEvents(sim')
  BY DEF ValidEvents, ValidRef, Forward, Events, Refs, OfKind, EntityTypes, Blocks, Kind, P, Models
<1>4. ValidSlots(sim)' = ValidSlots(sim')
  BY DEF ValidSlots, ValidRef, Slots, Refs, EntityTypes, Models
<1>5. WithinCapacity(sim)'
  BY DEF WithinCapacity, Fits, Bounded, Good, Blocks, Kind, P, Models
<1>6. Linked'
  BY DEF Good, Linked, Models
<1> QED
  BY <1>1, <1>2, <1>3, <1>4, <1>5, <1>6
     DEF Good, GivesReason, FreeValid, SlotsValid, EventsValid

\* The invariant holds at the start, and every step keeps it.
LEMMA IInvInit == Init => IInv
<1> SUFFICES ASSUME Init PROVE IInv
  OBVIOUS
<1>1. Linked
  BY DEF Init, Linked
<1> QED
  BY <1>1, InitGood DEF Init, IInv

\* Every step of the program keeps the invariant.
LEMMA IInvNext == IInv /\ [Next]_vars => IInv'
<1> SUFFICES ASSUME IInv, [Next]_vars PROVE IInv'
  OBVIOUS
<1>1. Good(sim)
  BY DEF IInv
<1>2. CASE Start
  <2>1. Good(sim')
    BY <1>1, <1>2, StartAllReaches DEF Start, Reached
  <2> QED
    BY <1>2, <2>1, GoodPrimed DEF Start, IInv
<1>3. CASE Step
  BY <1>1, <1>3, StepGood, GoodPrimed DEF Step, IInv
<1>4. CASE End
  BY <1>1, <1>4, EndGood, GoodPrimed DEF End, IInv
<1>5. CASE UNCHANGED vars
  <2>1. program' = program /\ sim' = sim /\ phase' = phase
    BY <1>5 DEF vars
  <2>2. Good(sim')
    BY <1>1, <2>1
  <2> QED
    BY <2>1, <2>2, GoodPrimed DEF IInv
<1> QED
  BY <1>2, <1>3, <1>4, <1>5 DEF Next

\* The invariant holds in every state.
LEMMA IInvHolds == Spec => []IInv
  BY IInvInit, IInvNext, PTL DEF Spec

\* The globals of a process are what the emitter declares them to be, whatever
\* text it was generated from: an index in a queue or on a free list is one of the
\* pool, and a run that stopped says why.  A capacity is evaluated at each entry,
\* so what a block holds may exceed the value the next entry finds; it always fits
\* some value the capacity may come to, which for a literal is the capacity itself.
THEOREM TypeCorrect == Spec => []TypeOK
<1>1. IInv => TypeOK
  <2> SUFFICES ASSUME IInv PROVE TypeOK
    OBVIOUS
  <2>1. Good(sim)
    BY DEF IInv
  <2>2. \A b \in Blocks : \A i \in DOMAIN sim.arr[b] :
           LET ref == sim.arr[b][i].ref IN ref.idx \in DOMAIN sim.pool[ref.type].entities
    <3> SUFFICES ASSUME NEW b \in Blocks, NEW i \in DOMAIN sim.arr[b]
                 PROVE  sim.arr[b][i] \in ValidSlots(sim)
      BY DEF ValidSlots, ValidRef
    <3>1. sim.arr[b] \in Seq(ValidSlots(sim))
      BY <2>1 DEF Good, SlotsValid
    <3> QED
      BY <3>1
  <2>3. \A b \in Blocks : Fits(b, sim.count[b].held)
    BY <2>1 DEF Good, WithinCapacity
  <2> QED
    BY <2>1, <2>2, <2>3 DEF IInv, Good, GivesReason, FreeValid, TypeOK
<1> QED
  BY <1>1, IInvHolds, PTL

------------------------------------------------------------------------------
(* Model time and the metrics, for a text that draws no negative time.     *)

\* The invariant for such a text: also the next point of the metrics is the first
\* the clock has not reached.
TimeInv == IInv /\ Forward /\ Aligned(sim)

\* A round of the loop takes the clock to the time of the earliest event, and
\* writes the STAT line that is due.
LEMMA StepTime ==
    ASSUME TimeInv, Step
    PROVE  /\ sim'.clock >= sim.clock /\ Aligned(sim')
           /\ sim'.stats - sim.stats =
                 IF sim'.clock \div MetricStep > sim.clock \div MetricStep THEN 1 ELSE 0
<1>0. Good(sim) /\ Forward /\ Aligned(sim) /\ sim.events # <<>>
  BY DEF TimeInv, IInv, Step, NothingToDo
<1> DEFINE v == Head(sim.events)
           u == Popping(sim)
<1>1. PICK s \in Handle(u, v) : sim' = StopRuleApplied(Sampled(s))
  BY DEF Step, NothingToDo, Popping
<1>2. Good(u) /\ v \in ValidEvents(u) /\ Differ(sim, u, {"clock", "events"}) /\ u.clock = v.time
  BY <1>0, PoppingGood
<1>3. u.stats = sim.stats /\ u.nextMetricAt = sim.nextMetricAt
  BY <1>2 DEF Differ, SimFields
<1>4. v \in ValidEvents(sim)
  <2>1. sim.events \in Seq(ValidEvents(sim)) /\ sim.events # <<>>
    BY <1>0 DEF Good, EventsValid
  <2> QED
    BY <2>1
<1> HIDE DEF u, v
<1>5. u.clock >= sim.clock /\ sim.clock \in Int
  BY <1>0, <1>2, <1>4, SimTypes DEF ValidEvents, Good
<1>6. Good(s) /\ s.clock = u.clock /\ s.stats = u.stats /\ s.nextMetricAt = u.nextMetricAt
  BY <1>1, <1>2, HandleReaches DEF Reached, Grows
<1> DEFINE t == Sampled(s)
<1>7. sim.clock <= s.clock
  BY <1>0, <1>5, <1>6, SimTypes DEF Good
<1>8. s.nextMetricAt = MetricStep * (sim.clock \div MetricStep + 1)
  BY <1>0, <1>3, <1>6 DEF Aligned
<1>9. /\ t.clock = s.clock /\ Aligned(t)
      /\ t.stats - s.stats = IF s.clock \div MetricStep > sim.clock \div MetricStep THEN 1 ELSE 0
  BY <1>5, <1>6, <1>7, <1>8, SampledFacts
<1>10. Good(t)
  BY <1>6, SampledGood
<1>11. sim' = StopRuleApplied(t)
  BY <1>1
<1> HIDE DEF t
<1>12. sim'.clock = t.clock /\ sim'.nextMetricAt = t.nextMetricAt /\ sim'.stats = t.stats
  BY <1>10, <1>11, StopRuleKeeps DEF Kept, Same
<1>13. Aligned(sim')
  BY <1>9, <1>12 DEF Aligned
<1>14. sim'.clock = s.clock /\ s.stats = sim.stats /\ sim'.clock >= sim.clock
  BY <1>3, <1>5, <1>6, <1>9, <1>12
<1> QED
  BY <1>9, <1>12, <1>13, <1>14

\* What the text draws does not change.
LEMMA ForwardPrimed ==
    ASSUME program' = program, Forward
    PROVE  Forward'
  BY DEF Forward, Blocks, Kind, P, Models

\* The invariant holds at the start, and every step keeps it.
LEMMA TimeInvInit == Init /\ Forward => TimeInv
<1> SUFFICES ASSUME Init, Forward PROVE TimeInv
  OBVIOUS
<1>1. Linked
  BY DEF Init, Linked
<1>2. IInv
  BY IInvInit
<1> QED
  BY <1>1, <1>2, InitGood DEF Init, TimeInv

\* Every step keeps the invariant about the clock too.
LEMMA TimeInvNext == TimeInv /\ [Next]_vars => TimeInv'
<1> SUFFICES ASSUME TimeInv, [Next]_vars PROVE TimeInv'
  OBVIOUS
<1>1. IInv /\ Forward /\ Good(sim) /\ Aligned(sim)
  BY DEF TimeInv, IInv
<1>2. IInv'
  BY <1>1, IInvNext
<1>3. program' = program
  BY DEF Next, Start, Step, End, vars
<1>4. Forward'
  BY <1>1, <1>3, ForwardPrimed
<1>5. CASE Start
  <2>1. sim'.clock = sim.clock /\ sim'.nextMetricAt = sim.nextMetricAt
    BY <1>1, <1>5, StartAllReaches DEF Start, Reached, Grows
  <2> QED
    BY <1>1, <1>2, <1>4, <2>1 DEF TimeInv, Aligned
<1>6. CASE Step
  <2>1. Aligned(sim')
    BY <1>6, StepTime
  <2> QED
    BY <1>2, <1>4, <2>1 DEF TimeInv, Aligned
<1>7. CASE End
  <2>1. sim \in Sims
    BY <1>1 DEF Good
  <2>2. sim'.clock = sim.clock /\ sim'.nextMetricAt = sim.nextMetricAt
    BY <1>7, <2>1 DEF End, Sims
  <2> QED
    BY <1>1, <1>2, <1>4, <2>2 DEF TimeInv, Aligned
<1>8. CASE UNCHANGED vars
  BY <1>1, <1>2, <1>4, <1>8 DEF TimeInv, Aligned, vars
<1> QED
  BY <1>5, <1>6, <1>7, <1>8 DEF Next

\* The invariant holds in every state.
LEMMA TimeInvHolds == Spec /\ Forward => []TimeInv
  BY TimeInvInit, TimeInvNext, PTL DEF Spec

\* Model time never runs backwards when the text draws no negative time: the loop
\* takes the earliest event, and none is scheduled before the clock.  (The front
\* end accepts negative times.)
THEOREM ClockNeverBack == Spec /\ Forward => ClockMonotone
<1>1. TimeInv /\ [Next]_vars => [sim'.clock >= sim.clock]_vars
  <2> SUFFICES ASSUME TimeInv, [Next]_vars, ~UNCHANGED vars PROVE sim'.clock >= sim.clock
    OBVIOUS
  <2>1. Good(sim) /\ sim \in Sims /\ sim.clock \in Int
    BY SimTypes DEF TimeInv, IInv, Good
  <2>2. CASE Start
    <3>1. sim'.clock = sim.clock
      BY <2>1, <2>2, StartAllReaches DEF Start, Reached, Grows
    <3> QED
      BY <2>1, <3>1
  <2>3. CASE Step
    BY <2>3, StepTime
  <2>4. CASE End
    <3>1. sim'.clock = sim.clock
      BY <2>1, <2>4 DEF End, Sims
    <3> QED
      BY <2>1, <3>1
  <2> QED
    BY <2>2, <2>3, <2>4 DEF Next
<1> QED
  BY <1>1, TimeInvHolds, PTL DEF Spec, ClockMonotone

\* Every sample point the clock passes is answered by one STAT line, however many
\* an event passes at once, for a text that draws no negative time.
THEOREM SampledOnce == Spec /\ Forward => SampledOncePerStep
<1>1. TimeInv /\ [Next]_vars =>
         [phase = "running" /\ phase' = "running" =>
             sim'.stats - sim.stats =
                 IF sim'.clock \div MetricStep > sim.clock \div MetricStep THEN 1 ELSE 0]_vars
  <2> SUFFICES ASSUME TimeInv, [Next]_vars, ~UNCHANGED vars, phase = "running", phase' = "running"
               PROVE  sim'.stats - sim.stats =
                         IF sim'.clock \div MetricStep > sim.clock \div MetricStep THEN 1 ELSE 0
    OBVIOUS
  <2>1. Step
    BY DEF Next, Start, End
  <2> QED
    BY <2>1, StepTime
<1> QED
  BY <1>1, TimeInvHolds, PTL DEF Spec, SampledOncePerStep
===============================================================================
