------------------------ MODULE SimulationBalanceProofs ------------------------
(***************************************************************************)
(* Where the entities of a generated model are.  For a text in which no    *)
(* queue is advanced again while its head is on its way, every entity is   *)
(* in exactly one place until the run stops, and the counters agree with   *)
(* the places.                                                             *)
(***************************************************************************)
EXTENDS SimulationProofs

------------------------------------------------------------------------------
(* The blocks a call may come to.                                          *)

\* The queues the blocks of a resource list.
WakeQueues(r) ==
    UNION {ToSet(P(program.seizes[r][i]).waitQueues) : i \in 1..Len(program.seizes[r])}

\* The blocks whose functions the function of b may call, or whose heads it may
\* send on.
Called(b) ==
    CASE Kind(b) = "QUEUE" ->
           {P(b).next} \cup (IF P(b).exitOnOverflow THEN {P(b).nextOverflow} ELSE {})
      [] Kind(b) \in {"SEIZE", "ASSIGN"} -> {P(b).next}
      [] Kind(b) = "BRANCH" -> Ways(b)
      [] Kind(b) = "RELEASE" -> {P(b).next} \cup WakeQueues(P(b).resource)
      [] OTHER -> {}

Closed(S) == \A c \in S : Called(c) \subseteq S

\* The blocks that may be entered before the function of b returns.
Entered(b) == {c \in Blocks : \A S \in SUBSET Blocks : b \in S /\ Closed(S) => c \in S}

\* No queue is advanced while its head is on its way to the next block.
NoReentry == \A q \in OfKind("QUEUE") : q \notin Entered(P(q).next)

\* A block is among those, and so is all that a block it calls may come to.
LEMMA EnteredFacts ==
    ASSUME NEW b \in Blocks
    PROVE  /\ b \in Entered(b)
           /\ \A c \in Called(b) : Entered(c) \subseteq Entered(b)
<1>1. ASSUME NEW c \in Called(b), NEW d \in Entered(c), NEW S \in SUBSET Blocks, b \in S, Closed(S)
      PROVE  d \in S
  <2>1. c \in S
    BY <1>1 DEF Closed
  <2> QED
    BY <1>1, <2>1 DEF Entered
<1> QED
  BY <1>1 DEF Entered

------------------------------------------------------------------------------
(* Where an entity is.                                                     *)

\* The slots in which it waits, and the events that hold it in service.
Holds(ref) == {x \in Slots : x.valid /\ x.ref = ref}

Serves(ref) == {v \in Events : v.do = "delay" /\ v.ref = ref}

SlotPlaces(s, ref) ==
    UNION {{<<b, k>> : k \in {j \in DOMAIN s.arr[b] : s.arr[b][j] \in Holds(ref)}} : b \in Blocks}

\* In how many places it is.
Places(s, ref) ==
    Cardinality(SlotPlaces(s, ref)) + Count(s.events, Serves(ref))
        + Count(s.pool[ref.type].free, {ref.idx})

\* The blocks are those of a finite text.
LEMMA BlocksFinite ==
    ASSUME Linked
    PROVE  IsFiniteSet(Blocks)
<1>1. PICK t \in DOMAIN Texts : program = Parsed(Texts[t])
  BY DEF Linked, Models
<1> DEFINE order == program.order
<1>2. order \in Seq(Blocks)
  BY ModelTypes DEF WellTyped, Blocks
<1>3. Blocks = {Texts[t].blocks[i].name : i \in DOMAIN Texts[t].blocks}
  BY <1>1 DEF Parsed, Blocks
<1>4. order = [i \in DOMAIN Texts[t].blocks |-> Texts[t].blocks[i].name]
  BY <1>1 DEF Parsed
<1>5. \A c \in Blocks : \E i \in DOMAIN order : order[i] = c
  BY <1>3, <1>4
<1> HIDE DEF order
<1>6. DOMAIN order = 1..Len(order) /\ Len(order) \in Nat
  BY <1>2
<1>7. order \in Surjection(1..Len(order), Blocks)
  BY <1>2, <1>5, <1>6 DEF Surjection
<1> QED
  BY <1>6, <1>7, FS_NatSurjection DEF ExistsSurjection

\* The slots of one queue that hold an entity, and those of all others.
Mine(s, b, ref) == {<<b, k>> : k \in {j \in DOMAIN s.arr[b] : s.arr[b][j] \in Holds(ref)}}
Others(s, b, ref) == UNION {Mine(s, c, ref) : c \in Blocks \ {b}}

\* As many as are counted in the queue.
LEMMA MineFacts ==
    ASSUME NEW s, Good(s), NEW b \in Blocks, NEW ref
    PROVE  /\ IsFiniteSet(Mine(s, b, ref))
           /\ Cardinality(Mine(s, b, ref)) = Count(s.arr[b], Holds(ref))
           /\ Count(s.arr[b], Holds(ref)) \in Nat
<1> DEFINE J == {j \in DOMAIN s.arr[b] : s.arr[b][j] \in Holds(ref)}
           f == [k \in J |-> <<b, k>>]
<1>1. s.arr[b] \in Seq(Slots)
  BY SimTypes DEF Good
<1>2. IsFiniteSet(J) /\ Cardinality(J) = Count(s.arr[b], Holds(ref)) /\ Cardinality(J) \in Nat
  BY <1>1, PlacesFinite, Zenon DEF Count
<1>3. Mine(s, b, ref) = {<<b, k>> : k \in J}
  BY DEF Mine
<1> HIDE DEF J
<1> DEFINE T == {<<b, k>> : k \in J}
<1>4. f \in Bijection(J, T)
  <2>1. f \in [J -> T]
    OBVIOUS
  <2>2. \A k, l \in J : f[k] = f[l] => k = l
    OBVIOUS
  <2>3. \A y \in T : \E k \in J : f[k] = y
    OBVIOUS
  <2> HIDE DEF f, T
  <2> QED
    BY <2>1, <2>2, <2>3 DEF Bijection, Injection, Surjection, IsInjective
<1> HIDE DEF f
<1> QED
  BY <1>2, <1>3, <1>4, FS_Bijection DEF ExistsBijection

\* The slots of one queue are counted apart from those of the others.
LEMMA SlotsSplit ==
    ASSUME NEW s, Good(s), NEW b \in Blocks, NEW ref
    PROVE  /\ IsFiniteSet(Others(s, b, ref)) /\ Cardinality(Others(s, b, ref)) \in Nat
           /\ Cardinality(SlotPlaces(s, ref))
                = Cardinality(Others(s, b, ref)) + Count(s.arr[b], Holds(ref))
<1> DEFINE O == Others(s, b, ref)
           M == Mine(s, b, ref)
           C == Blocks \ {b}
           f == [c \in C |-> Mine(s, c, ref)]
           Parts == {Mine(s, c, ref) : c \in C}
<1>1. IsFiniteSet(C)
  BY BlocksFinite, FS_Difference DEF Good
<1>2. IsFiniteSet(Parts)
  <2>1. f \in [C -> Parts] /\ \A y \in Parts : \E c \in C : f[c] = y
    OBVIOUS
  <2> HIDE DEF f, C, Parts
  <2>2. f \in Surjection(C, Parts)
    BY <2>1 DEF Surjection
  <2> QED
    BY <1>1, <2>2, FS_Surjection
<1>3. IsFiniteSet(O)
  <2>1. \A T \in Parts : IsFiniteSet(T)
    BY MineFacts
  <2>2. O = UNION Parts
    BY DEF Others
  <2> HIDE DEF O, Parts
  <2> QED
    BY <1>2, <2>1, <2>2, FS_UNION
<1>4. IsFiniteSet(M) /\ Cardinality(M) = Count(s.arr[b], Holds(ref))
  BY MineFacts
<1>5. SlotPlaces(s, ref) = O \cup M
  BY DEF SlotPlaces, Others, Mine
<1>6. O \cap M = {}
  BY DEF Others, Mine
<1> HIDE DEF O, M
<1>7. Cardinality(O \cup M) = Cardinality(O) + Cardinality(M)
  <2>1. Cardinality({}) = 0
    BY FS_EmptySet
  <2>2. Cardinality(O \cup M) = Cardinality(O) + Cardinality(M) - Cardinality({})
    BY <1>3, <1>4, <1>6, FS_Union
  <2>3. Cardinality(O) \in Nat /\ Cardinality(M) \in Nat
    BY <1>3, <1>4, FS_CardinalityType
  <2> QED
    BY <2>1, <2>2, <2>3
<1>8. Cardinality(O) \in Nat
  BY <1>3, FS_CardinalityType
<1> QED
  BY <1>3, <1>4, <1>5, <1>7, <1>8 DEF O

\* The numbers of places are numbers.
LEMMA PlacesTypes ==
    ASSUME NEW s, Good(s), NEW ref \in Refs
    PROVE  /\ Cardinality(SlotPlaces(s, ref)) \in Nat
           /\ Count(s.events, Serves(ref)) \in Nat
           /\ Count(s.pool[ref.type].free, {ref.idx}) \in Nat
           /\ Places(s, ref) \in Nat
<1>1. s \in Sims /\ ref.type \in EntityTypes
  BY DEF Good, Refs
<1>2. Cardinality(SlotPlaces(s, ref)) \in Nat
  <2>1. CASE Blocks = {}
    <3>1. SlotPlaces(s, ref) = {}
      BY <2>1 DEF SlotPlaces
    <3> QED
      BY <3>1, FS_EmptySet
  <2>2. ASSUME NEW b \in Blocks PROVE Cardinality(SlotPlaces(s, ref)) \in Nat
    BY SlotsSplit, MineFacts
  <2> QED
    BY <2>1, <2>2
<1>3. Count(s.events, Serves(ref)) \in Nat
  BY <1>1, SimTypes, PlacesFinite
<1>4. s.pool[ref.type].free \in Seq(Nat \ {0})
  BY <1>1, SimTypes DEF Pool
<1>5. Count(s.pool[ref.type].free, {ref.idx}) \in Nat
  BY <1>4, PlacesFinite
<1> QED
  BY <1>2, <1>3, <1>5 DEF Places

\* What is counted of the free lists.
FreeCount(s, ref) == Count(s.pool[ref.type].free, {ref.idx})

\* How the places of an entity change when the slots of one queue do.
LEMMA PlacesChange ==
    ASSUME NEW s, Good(s), NEW t, Good(t), NEW b \in Blocks,
           \A d \in Blocks \ {b} : t.arr[d] = s.arr[d], NEW ref \in Refs
    PROVE  /\ Places(t, ref) =
                Places(s, ref) + (Count(t.arr[b], Holds(ref)) - Count(s.arr[b], Holds(ref)))
                    + (Count(t.events, Serves(ref)) - Count(s.events, Serves(ref)))
                    + (FreeCount(t, ref) - FreeCount(s, ref))
           /\ Count(t.arr[b], Holds(ref)) \in Nat /\ Count(s.arr[b], Holds(ref)) \in Nat
           /\ Count(t.events, Serves(ref)) \in Nat /\ Count(s.events, Serves(ref)) \in Nat
           /\ FreeCount(t, ref) \in Nat /\ FreeCount(s, ref) \in Nat
<1>1. \A d \in Blocks \ {b} : Mine(t, d, ref) = Mine(s, d, ref)
  BY DEF Mine
<1>2. Others(t, b, ref) = Others(s, b, ref)
  BY <1>1 DEF Others
<1>3. /\ Cardinality(SlotPlaces(s, ref)) = Cardinality(Others(s, b, ref)) + Count(s.arr[b], Holds(ref))
      /\ Cardinality(SlotPlaces(t, ref)) = Cardinality(Others(s, b, ref)) + Count(t.arr[b], Holds(ref))
      /\ Cardinality(Others(s, b, ref)) \in Nat
  BY <1>2, SlotsSplit
<1>4. Count(t.arr[b], Holds(ref)) \in Nat /\ Count(s.arr[b], Holds(ref)) \in Nat
  BY MineFacts
<1>5. /\ Count(t.events, Serves(ref)) \in Nat /\ Count(s.events, Serves(ref)) \in Nat
      /\ FreeCount(t, ref) \in Nat /\ FreeCount(s, ref) \in Nat
  BY PlacesTypes DEF FreeCount
<1> QED
  BY <1>3, <1>4, <1>5 DEF Places, FreeCount

\* The slots, the service and the free lists are all there is to it.
LEMMA PlacesDepend ==
    ASSUME NEW s, NEW t, t.arr = s.arr, t.events = s.events,
           \A e \in EntityTypes : t.pool[e].free = s.pool[e].free
    PROVE  \A ref \in Refs : Places(t, ref) = Places(s, ref)
  BY DEF Places, SlotPlaces, Refs

------------------------------------------------------------------------------
(* The books of a block and of a resource.                                 *)

\* Those who entered a block and are not known to have left it or to be in it.
Debt(s, b) ==
    LET c == s.count[b]
    IN  CASE Kind(b) = "QUEUE" -> c.enterN - c.exitN - c.timeoutN - c.dropN - c.held
          [] Kind(b) = "DELAY" -> c.enterN - c.exitN - c.held
          [] Kind(b) = "CREATE" -> c.createdN - c.exitN - c.dropN
          [] OTHER -> 0

\* The same, kind by kind.
LEMMA DebtByKind ==
    ASSUME NEW s, NEW b
    PROVE  /\ Kind(b) = "QUEUE" =>
                 Debt(s, b) = s.count[b].enterN - s.count[b].exitN - s.count[b].timeoutN
                                - s.count[b].dropN - s.count[b].held
           /\ Kind(b) = "DELAY" =>
                 Debt(s, b) = s.count[b].enterN - s.count[b].exitN - s.count[b].held
           /\ Kind(b) = "CREATE" =>
                 Debt(s, b) = s.count[b].createdN - s.count[b].exitN - s.count[b].dropN
           /\ Kind(b) \notin {"QUEUE", "DELAY", "CREATE"} => Debt(s, b) = 0
  BY DEF Debt

\* The events of a delay that hold an entity of it.
ServedBy(b) == {v \in Events : v.do = "delay" /\ v.block = b}

\* How many more a block says it holds than there are.
Unheld(s, b) ==
    CASE Kind(b) = "QUEUE" -> s.count[b].held - Count(s.arr[b], Live)
      [] Kind(b) = "DELAY" -> s.count[b].held - Count(s.events, ServedBy(b))
      [] OTHER -> 0

\* The units in use that nobody seized.
UseDebt(s, r) == s.resource[r].busy - s.resource[r].seizeN + s.resource[r].releaseN

\* They are numbers.
LEMMA BooksTypes ==
    ASSUME NEW s, Good(s)
    PROVE  /\ \A b \in Blocks : Debt(s, b) \in Int /\ Unheld(s, b) \in Int
           /\ \A r \in DOMAIN program.capacity : UseDebt(s, r) \in Int
<1>1. s \in Sims
  BY DEF Good
<1>2. ASSUME NEW b \in Blocks PROVE Debt(s, b) \in Int /\ Unheld(s, b) \in Int
  <2>1. s.count[b] \in [CounterNames -> Nat]
    BY <1>1, SimTypes
  <2>2. /\ s.count[b].held \in Nat /\ s.count[b].enterN \in Nat /\ s.count[b].exitN \in Nat
        /\ s.count[b].timeoutN \in Nat /\ s.count[b].dropN \in Nat /\ s.count[b].createdN \in Nat
    BY <2>1 DEF CounterNames
  <2>3. Count(s.arr[b], Live) \in Nat /\ Count(s.events, ServedBy(b)) \in Nat
    BY <1>1, SimTypes, PlacesFinite
  <2>4. Debt(s, b) \in Int
    BY <2>2 DEF Debt
  <2>5. Unheld(s, b) \in Int
    BY <2>2, <2>3 DEF Unheld
  <2> QED
    BY <2>4, <2>5
<1>3. ASSUME NEW r \in DOMAIN program.capacity PROVE UseDebt(s, r) \in Int
  <2>1. s.resource[r] \in Uses
    BY <1>1, SimTypes
  <2> QED
    BY <2>1 DEF UseDebt, Uses
<1> QED
  BY <1>2, <1>3

\* An entity comes to n more places, and no other to any.
Moves(s, t, ref, n) == \A x \in Refs : Places(t, x) = Places(s, x) + (IF x = ref THEN n ELSE 0)

\* The books are no worse and no better than before.
Even(s, t) == \A b \in Blocks : Debt(t, b) = Debt(s, b) /\ Unheld(t, b) = Unheld(s, b)

SameUse(s, t) == \A r \in DOMAIN program.capacity : UseDebt(t, r) = UseDebt(s, r)

Ledger(s, t, ref, n) == Moves(s, t, ref, n) /\ Even(s, t) /\ SameUse(s, t)

\* Nobody has moved.
Steady(s, t) ==
    /\ \A x \in Refs : Places(t, x) = Places(s, x)
    /\ Even(s, t)
    /\ SameUse(s, t)

\* That is an entry of nothing.
LEMMA SteadyLedger ==
    ASSUME NEW s, Good(s), NEW t, NEW ref
    PROVE  Steady(s, t) <=> Ledger(s, t, ref, 0)
<1>1. \A x \in Refs : Places(s, x) \in Nat
  BY PlacesTypes
<1> QED
  BY <1>1 DEF Steady, Ledger, Moves

\* Two entries make one.
LEMMA LedgerTransitive ==
    ASSUME NEW s, Good(s), NEW t, NEW u, NEW ref, NEW m \in Int, NEW n \in Int,
           Ledger(s, t, ref, m), Ledger(t, u, ref, n)
    PROVE  Ledger(s, u, ref, m + n)
<1>1. \A x \in Refs : Places(s, x) \in Nat
  BY PlacesTypes
<1>2. Moves(s, u, ref, m + n)
  BY <1>1 DEF Ledger, Moves
<1>3. Even(s, u) /\ SameUse(s, u)
  BY DEF Ledger, Even, SameUse
<1> QED
  BY <1>2, <1>3 DEF Ledger

\* Before or after an entry nobody may have moved.
LEMMA LedgerSteady ==
    ASSUME NEW s, NEW t, NEW u, NEW ref, NEW n
    PROVE  /\ Steady(s, t) /\ Ledger(t, u, ref, n) => Ledger(s, u, ref, n)
           /\ Ledger(s, t, ref, n) /\ Steady(t, u) => Ledger(s, u, ref, n)
           /\ Steady(s, t) /\ Steady(t, u) => Steady(s, u)
  BY DEF Ledger, Steady, Moves, Even, SameUse

\* Nothing happens.
LEMMA SteadyReflexive ==
    ASSUME NEW s
    PROVE  Steady(s, s)
  BY DEF Steady, Even, SameUse

\* The queues outside S are as they were.
Untouched(s, t, S) ==
    \A q \in OfKind("QUEUE") \ S : t.arr[q] = s.arr[q] /\ t.count[q].held = s.count[q].held

\* Two steps leave what both leave.
LEMMA UntouchedTransitive ==
    ASSUME NEW s, NEW t, NEW u, NEW S, NEW T, NEW U, S \subseteq U, T \subseteq U,
           Untouched(s, t, S), Untouched(t, u, T)
    PROVE  Untouched(s, u, U)
  BY DEF Untouched

------------------------------------------------------------------------------
(* The operations on the globals and the books.                            *)

\* Where the entities are has not changed, nor what is held.
LEMMA StandsStill ==
    ASSUME NEW s, NEW t, t.arr = s.arr, t.events = s.events, t.resource = s.resource,
           \A e \in EntityTypes : t.pool[e].free = s.pool[e].free,
           \A b \in Blocks : Debt(t, b) = Debt(s, b) /\ t.count[b].held = s.count[b].held
    PROVE  Steady(s, t) /\ \A S : Untouched(s, t, S)
<1>1. \A x \in Refs : Places(t, x) = Places(s, x)
  BY PlacesDepend
<1>2. \A b \in Blocks : Unheld(t, b) = Unheld(s, b)
  BY DEF Unheld
<1>3. SameUse(s, t)
  BY DEF SameUse, UseDebt
<1>4. \A S : Untouched(s, t, S)
  BY DEF Untouched, OfKind
<1> QED
  BY <1>1, <1>2, <1>3, <1>4 DEF Steady, Even

\* The debt of a block is written in its counters.
LEMMA DebtDepends ==
    ASSUME NEW s, NEW t, NEW b, t.count[b] = s.count[b]
    PROVE  Debt(t, b) = Debt(s, b)
  BY DEF Debt

\* An entity passes a block that is not a queue, a delay or a source.
LEMMA PassedSteady ==
    ASSUME NEW s, Good(s), NEW b \in Blocks, Kind(b) \notin {"QUEUE", "DELAY", "CREATE"}
    PROVE  /\ Steady(s, Passed(s, b)) /\ \A S : Untouched(s, Passed(s, b), S)
           /\ Passed(s, b).resource = s.resource
<1> DEFINE t == Passed(s, b)
<1>1. /\ Differ(s, t, {"count"})
      /\ \A e \in Blocks \ {b} : t.count[e] = s.count[e]
      /\ \A e \in Blocks : t.count[e].held = s.count[e].held
  BY KeepsPassed
<1> HIDE DEF t
<1>2. /\ t.arr = s.arr /\ t.events = s.events /\ t.resource = s.resource /\ t.pool = s.pool
  BY <1>1 DEF Differ, SimFields
<1>3. \A e \in Blocks : Debt(t, e) = Debt(s, e)
  <2>1. Debt(t, b) = Debt(s, b)
    BY DEF Debt
  <2> QED
    BY <1>1, <2>1, DebtDepends
<1> QED
  BY <1>1, <1>2, <1>3, StandsStill DEF t

\* A full queue turns an entity away: it has entered, and it is dropped.
LEMMA TurnedAwaySteady ==
    ASSUME NEW s, Good(s), NEW b \in Blocks, Kind(b) = "QUEUE"
    PROVE  /\ Steady(s, TurnedAway(s, b)) /\ \A S : Untouched(s, TurnedAway(s, b), S)
           /\ TurnedAway(s, b).resource = s.resource
<1> DEFINE t == TurnedAway(s, b)
<1>1. /\ Differ(s, t, {"count"})
      /\ \A e \in Blocks \ {b} : t.count[e] = s.count[e]
      /\ t.count[b] = [s.count[b] EXCEPT !["enterN"] = s.count[b]["enterN"] + 1,
                                         !["dropN"] = s.count[b]["dropN"] + 1]
      /\ \A e \in Blocks : t.count[e].held = s.count[e].held
  BY KeepsTurnedAway
<1> HIDE DEF t
<1>2. /\ t.arr = s.arr /\ t.events = s.events /\ t.resource = s.resource /\ t.pool = s.pool
  BY <1>1 DEF Differ, SimFields
<1>3. s.count[b] \in [CounterNames -> Nat]
  BY SimTypes DEF Good
<1>4. Debt(t, b) = Debt(s, b)
  BY <1>1, <1>3 DEF Debt, CounterNames
<1>5. \A e \in Blocks : Debt(t, e) = Debt(s, e)
  BY <1>1, <1>4, DebtDepends
<1> QED
  BY <1>1, <1>2, <1>5, StandsStill DEF t

\* Other values of variables and fields move nobody.
LEMMA NewValuesSteady ==
    ASSUME NEW s, NEW t, NewValues(s, t)
    PROVE  Steady(s, t) /\ (\A S : Untouched(s, t, S)) /\ t.resource = s.resource
<1>1. /\ t.arr = s.arr /\ t.events = s.events /\ t.resource = s.resource /\ t.count = s.count
      /\ \A e \in EntityTypes : t.pool[e].free = s.pool[e].free
  BY DEF NewValues, Differ, SimFields
<1>2. \A b \in Blocks : Debt(t, b) = Debt(s, b)
  BY <1>1, DebtDepends
<1> QED
  BY <1>1, <1>2, StandsStill

\* An entity given back to its pool is in one more place.
LEMMA FreeLedger ==
    ASSUME NEW s, Good(s), NEW ref, ValidRef(s, ref)
    PROVE  /\ Ledger(s, FreeEntity(s, ref), ref, 1) /\ \A S : Untouched(s, FreeEntity(s, ref), S)
           /\ FreeEntity(s, ref).resource = s.resource
<1> DEFINE t == FreeEntity(s, ref)
<1>1. /\ Good(t) /\ Differ(s, t, {"pool"})
      /\ t.pool[ref.type].free = Append(s.pool[ref.type].free, ref.idx)
      /\ \A e \in EntityTypes \ {ref.type} : t.pool[e] = s.pool[e]
  BY KeepsFreeEntity DEF Kept
<1> HIDE DEF t
<1>2. /\ t.arr = s.arr /\ t.events = s.events /\ t.resource = s.resource /\ t.count = s.count
  BY <1>1 DEF Differ, SimFields
<1>3. ref \in Refs /\ ref.type \in EntityTypes /\ ref.idx \in Nat \ {0}
  BY DEF ValidRef, Refs
<1>4. Even(s, t) /\ SameUse(s, t) /\ \A S : Untouched(s, t, S)
  BY <1>2 DEF Even, SameUse, Untouched, Debt, Unheld, UseDebt
<1>5. ASSUME NEW x \in Refs
      PROVE  FreeCount(t, x) = FreeCount(s, x) + (IF x = ref THEN 1 ELSE 0)
  <2>1. s.pool[ref.type].free \in Seq(Nat \ {0})
    BY <1>3, SimTypes DEF Good, Pool
  <2>2. FreeCount(s, x) \in Nat
    BY PlacesTypes DEF FreeCount
  <2>3. CASE x.type = ref.type
    <3> DEFINE p == s.pool[ref.type].free
    <3>0. Count(Append(p, ref.idx), {x.idx})
            = Count(p, {x.idx}) + (IF ref.idx \in {x.idx} THEN 1 ELSE 0)
      BY <1>3, <2>1, AppendCounts
    <3>1. FreeCount(t, x) = FreeCount(s, x) + (IF ref.idx \in {x.idx} THEN 1 ELSE 0)
      BY <1>1, <2>3, <3>0 DEF FreeCount
    <3>2. x = [type |-> x.type, idx |-> x.idx] /\ ref = [type |-> ref.type, idx |-> ref.idx]
      BY <1>3 DEF Refs
    <3>3. ref.idx \in {x.idx} <=> x = ref
      BY <2>3, <3>2
    <3> QED
      BY <3>1, <3>3
  <2>4. CASE x.type # ref.type
    <3>1. x.type \in EntityTypes \ {ref.type}
      BY <2>4 DEF Refs
    <3>2. t.pool[x.type] = s.pool[x.type]
      BY <1>1, <3>1
    <3> QED
      BY <2>2, <2>4, <3>2 DEF FreeCount
  <2> QED
    BY <2>3, <2>4
<1>6. \A x \in Refs : Places(t, x) = Places(s, x) + (IF x = ref THEN 1 ELSE 0)
  <2> TAKE x \in Refs
  <2>1. /\ Cardinality(SlotPlaces(t, x)) = Cardinality(SlotPlaces(s, x))
        /\ Count(t.events, Serves(x)) = Count(s.events, Serves(x))
    BY <1>2 DEF SlotPlaces
  <2>2. /\ Cardinality(SlotPlaces(s, x)) \in Nat /\ Count(s.events, Serves(x)) \in Nat
        /\ FreeCount(s, x) \in Nat
    BY PlacesTypes DEF FreeCount
  <2>3. /\ Places(t, x) = Cardinality(SlotPlaces(t, x)) + Count(t.events, Serves(x)) + FreeCount(t, x)
        /\ Places(s, x) = Cardinality(SlotPlaces(s, x)) + Count(s.events, Serves(x)) + FreeCount(s, x)
    BY DEF Places, FreeCount
  <2> QED
    BY <1>5, <2>1, <2>2, <2>3
<1> QED
  BY <1>2, <1>4, <1>6 DEF Ledger, Moves, t

\* Counting an entity into a block that is not a queue, a delay or a source.
LEMMA CountedSteady ==
    ASSUME NEW s, Good(s), NEW b \in Blocks, Kind(b) \notin {"QUEUE", "DELAY", "CREATE"},
           NEW c \in Tallies
    PROVE  /\ Steady(s, Counted(s, b, c)) /\ \A S : Untouched(s, Counted(s, b, c), S)
           /\ Counted(s, b, c).resource = s.resource
<1> DEFINE t == Counted(s, b, c)
<1>1. /\ Differ(s, t, {"count"})
      /\ \A e \in Blocks \ {b} : t.count[e] = s.count[e]
      /\ \A e \in Blocks : t.count[e].held = s.count[e].held
  BY KeepsCounted
<1> HIDE DEF t
<1>2. /\ t.arr = s.arr /\ t.events = s.events /\ t.resource = s.resource /\ t.pool = s.pool
  BY <1>1 DEF Differ, SimFields
<1>3. \A e \in Blocks : Debt(t, e) = Debt(s, e)
  <2>1. Debt(t, b) = Debt(s, b)
    BY DEF Debt
  <2> QED
    BY <1>1, <2>1, DebtDepends
<1> QED
  BY <1>1, <1>2, <1>3, StandsStill DEF t

\* Nothing has changed but the slots of queue b and its counters: it holds the
\* entity n times more, and its counters say so.
QueueChange(s, t, b, ref, n) ==
    /\ t.events = s.events /\ t.resource = s.resource /\ t.pool = s.pool
    /\ \A d \in Blocks \ {b} : t.arr[d] = s.arr[d] /\ t.count[d] = s.count[d]
    /\ \A x \in Refs : Count(t.arr[b], Holds(x))
                          = Count(s.arr[b], Holds(x)) + (IF x = ref THEN n ELSE 0)
    /\ Count(t.arr[b], Live) = Count(s.arr[b], Live) + n
    /\ t.count[b].held = s.count[b].held + n
    /\ Debt(t, b) = Debt(s, b)

\* The slots of one queue have changed, and its counters with them.
LEMMA QueueLedger ==
    ASSUME NEW s, Good(s), NEW t, Good(t), NEW b \in Blocks, Kind(b) = "QUEUE",
           NEW ref, NEW n \in Int, QueueChange(s, t, b, ref, n)
    PROVE  Ledger(s, t, ref, n) /\ Untouched(s, t, {b})
<1>a. /\ t.events = s.events /\ t.resource = s.resource /\ t.pool = s.pool
      /\ \A d \in Blocks \ {b} : t.arr[d] = s.arr[d] /\ t.count[d] = s.count[d]
  BY DEF QueueChange
<1>b. \A x \in Refs : Count(t.arr[b], Holds(x))
                         = Count(s.arr[b], Holds(x)) + (IF x = ref THEN n ELSE 0)
  BY DEF QueueChange
<1>c. /\ Count(t.arr[b], Live) = Count(s.arr[b], Live) + n
      /\ t.count[b].held = s.count[b].held + n /\ Debt(t, b) = Debt(s, b)
  BY DEF QueueChange
<1>1. ASSUME NEW x \in Refs
      PROVE  Places(t, x) = Places(s, x) + (IF x = ref THEN n ELSE 0)
  <2>1. /\ Places(t, x) =
              Places(s, x) + (Count(t.arr[b], Holds(x)) - Count(s.arr[b], Holds(x)))
                  + (Count(t.events, Serves(x)) - Count(s.events, Serves(x)))
                  + (FreeCount(t, x) - FreeCount(s, x))
        /\ Count(t.arr[b], Holds(x)) \in Nat /\ Count(s.arr[b], Holds(x)) \in Nat
        /\ Count(t.events, Serves(x)) \in Nat /\ Count(s.events, Serves(x)) \in Nat
        /\ FreeCount(t, x) \in Nat /\ FreeCount(s, x) \in Nat
    BY <1>a, PlacesChange
  <2>2. Places(s, x) \in Nat
    BY PlacesTypes
  <2>3. /\ Count(t.events, Serves(x)) = Count(s.events, Serves(x))
        /\ FreeCount(t, x) = FreeCount(s, x)
    BY <1>a DEF FreeCount
  <2>4. Count(t.arr[b], Holds(x)) = Count(s.arr[b], Holds(x)) + (IF x = ref THEN n ELSE 0)
    BY <1>b
  <2> QED
    BY <2>1, <2>2, <2>3, <2>4
<1>2. ASSUME NEW d \in Blocks PROVE Debt(t, d) = Debt(s, d) /\ Unheld(t, d) = Unheld(s, d)
  <2>1. CASE d = b
    <3>1. Count(s.arr[b], Live) \in Nat /\ s.count[b].held \in Nat
      BY SimTypes, PlacesFinite DEF Good
    <3>2. /\ Unheld(t, b) = t.count[b].held - Count(t.arr[b], Live)
          /\ Unheld(s, b) = s.count[b].held - Count(s.arr[b], Live)
      BY DEF Unheld
    <3> QED
      BY <1>c, <2>1, <3>1, <3>2
  <2>2. CASE d # b
    BY <1>a, <2>2, DebtDepends DEF Unheld
  <2> QED
    BY <2>1, <2>2
<1>3. SameUse(s, t) /\ Untouched(s, t, {b})
  BY <1>a DEF SameUse, UseDebt, Untouched, OfKind
<1> QED
  BY <1>1, <1>2, <1>3 DEF Ledger, Moves, Even

\* An entity that joins a queue.
LEMMA PushedLedger ==
    ASSUME NEW s, Good(s), NEW b \in Blocks, Kind(b) = "QUEUE", MayHaveRoom(s, b),
           NEW ref, ValidRef(s, ref)
    PROVE  LET t == QueuePush(Counted(s, b, "enterN"), b, ref)
           IN  Good(t) /\ Kept(s, t) /\ Ledger(s, t, ref, 1) /\ Untouched(s, t, {b})
<1> DEFINE u == Counted(s, b, "enterN")
           t == QueuePush(u, b, ref)
           y == [ref |-> ref, valid |-> TRUE]
<1>1. "enterN" \in Tallies
  BY DEF CounterNames, Tallies
<1>2. /\ Kept(s, u) /\ Differ(s, u, {"count"}) /\ u.count[b] = OneMore(s.count[b], "enterN")
      /\ \A d \in Blocks \ {b} : u.count[d] = s.count[d]
      /\ u.count[b].held = s.count[b].held
  BY <1>1, KeepsCounted
<1>3. Good(u) /\ ValidRef(u, ref)
  BY <1>2, SameValid DEF Kept
<1>4. s.count[b] \in [CounterNames -> Nat] /\ s.count[b].held \in Nat /\ s.arr[b] \in Seq(Slots)
  BY SimTypes DEF Good
<1>5. Fits(b, u.count[b].held + 1)
  BY <1>2, RoomFits
<1> HIDE DEF u
<1>6. /\ Kept(u, t) /\ Differ(u, t, {"arr", "total", "count"})
      /\ y \in Live /\ t.arr[b] = Append(u.arr[b], y)
      /\ t.count[b] = [u.count[b] EXCEPT !.held = u.count[b].held + 1]
      /\ \A d \in Blocks \ {b} : t.arr[d] = u.arr[d] /\ t.count[d] = u.count[d]
  BY <1>3, <1>5, KeepsQueuePush
<1> HIDE DEF t
<1>7. /\ u.arr = s.arr /\ u.events = s.events /\ u.resource = s.resource /\ u.pool = s.pool
      /\ t.events = s.events /\ t.resource = s.resource /\ t.pool = s.pool
  BY <1>2, <1>6 DEF Differ, SimFields
<1>8. y \in Slots
  BY <1>6 DEF Live
<1>9. \A K : Count(t.arr[b], K) = Count(s.arr[b], K) + (IF y \in K THEN 1 ELSE 0)
  BY <1>4, <1>6, <1>7, <1>8, AppendCounts
<1>10. \A x \in Refs : Count(t.arr[b], Holds(x)) = Count(s.arr[b], Holds(x)) + (IF x = ref THEN 1 ELSE 0)
  <2> TAKE x \in Refs
  <2>1. y \in Holds(x) <=> x = ref
    BY <1>8 DEF Holds
  <2> HIDE DEF y
  <2> QED
    BY <1>9, <2>1
<1>11. Count(t.arr[b], Live) = Count(s.arr[b], Live) + 1
  BY <1>6, <1>9
<1>12. t.count[b].held = s.count[b].held + 1 /\ Debt(t, b) = Debt(s, b)
  <2>1. u.count[b] \in [CounterNames -> Nat] /\ u.count[b].enterN = s.count[b].enterN + 1
    BY <1>2, <1>3, <1>4, SimTypes DEF Good, CounterNames, OneMore
  <2>2. t.count[b].held = s.count[b].held + 1
    BY <1>2, <1>4, <1>6, <2>1 DEF CounterNames
  <2>3. t.count[b].enterN = s.count[b].enterN + 1
    BY <1>6, <2>1 DEF CounterNames
  <2>4. /\ t.count[b].exitN = s.count[b].exitN /\ t.count[b].timeoutN = s.count[b].timeoutN
        /\ t.count[b].dropN = s.count[b].dropN
    <3>1. \A c \in CounterNames \ {"enterN"} : u.count[b][c] = s.count[b][c]
      BY <1>2, <1>4 DEF OneMore
    <3>2. \A c \in CounterNames \ {"held"} : t.count[b][c] = u.count[b][c]
      BY <1>6, <2>1
    <3>3. \A c \in CounterNames \ {"enterN", "held"} : t.count[b][c] = s.count[b][c]
      BY <3>1, <3>2
    <3>4. {"exitN", "timeoutN", "dropN"} \subseteq CounterNames \ {"enterN", "held"}
      BY DEF CounterNames
    <3>5. /\ t.count[b]["exitN"] = s.count[b]["exitN"]
          /\ t.count[b]["timeoutN"] = s.count[b]["timeoutN"]
          /\ t.count[b]["dropN"] = s.count[b]["dropN"]
      BY <3>3, <3>4
    <3> QED
      BY <3>5
  <2>5. /\ s.count[b].enterN \in Nat /\ s.count[b].exitN \in Nat /\ s.count[b].timeoutN \in Nat
        /\ s.count[b].dropN \in Nat /\ s.count[b].held \in Nat
    BY <1>4 DEF CounterNames
  <2>6. /\ Debt(t, b) = t.count[b].enterN - t.count[b].exitN - t.count[b].timeoutN
                             - t.count[b].dropN - t.count[b].held
        /\ Debt(s, b) = s.count[b].enterN - s.count[b].exitN - s.count[b].timeoutN
                             - s.count[b].dropN - s.count[b].held
    BY DebtByKind
  <2> QED
    BY <2>2, <2>3, <2>4, <2>5, <2>6
<1>13. Good(t) /\ Kept(s, t)
  BY <1>2, <1>6, KeptTransitive DEF Kept
<1>14. \A d \in Blocks \ {b} : t.arr[d] = s.arr[d] /\ t.count[d] = s.count[d]
  BY <1>2, <1>6, <1>7
<1> HIDE DEF y
<1>15. QueueChange(s, t, b, ref, 1)
  BY <1>7, <1>10, <1>11, <1>12, <1>14 DEF QueueChange
<1>16. Ledger(s, t, ref, 1) /\ Untouched(s, t, {b})
  BY <1>13, <1>15, QueueLedger
<1> QED
  BY <1>13, <1>16 DEF t, u

\* A handler that holds no entity in service.
LEMMA ScheduleSteady ==
    ASSUME NEW s, Good(s), NEW delay, NEW do, do # "delay", NEW b, NEW ref, NEW idx,
           [time |-> s.clock + delay, do |-> do, block |-> b, ref |-> ref, idx |-> idx]
              \in ValidEvents(s)
    PROVE  LET t == Schedule(s, delay, do, b, ref, idx)
           IN  Kept(s, t) /\ Steady(s, t) /\ \A S : Untouched(s, t, S)
<1> DEFINE t == Schedule(s, delay, do, b, ref, idx)
           v == [time |-> s.clock + delay, do |-> do, block |-> b, ref |-> ref, idx |-> idx]
<1>1. /\ Kept(s, t) /\ Differ(s, t, {"events"})
      /\ \A K : Count(t.events, K) = Count(s.events, K) + (IF v \in K THEN 1 ELSE 0)
  BY KeepsSchedule
<1> HIDE DEF t
<1>2. \A x : v \notin Serves(x) /\ v \notin ServedBy(x)
  BY DEF Serves, ServedBy
<1> HIDE DEF v
<1>3. /\ t.arr = s.arr /\ t.resource = s.resource /\ t.pool = s.pool /\ t.count = s.count
  BY <1>1 DEF Differ, SimFields
<1>4. \A K : Count(s.events, K) \in Nat
  BY SimTypes, PlacesFinite DEF Good
<1>5. \A x : /\ Count(t.events, Serves(x)) = Count(s.events, Serves(x))
             /\ Count(t.events, ServedBy(x)) = Count(s.events, ServedBy(x))
  BY <1>1, <1>2, <1>4
<1>6. \A x \in Refs : Places(t, x) = Places(s, x)
  BY <1>3, <1>5 DEF Places, SlotPlaces
<1>7. Even(s, t) /\ SameUse(s, t) /\ \A S : Untouched(s, t, S)
  BY <1>3, <1>5 DEF Even, SameUse, Untouched, Debt, Unheld, UseDebt
<1> QED
  BY <1>1, <1>6, <1>7 DEF Steady, t

\* An entity that joins a queue, with or without a timeout.
LEMMA JoinedLedger ==
    ASSUME NEW s, Good(s), NEW b \in Blocks, Kind(b) = "QUEUE", MayHaveRoom(s, b),
           NEW ref, ValidRef(s, ref), NEW u \in Joined(s, b, ref)
    PROVE  Ledger(s, u, ref, 1) /\ Untouched(s, u, {b})
<1> DEFINE entered == Counted(s, b, "enterN")
           pushed == QueuePush(entered, b, ref)
<1>1. Good(pushed) /\ Ledger(s, pushed, ref, 1) /\ Untouched(s, pushed, {b})
  BY PushedLedger
<1>2. entered.total[b] \in Nat
  <2>1. "enterN" \in Tallies
    BY DEF CounterNames, Tallies
  <2>2. Good(entered)
    BY <2>1, KeepsCounted DEF Kept
  <2> QED
    BY <2>2, SimTypes DEF Good
<1> HIDE DEF entered, pushed
<1>3. CASE ~P(b).hasTimeout
  <2>1. u = pushed
    BY <1>3 DEF Joined, pushed, entered
  <2> QED
    BY <1>1, <2>1
<1>4. CASE P(b).hasTimeout
  <2>1. PICK t \in P(b).timeout.draws :
           u = Schedule(pushed, t, "timeout", b, NullRef, entered.total[b])
    BY <1>4 DEF Joined, pushed, entered
  <2>2. t \in Int /\ (Forward => t >= 0)
    BY QueueParts DEF Good, Forward
  <2>3. pushed.clock \in Int
    BY <1>1, SimTypes DEF Good
  <2>4. b \in {q \in OfKind("QUEUE") : P(q).hasTimeout}
    BY <1>4 DEF OfKind
  <2>5. [time |-> pushed.clock + t, do |-> "timeout", block |-> b, ref |-> NullRef,
         idx |-> entered.total[b]] \in ValidEvents(pushed)
    BY <1>2, <2>2, <2>3, <2>4 DEF ValidEvents, Events
  <2>6. Steady(pushed, u) /\ Untouched(pushed, u, {b})
    BY <1>1, <2>1, <2>5, ScheduleSteady
  <2> QED
    BY <1>1, <2>6, LedgerSteady, UntouchedTransitive
<1> QED
  BY <1>3, <1>4

\* Whoever waits for something waits.
LEMMA HoldsLive ==
    /\ \A x : Holds(x) \subseteq Live
    /\ \A y \in Live : \A x : y \in Holds(x) <=> x = y.ref
  BY DEF Holds, Live

\* Looking for the head of a queue.
LEMMA QueueTopSteady ==
    ASSUME NEW s, Good(s), NEW b \in Blocks, Kind(b) = "QUEUE"
    PROVE  LET t == QueueTop(s, b)
           IN  /\ Steady(s, t) /\ Untouched(s, t, {b}) /\ t.resource = s.resource
               /\ t.count = s.count
<1> DEFINE t == QueueTop(s, b)
<1>1. /\ Kept(s, t) /\ Differ(s, t, {"arr"}) /\ \A d \in Blocks \ {b} : t.arr[d] = s.arr[d]
      /\ \A K \in SUBSET Live : Count(t.arr[b], K) = Count(s.arr[b], K)
  BY KeepsQueueTop
<1> HIDE DEF t
<1>2. /\ t.events = s.events /\ t.resource = s.resource /\ t.pool = s.pool /\ t.count = s.count
  BY <1>1 DEF Differ, SimFields
<1>3. Count(s.arr[b], Live) \in Nat /\ \A x : Count(s.arr[b], Holds(x)) \in Nat
  BY SimTypes, PlacesFinite DEF Good
<1>4. s.count[b].held \in Nat
  BY SimTypes DEF Good
<1> DEFINE n == 0
<1>5. n \in Int /\ Count(t.arr[b], Live) = Count(s.arr[b], Live) + n
  BY <1>1, <1>3
<1>6. \A x \in Refs : Count(t.arr[b], Holds(x)) = Count(s.arr[b], Holds(x)) + (IF x = NullRef THEN n ELSE 0)
  BY <1>1, <1>3, HoldsLive
<1>7. Debt(t, b) = Debt(s, b)
  BY <1>2, DebtDepends
<1>8. t.count[b].held = s.count[b].held + n
  BY <1>2, <1>4
<1> HIDE DEF n
<1>9. Good(t) /\ \A d \in Blocks \ {b} : t.arr[d] = s.arr[d] /\ t.count[d] = s.count[d]
  BY <1>1, <1>2 DEF Kept
<1>10. Ledger(s, t, NullRef, n) /\ Untouched(s, t, {b})
  <2>1. QueueChange(s, t, b, NullRef, n)
    BY <1>2, <1>5, <1>6, <1>7, <1>8, <1>9 DEF QueueChange
  <2> QED
    BY <1>5, <1>9, <2>1, QueueLedger
<1>11. Steady(s, t)
  BY <1>10, SteadyLedger DEF n
<1> QED
  BY <1>2, <1>10, <1>11 DEF t

\* The head of a queue has gone on: it leaves the queue.
LEMMA DeletedLedger ==
    ASSUME NEW s, Good(s), NEW b \in Blocks, Kind(b) = "QUEUE",
           s.arr[b] # <<>>, Head(s.arr[b]) \in Live, s.count[b].held # 0
    PROVE  LET t == Counted(QueueDelete(s, b), b, "exitN")
           IN  /\ Kept(s, t) /\ Ledger(s, t, Head(s.arr[b]).ref, -1) /\ Untouched(s, t, {b})
               /\ t.resource = s.resource
<1> DEFINE u == QueueDelete(s, b)
           t == Counted(u, b, "exitN")
           y == Head(s.arr[b])
<1>1. y.valid
  BY DEF Live
<1>2. s.count[b] \in [CounterNames -> Nat] /\ s.count[b].held \in Nat /\ s.arr[b] \in Seq(Slots)
  BY SimTypes DEF Good
<1>3. /\ Kept(s, u) /\ Differ(s, u, {"arr", "count"})
      /\ \A d \in Blocks \ {b} : u.arr[d] = s.arr[d] /\ u.count[d] = s.count[d]
      /\ u.arr[b] = Tail(s.arr[b])
      /\ u.count[b] = [s.count[b] EXCEPT !.held = IF s.count[b].held > 0 THEN s.count[b].held - 1
                                                  ELSE s.count[b].held]
  BY <1>1, KeepsQueueDelete
<1>4. "exitN" \in Tallies
  BY DEF CounterNames, Tallies
<1> HIDE DEF u
<1>a. Good(u)
  BY <1>3 DEF Kept
<1>5. /\ Kept(u, t) /\ Differ(u, t, {"count"}) /\ \A d \in Blocks \ {b} : t.count[d] = u.count[d]
      /\ t.count[b] = OneMore(u.count[b], "exitN")
      /\ t.count[b].held = u.count[b].held
  BY <1>a, <1>4, KeepsCounted
<1> HIDE DEF t
<1>6. /\ t.events = s.events /\ t.resource = s.resource /\ t.pool = s.pool /\ t.arr = u.arr
  BY <1>3, <1>5 DEF Differ, SimFields
<1>7. Kept(s, t) /\ Good(t)
  BY <1>3, <1>5, KeptTransitive DEF Kept
<1>8. \A K : Count(s.arr[b], K) = Count(t.arr[b], K) + (IF y \in K THEN 1 ELSE 0)
  BY <1>2, <1>3, <1>6, TailCounts
<1>9. \A K : Count(t.arr[b], K) \in Nat
  BY <1>7, SimTypes, PlacesFinite DEF Good
<1> DEFINE n == -1
<1>10. n \in Int /\ Count(t.arr[b], Live) = Count(s.arr[b], Live) + n
  BY <1>8, <1>9
<1>11. \A x \in Refs : Count(t.arr[b], Holds(x)) = Count(s.arr[b], Holds(x)) + (IF x = y.ref THEN n ELSE 0)
  <2> TAKE x \in Refs
  <2>1. y \in Holds(x) <=> x = y.ref
    BY HoldsLive
  <2> HIDE DEF y
  <2> QED
    BY <1>8, <1>9, <2>1
<1>12. t.count[b].held = s.count[b].held + n /\ Debt(t, b) = Debt(s, b)
  <2>1. u.count[b].held = s.count[b].held - 1
    BY <1>2, <1>3 DEF CounterNames
  <2>2. /\ u.count[b].enterN = s.count[b].enterN /\ u.count[b].exitN = s.count[b].exitN
        /\ u.count[b].timeoutN = s.count[b].timeoutN /\ u.count[b].dropN = s.count[b].dropN
        /\ u.count[b] \in [CounterNames -> Nat]
    BY <1>2, <1>3, SimTypes DEF CounterNames, Kept, Good
  <2>3. /\ t.count[b].enterN = s.count[b].enterN /\ t.count[b].exitN = s.count[b].exitN + 1
        /\ t.count[b].timeoutN = s.count[b].timeoutN /\ t.count[b].dropN = s.count[b].dropN
    BY <1>5, <2>2 DEF CounterNames, OneMore
  <2>4. /\ s.count[b].enterN \in Nat /\ s.count[b].exitN \in Nat /\ s.count[b].timeoutN \in Nat
        /\ s.count[b].dropN \in Nat /\ s.count[b].held \in Nat
    BY <1>2 DEF CounterNames
  <2>5. /\ Debt(t, b) = t.count[b].enterN - t.count[b].exitN - t.count[b].timeoutN
                             - t.count[b].dropN - t.count[b].held
        /\ Debt(s, b) = s.count[b].enterN - s.count[b].exitN - s.count[b].timeoutN
                             - s.count[b].dropN - s.count[b].held
    BY DebtByKind
  <2>6. t.count[b].held = s.count[b].held - 1
    BY <1>5, <2>1
  <2>7. t.count[b].held = s.count[b].held + n
    BY <2>4, <2>6
  <2>8. Debt(t, b) = Debt(s, b)
    <3> DEFINE e == s.count[b].enterN
               x == s.count[b].exitN
               o == s.count[b].timeoutN
               p == s.count[b].dropN
               h == s.count[b].held
    <3>1. Debt(t, b) = e - (x + 1) - o - p - (h - 1) /\ Debt(s, b) = e - x - o - p - h
      BY <2>3, <2>5, <2>6
    <3>2. e \in Nat /\ x \in Nat /\ o \in Nat /\ p \in Nat /\ h \in Nat
      BY <2>4
    <3> HIDE DEF e, x, o, p, h
    <3> QED
      BY <3>1, <3>2
  <2> QED
    BY <2>7, <2>8
<1>13. \A d \in Blocks \ {b} : t.arr[d] = s.arr[d] /\ t.count[d] = s.count[d]
  BY <1>3, <1>5, <1>6
<1> HIDE DEF y, n
<1>14. Ledger(s, t, y.ref, n) /\ Untouched(s, t, {b})
  <2>1. QueueChange(s, t, b, y.ref, n)
    BY <1>6, <1>10, <1>11, <1>12, <1>13 DEF QueueChange
  <2> QED
    BY <1>7, <1>10, <2>1, QueueLedger
<1> QED
  BY <1>6, <1>7, <1>14 DEF t, y, u, n

\* A delay takes an entity and schedules the end of its service.
LEMMA ServiceLedger ==
    ASSUME NEW s, Good(s), NEW b \in Blocks, Kind(b) = "DELAY", MayHaveRoom(s, b),
           NEW ref, ValidRef(s, ref), NEW d \in P(b).duration.draws
    PROVE  LET t == Schedule(Taken(s, b), d, "delay", b, ref, 0)
           IN  Ledger(s, t, ref, 1) /\ \A S : Untouched(s, t, S)
<1> DEFINE u == Taken(s, b)
           v == [time |-> u.clock + d, do |-> "delay", block |-> b, ref |-> ref, idx |-> 0]
           t == Schedule(u, d, "delay", b, ref, 0)
<1>1. s.count[b] \in [CounterNames -> Nat] /\ s.count[b].held \in Nat
  BY SimTypes DEF Good
<1>2. /\ Kept(s, u) /\ Differ(s, u, {"count"})
      /\ \A c \in Blocks \ {b} : u.count[c] = s.count[c]
      /\ u.count[b] = [s.count[b] EXCEPT !["enterN"] = s.count[b]["enterN"] + 1,
                                         !["held"] = s.count[b]["held"] + 1]
  BY KeepsTaken
<1> HIDE DEF u
<1>3. Good(u) /\ ValidRef(u, ref)
  BY <1>2, SameValid DEF Kept
<1>4. v \in ValidEvents(u)
  BY <1>3, DelayEvent
<1>5. /\ Kept(u, t) /\ Differ(u, t, {"events"})
      /\ \A K : Count(t.events, K) = Count(u.events, K) + (IF v \in K THEN 1 ELSE 0)
  BY <1>3, <1>4, KeepsSchedule
<1> HIDE DEF t
<1>6. v \in Events
  BY <1>4 DEF ValidEvents
<1>7. \A x : (v \in Serves(x) <=> x = ref) /\ (v \in ServedBy(x) <=> x = b)
  BY <1>6 DEF Serves, ServedBy
<1> HIDE DEF v
<1>8. /\ t.arr = s.arr /\ t.resource = s.resource /\ t.pool = s.pool /\ t.count = u.count
      /\ u.events = s.events
  BY <1>2, <1>5 DEF Differ, SimFields
<1>9. \A K : Count(s.events, K) \in Nat
  BY SimTypes, PlacesFinite DEF Good
<1>10. \A x \in Refs : Places(t, x) = Places(s, x) + (IF x = ref THEN 1 ELSE 0)
  <2> TAKE x \in Refs
  <2>1. /\ SlotPlaces(t, x) = SlotPlaces(s, x) /\ FreeCount(t, x) = FreeCount(s, x)
        /\ Cardinality(SlotPlaces(s, x)) \in Nat /\ FreeCount(s, x) \in Nat
    <3>1. SlotPlaces(t, x) = SlotPlaces(s, x) /\ FreeCount(t, x) = FreeCount(s, x)
      BY <1>8 DEF SlotPlaces, FreeCount
    <3>2. Cardinality(SlotPlaces(s, x)) \in Nat /\ FreeCount(s, x) \in Nat
      BY PlacesTypes DEF FreeCount
    <3> QED
      BY <3>1, <3>2
  <2>2. Count(t.events, Serves(x)) = Count(s.events, Serves(x)) + (IF x = ref THEN 1 ELSE 0)
    BY <1>5, <1>7, <1>8
  <2>3. /\ Places(t, x) = Cardinality(SlotPlaces(t, x)) + Count(t.events, Serves(x)) + FreeCount(t, x)
        /\ Places(s, x) = Cardinality(SlotPlaces(s, x)) + Count(s.events, Serves(x)) + FreeCount(s, x)
    BY DEF Places, FreeCount
  <2>4. Count(s.events, Serves(x)) \in Nat
    BY <1>9
  <2> QED
    BY <2>1, <2>2, <2>3, <2>4
<1>11. ASSUME NEW c \in Blocks PROVE Debt(t, c) = Debt(s, c) /\ Unheld(t, c) = Unheld(s, c)
  <2>1. CASE c = b
    <3>1. /\ t.count[b].enterN = s.count[b].enterN + 1 /\ t.count[b].exitN = s.count[b].exitN
          /\ t.count[b].held = s.count[b].held + 1
      BY <1>1, <1>2, <1>8 DEF CounterNames
    <3>2. s.count[b].enterN \in Nat /\ s.count[b].exitN \in Nat /\ s.count[b].held \in Nat
      BY <1>1 DEF CounterNames
    <3>3. /\ Debt(t, b) = t.count[b].enterN - t.count[b].exitN - t.count[b].held
          /\ Debt(s, b) = s.count[b].enterN - s.count[b].exitN - s.count[b].held
      BY DebtByKind
    <3>4. Count(t.events, ServedBy(b)) = Count(s.events, ServedBy(b)) + 1
      BY <1>5, <1>7, <1>8
    <3>5. /\ Unheld(t, b) = t.count[b].held - Count(t.events, ServedBy(b))
          /\ Unheld(s, b) = s.count[b].held - Count(s.events, ServedBy(b))
      BY DEF Unheld
    <3>6. Count(s.events, ServedBy(b)) \in Nat
      BY <1>9
    <3> QED
      BY <2>1, <3>1, <3>2, <3>3, <3>4, <3>5, <3>6
  <2>2. CASE c # b
    <3>1. t.count[c] = s.count[c]
      BY <1>2, <1>8, <2>2
    <3>2. Count(t.events, ServedBy(c)) = Count(s.events, ServedBy(c))
      BY <1>5, <1>7, <1>8, <1>9, <2>2
    <3> QED
      BY <1>8, <3>1, <3>2, DebtDepends DEF Unheld
  <2> QED
    BY <2>1, <2>2
<1>12. SameUse(s, t)
  BY <1>8 DEF SameUse, UseDebt
<1>13. \A S : Untouched(s, t, S)
  <2>1. \A q \in OfKind("QUEUE") : t.count[q] = s.count[q]
    BY <1>2, <1>8 DEF OfKind
  <2> QED
    BY <1>8, <2>1 DEF Untouched
<1> QED
  BY <1>10, <1>11, <1>12, <1>13 DEF Ledger, Moves, Even, t, u

\* Nobody has moved, whatever became of the resources.
Still(s, t) == (\A x \in Refs : Places(t, x) = Places(s, x)) /\ Even(s, t)

\* The resources hold nobody.
LEMMA ResourceStill ==
    ASSUME NEW s, NEW t, Differ(s, t, {"resource"})
    PROVE  Still(s, t) /\ \A S : Untouched(s, t, S)
<1>1. t.arr = s.arr /\ t.events = s.events /\ t.pool = s.pool /\ t.count = s.count
  BY DEF Differ, SimFields
<1>2. \A x \in Refs : Places(t, x) = Places(s, x)
  BY <1>1, PlacesDepend
<1> QED
  BY <1>1, <1>2 DEF Still, Even, Debt, Unheld, Untouched

\* The balance of resource r is n higher.
UseMoves(s, t, r, n) ==
    \A d \in DOMAIN program.capacity : UseDebt(t, d) = UseDebt(s, d) + (IF d = r THEN n ELSE 0)

\* A unit is taken, or given back.
LEMMA UnitBooks ==
    ASSUME NEW s, Good(s), NEW r \in DOMAIN program.capacity
    PROVE  /\ s.resource[r].busy < program.capacity[r] =>
                 /\ Still(s, UnitTaken(s, r)) /\ \A S : Untouched(s, UnitTaken(s, r), S)
                 /\ UseMoves(s, UnitTaken(s, r), r, 1)
           /\ s.resource[r].busy # 0 =>
                 /\ Still(s, UnitGiven(s, r)) /\ \A S : Untouched(s, UnitGiven(s, r), S)
                 /\ UseMoves(s, UnitGiven(s, r), r, -1)
<1>1. s.resource[r] \in Uses
  BY SimTypes DEF Good
<1>2. \A d \in DOMAIN program.capacity : UseDebt(s, d) \in Int
  BY BooksTypes
<1>3. ASSUME NEW t, NEW n \in {1, -1}, Differ(s, t, {"resource"}),
             t.resource[r] = [s.resource[r] EXCEPT !.busy = s.resource[r].busy + n],
             \A d \in DOMAIN program.capacity \ {r} : t.resource[d] = s.resource[d]
      PROVE  Still(s, t) /\ (\A S : Untouched(s, t, S)) /\ UseMoves(s, t, r, n)
  <2>1. ASSUME NEW d \in DOMAIN program.capacity
        PROVE  UseDebt(t, d) = UseDebt(s, d) + (IF d = r THEN n ELSE 0)
    <3>1. CASE d = r
      <4>1. /\ t.resource[r].busy = s.resource[r].busy + n
            /\ t.resource[r].seizeN = s.resource[r].seizeN
            /\ t.resource[r].releaseN = s.resource[r].releaseN
        BY <1>1, <1>3 DEF Uses
      <4>2. s.resource[r].busy \in Nat /\ s.resource[r].seizeN \in Nat /\ s.resource[r].releaseN \in Nat
        BY <1>1 DEF Uses
      <4>3. n \in Int
        BY <1>3
      <4> QED
        BY <3>1, <4>1, <4>2, <4>3 DEF UseDebt
    <3>2. CASE d # r
      <4>1. UseDebt(t, d) = UseDebt(s, d)
        BY <1>3, <3>2 DEF UseDebt
      <4> QED
        BY <1>2, <3>2, <4>1
    <3> QED
      BY <3>1, <3>2
  <2> QED
    BY <1>3, <2>1, ResourceStill DEF UseMoves
<1>4. s.resource[r].busy \in Nat
  BY <1>1 DEF Uses
<1>5. ASSUME s.resource[r].busy < program.capacity[r]
      PROVE  /\ Still(s, UnitTaken(s, r)) /\ \A S : Untouched(s, UnitTaken(s, r), S)
             /\ UseMoves(s, UnitTaken(s, r), r, 1)
  <2> DEFINE t == UnitTaken(s, r)
  <2>1. /\ Differ(s, t, {"resource"})
        /\ t.resource[r] = [s.resource[r] EXCEPT !.busy = s.resource[r].busy + 1]
        /\ \A d \in DOMAIN program.capacity \ {r} : t.resource[d] = s.resource[d]
    BY <1>5, KeepsUnit
  <2> HIDE DEF t
  <2> QED
    BY <1>3, <2>1 DEF t
<1>6. ASSUME s.resource[r].busy # 0
      PROVE  /\ Still(s, UnitGiven(s, r)) /\ \A S : Untouched(s, UnitGiven(s, r), S)
             /\ UseMoves(s, UnitGiven(s, r), r, -1)
  <2> DEFINE t == UnitGiven(s, r)
             n == -1
  <2>1. /\ Differ(s, t, {"resource"})
        /\ t.resource[r] = [s.resource[r] EXCEPT !.busy = s.resource[r].busy - 1]
        /\ \A d \in DOMAIN program.capacity \ {r} : t.resource[d] = s.resource[d]
    BY <1>6, KeepsUnit
  <2>2. s.resource[r].busy - 1 = s.resource[r].busy + n /\ n \in {1, -1}
    BY <1>4
  <2> HIDE DEF t, n
  <2>3. t.resource[r] = [s.resource[r] EXCEPT !.busy = s.resource[r].busy + n]
    BY <2>1, <2>2
  <2>4. /\ Still(s, t) /\ \A S : Untouched(s, t, S)
        /\ UseMoves(s, t, r, n)
    BY <1>3, <2>1, <2>2, <2>3
  <2> QED
    BY <2>4 DEF t, n
<1> QED
  BY <1>5, <1>6

\* A unit is counted as seized, or as released.
LEMMA UseBooks ==
    ASSUME NEW s, Good(s), NEW b \in Blocks, Kind(b) \in {"SEIZE", "RELEASE"},
           NEW r \in DOMAIN program.capacity
    PROVE  /\ Still(s, Seized(s, b, r)) /\ \A S : Untouched(s, Seized(s, b, r), S)
           /\ UseMoves(s, Seized(s, b, r), r, -1)
           /\ Still(s, Released(s, b, r)) /\ \A S : Untouched(s, Released(s, b, r), S)
           /\ UseMoves(s, Released(s, b, r), r, 1)
<1> DEFINE u == Passed(s, b)
           t == Seized(s, b, r)
           v == Released(s, b, r)
<1>1. Kind(b) \notin {"QUEUE", "DELAY", "CREATE"}
  OBVIOUS
<1>2. Steady(s, u) /\ (\A S : Untouched(s, u, S)) /\ Differ(s, u, {"count"})
  BY <1>1, PassedSteady, KeepsPassed
<1>3. /\ Differ(s, t, {"count", "resource"}) /\ Differ(s, v, {"count", "resource"})
      /\ t.count = u.count /\ v.count = u.count
      /\ t.resource[r] = [s.resource[r] EXCEPT !.seizeN = s.resource[r].seizeN + 1]
      /\ v.resource[r] = [s.resource[r] EXCEPT !.releaseN = s.resource[r].releaseN + 1]
      /\ \A d \in DOMAIN program.capacity \ {r} :
            t.resource[d] = s.resource[d] /\ v.resource[d] = s.resource[d]
  <2>1. /\ Kept(s, Seized(s, b, r)) /\ Kept(s, Released(s, b, r))
        /\ Differ(s, Seized(s, b, r), {"count", "resource"})
        /\ Differ(s, Released(s, b, r), {"count", "resource"})
        /\ Seized(s, b, r).count = Passed(s, b).count /\ Released(s, b, r).count = Passed(s, b).count
        /\ Seized(s, b, r).resource[r] =
              [s.resource[r] EXCEPT !.seizeN = s.resource[r].seizeN + 1]
        /\ Released(s, b, r).resource[r] =
              [s.resource[r] EXCEPT !.releaseN = s.resource[r].releaseN + 1]
        /\ \A d \in DOMAIN program.capacity \ {r} :
              /\ Seized(s, b, r).resource[d] = s.resource[d]
              /\ Released(s, b, r).resource[d] = s.resource[d]
    BY KeepsUseAndPass
  <2> QED
    BY <2>1
<1> HIDE DEF u, t, v
<1>4. Differ(u, t, {"resource"}) /\ Differ(u, v, {"resource"})
  BY <1>2, <1>3 DEF Differ, SimFields
<1>5. Still(u, t) /\ Still(u, v) /\ \A S : Untouched(u, t, S) /\ Untouched(u, v, S)
  BY <1>4, ResourceStill
<1>6. Still(s, t) /\ Still(s, v) /\ \A S : Untouched(s, t, S) /\ Untouched(s, v, S)
  BY <1>2, <1>5 DEF Still, Steady, Even, Untouched
<1>7. s.resource[r] \in Uses /\ \A d \in DOMAIN program.capacity : UseDebt(s, d) \in Int
  BY SimTypes, BooksTypes DEF Good
<1>8. /\ t.resource[r].busy = s.resource[r].busy /\ t.resource[r].seizeN = s.resource[r].seizeN + 1
      /\ t.resource[r].releaseN = s.resource[r].releaseN
      /\ v.resource[r].busy = s.resource[r].busy /\ v.resource[r].seizeN = s.resource[r].seizeN
      /\ v.resource[r].releaseN = s.resource[r].releaseN + 1
  BY <1>3, <1>7 DEF Uses
<1>9. s.resource[r].busy \in Nat /\ s.resource[r].seizeN \in Nat /\ s.resource[r].releaseN \in Nat
  BY <1>7 DEF Uses
<1>10. UseDebt(t, r) = UseDebt(s, r) + (-1) /\ UseDebt(v, r) = UseDebt(s, r) + 1
  BY <1>8, <1>9 DEF UseDebt
<1>11. \A d \in DOMAIN program.capacity \ {r} : UseDebt(t, d) = UseDebt(s, d) /\ UseDebt(v, d) = UseDebt(s, d)
  BY <1>3 DEF UseDebt
<1>12. UseMoves(s, t, r, -1) /\ UseMoves(s, v, r, 1)
  BY <1>7, <1>10, <1>11 DEF UseMoves
<1> QED
  BY <1>6, <1>12 DEF t, v

------------------------------------------------------------------------------
(* The block functions move the entity they are called with, and nobody    *)
(* else, if the functions they call do.                                    *)

\* What a call that leaves the run going does: it takes the entity, or nothing at
\* all, and it touches the queues it may come to only.
Moved(s, b, ref, r) ==
    ~r.s.stop =>
        /\ Untouched(s, r.s, Entered(b))
        /\ r.ok => Ledger(s, r.s, ref, 1)
        /\ ~r.ok => Steady(s, r.s) /\ r.s.resource = s.resource

Advances(call) ==
    \A s, ref : \A b \in Blocks :
        Good(s) /\ ValidRef(s, ref) => \A r \in call[<<s, b, ref>>] : Moved(s, b, ref, r)

\* What a wake does that leaves the run going.
Woken(s, b, r) == ~r.s.stop => Steady(s, r.s) /\ Untouched(s, r.s, Entered(b))

\* An untouched queue outside a set is outside a smaller one.
LEMMA UntouchedGrows ==
    ASSUME NEW s, NEW t, NEW S, NEW T, S \subseteq T, Untouched(s, t, S)
    PROVE  Untouched(s, t, T)
  BY DEF Untouched

\* The heads a wake sends on are where they were when they have been taken.
LEMMA TryAdvanceMoves ==
    ASSUME NEW call, Answers(call), Advances(call), NoReentry,
           NEW s, Good(s), NEW b \in Blocks, Kind(b) = "QUEUE",
           NEW r \in TryAdvance(call, s, b)
    PROVE  Woken(s, b, r)
<1> DEFINE top == QueueTop(s, b)
           next == P(b).next
           ref == Head(top.arr[b]).ref
           out(o) == Counted(QueueDelete(o.s, b), b, "exitN")
<1>1. /\ Kept(s, top)
      /\ top.arr[b] # <<>> => Head(top.arr[b]) \in Live /\ ValidRef(top, ref)
  BY KeepsQueueTop
<1>2. Steady(s, top) /\ Untouched(s, top, {b})
  BY QueueTopSteady
<1>3. \/ r = [ok |-> FALSE, s |-> top]
      \/ /\ top.count[b].held # 0 /\ top.arr[b] # <<>>
         /\ \E o \in call[<<top, next, ref>>] :
               /\ o \in Reply /\ Kept(top, o.s)
               /\ r = IF o.ok THEN [ok |-> TRUE, s |-> out(o)] ELSE o
  BY TryAdvanceShape
<1>4. next \in Blocks /\ next \in Called(b)
  BY QueueParts DEF Called, Good
<1>5. {b} \subseteq Entered(b) /\ Entered(next) \subseteq Entered(b)
  BY <1>4, EnteredFacts
<1>6. b \in OfKind("QUEUE") /\ b \notin Entered(next)
  BY DEF NoReentry, OfKind
<1> SUFFICES ASSUME ~r.s.stop PROVE Steady(s, r.s) /\ Untouched(s, r.s, Entered(b))
  BY DEF Woken
<1> HIDE DEF top, next, out
<1>7. CASE r = [ok |-> FALSE, s |-> top]
  BY <1>2, <1>5, <1>7, UntouchedGrows
<1>8. ASSUME top.count[b].held # 0, top.arr[b] # <<>>,
             NEW o \in call[<<top, next, ref>>], o \in Reply, Kept(top, o.s),
             r = IF o.ok THEN [ok |-> TRUE, s |-> out(o)] ELSE o
      PROVE  Steady(s, r.s) /\ Untouched(s, r.s, Entered(b))
  <2>1. Good(top) /\ ValidRef(top, ref) /\ Head(top.arr[b]) \in Live /\ Good(o.s)
    BY <1>1, <1>8 DEF Kept
  <2> HIDE DEF ref
  <2>2. Moved(top, next, ref, o)
    BY <1>4, <1>8, <2>1 DEF Advances
  <2>3. CASE ~o.ok
    <3>1. r = o
      BY <1>8, <2>3
    <3>2. Steady(top, o.s) /\ Untouched(top, o.s, Entered(next))
      BY <2>2, <2>3, <3>1 DEF Moved
    <3> QED
      BY <1>2, <1>5, <3>1, <3>2, LedgerSteady, UntouchedTransitive
  <2>4. CASE o.ok
    <3>1. r.s = out(o)
      BY <1>8, <2>4
    <3>2. Kept(o.s, out(o))
      <4>1. "exitN" \in Tallies
        BY DEF CounterNames, Tallies
      <4>2. Kept(o.s, QueueDelete(o.s, b)) /\ Good(QueueDelete(o.s, b))
        BY <2>1, KeepsQueueDelete DEF Kept
      <4>3. Kept(QueueDelete(o.s, b), out(o))
        BY <4>1, <4>2, KeepsCounted DEF out
      <4> QED
        BY <4>2, <4>3, KeptTransitive
    <3>3. ~o.s.stop
      BY <3>1, <3>2 DEF Kept, Same
    <3>4. Ledger(top, o.s, ref, 1) /\ Untouched(top, o.s, Entered(next))
      BY <2>2, <2>4, <3>3 DEF Moved
    <3>5. o.s.arr[b] = top.arr[b] /\ o.s.count[b].held = top.count[b].held
      BY <1>6, <3>4 DEF Untouched
    <3> DEFINE n == -1
    <3>6. Ledger(o.s, out(o), ref, n) /\ Untouched(o.s, out(o), {b})
      BY <1>8, <2>1, <3>5, DeletedLedger DEF ref, out
    <3>7. n \in Int /\ 1 \in Int /\ 1 + n = 0
      OBVIOUS
    <3> HIDE DEF n
    <3>8. Ledger(top, out(o), ref, 1 + n)
      BY <2>1, <3>4, <3>6, <3>7, LedgerTransitive
    <3>9. Steady(top, out(o))
      BY <2>1, <3>7, <3>8, SteadyLedger
    <3>10. Untouched(top, out(o), Entered(b))
      BY <1>5, <3>4, <3>6, UntouchedTransitive
    <3> QED
      BY <1>2, <1>5, <3>1, <3>9, <3>10, LedgerSteady, UntouchedTransitive
  <2> QED
    BY <2>3, <2>4
<1> QED
  BY <1>3, <1>7, <1>8

\* QUEUE.
LEMMA QueueMoves ==
    ASSUME NEW call, Answers(call), Advances(call), NoReentry,
           NEW s, Good(s), NEW b \in Blocks, Kind(b) = "QUEUE",
           NEW ref, ValidRef(s, ref), NEW r \in EnterQueue(call, s, b, ref)
    PROVE  Moved(s, b, ref, r)
<1>1. {b} \subseteq Entered(b) /\ Linked
  BY EnteredFacts DEF Good
<1>2. CASE P(b).exitOnOverflow /\ r \in call[<<TurnedAway(s, b), P(b).nextOverflow, ref>>]
  <2> DEFINE u == TurnedAway(s, b)
             next == P(b).nextOverflow
  <2>1. Kept(s, u) /\ Good(u) /\ ValidRef(u, ref)
    BY KeepsTurnedAway, SameValid DEF Kept
  <2>2. Steady(s, u) /\ Untouched(s, u, {}) /\ u.resource = s.resource
    BY TurnedAwaySteady
  <2>3. next \in Blocks /\ next \in Called(b)
    BY <1>1, <1>2, QueueParts DEF Called
  <2>4. Entered(next) \subseteq Entered(b)
    BY <2>3, EnteredFacts
  <2> HIDE DEF u, next
  <2>5. Moved(u, next, ref, r)
    BY <1>2, <2>1, <2>3 DEF Advances, u, next
  <2> SUFFICES ASSUME ~r.s.stop
               PROVE  /\ Untouched(s, r.s, Entered(b))
                      /\ r.ok => Ledger(s, r.s, ref, 1)
                      /\ ~r.ok => Steady(s, r.s) /\ r.s.resource = s.resource
    BY DEF Moved
  <2>6. Untouched(s, r.s, Entered(b))
    BY <2>2, <2>4, <2>5, UntouchedTransitive DEF Moved
  <2>7. r.ok => Ledger(s, r.s, ref, 1)
    BY <2>2, <2>5, LedgerSteady DEF Moved
  <2>8. ~r.ok => Steady(s, r.s) /\ r.s.resource = s.resource
    BY <2>2, <2>5, LedgerSteady DEF Moved
  <2> QED
    BY <2>6, <2>7, <2>8
<1>3. CASE r = [ok |-> FALSE, s |-> s]
  BY <1>3, SteadyReflexive DEF Moved, Untouched
<1>4. CASE r = [ok |-> FALSE, s |-> Stopped(Counted(s, b, "enterN"), "type")]
  <2> DEFINE u == Counted(s, b, "enterN")
  <2>1. "enterN" \in Tallies /\ "type" \in Reasons
    BY DEF CounterNames, Tallies, Reasons
  <2>2. u \in Sims
    BY <2>1, KeepsCounted DEF Kept, Good
  <2> HIDE DEF u
  <2>3. Stopped(u, "type").stop
    BY <2>1, <2>2, SetStop
  <2> QED
    BY <1>4, <2>3 DEF Moved, u
<1>5. ASSUME MayHaveRoom(s, b), NEW u \in Joined(s, b, ref), NEW w \in TryAdvance(call, u, b),
             r = [ok |-> TRUE, s |-> w.s]
      PROVE  Moved(s, b, ref, r)
  <2>1. Kept(s, u) /\ Good(u)
    BY <1>5, KeepsJoined DEF Kept
  <2>2. Ledger(s, u, ref, 1) /\ Untouched(s, u, {b})
    BY <1>5, JoinedLedger
  <2>3. Woken(u, b, w)
    BY <2>1, TryAdvanceMoves
  <2> SUFFICES ASSUME ~r.s.stop PROVE Untouched(s, r.s, Entered(b)) /\ Ledger(s, r.s, ref, 1)
    BY <1>5 DEF Moved
  <2>4. r.s = w.s
    BY <1>5
  <2>5. Steady(u, w.s) /\ Untouched(u, w.s, Entered(b))
    BY <2>3, <2>4 DEF Woken
  <2> QED
    BY <1>1, <2>2, <2>4, <2>5, LedgerSteady, UntouchedTransitive
<1> QED
  BY <1>1, <1>2, <1>3, <1>4, <1>5, QueueShape

\* DELAY.
LEMMA DelayMoves ==
    ASSUME NEW s, Good(s), NEW b \in Blocks, Kind(b) = "DELAY",
           NEW ref, ValidRef(s, ref), NEW r \in EnterDelay(s, b, ref)
    PROVE  Moved(s, b, ref, r)
<1>1. CASE r = [ok |-> FALSE, s |-> s]
  BY <1>1, SteadyReflexive DEF Moved, Untouched
<1>2. CASE r = [ok |-> FALSE, s |-> Stopped(s, "type")]
  <2>1. Stopped(s, "type").stop
    BY SetStop DEF Good, Reasons
  <2> QED
    BY <1>2, <2>1 DEF Moved
<1>3. ASSUME MayHaveRoom(s, b), NEW d \in P(b).duration.draws,
             r = [ok |-> TRUE, s |-> Schedule(Taken(s, b), d, "delay", b, ref, 0)]
      PROVE  Moved(s, b, ref, r)
  <2> DEFINE t == Schedule(Taken(s, b), d, "delay", b, ref, 0)
  <2>1. Ledger(s, t, ref, 1) /\ \A S : Untouched(s, t, S)
    BY <1>3, ServiceLedger
  <2> HIDE DEF t
  <2>2. r = [ok |-> TRUE, s |-> t]
    BY <1>3 DEF t
  <2> QED
    BY <2>1, <2>2 DEF Moved
<1> QED
  BY <1>1, <1>2, <1>3, DelayShape

\* TERMINATE.
LEMMA TerminateMoves ==
    ASSUME NEW s, Good(s), NEW b \in Blocks, Kind(b) = "TERMINATE", NEW ref, ValidRef(s, ref),
           NEW r \in EnterTerminate(s, b, ref)
    PROVE  Moved(s, b, ref, r)
<1> DEFINE u == Counted(s, b, "enterN")
           t == FreeEntity(u, ref)
<1>1. "enterN" \in Tallies /\ Kind(b) \notin {"QUEUE", "DELAY", "CREATE"}
  BY DEF CounterNames, Tallies
<1>2. Kept(s, u) /\ Steady(s, u) /\ \A S : Untouched(s, u, S)
  BY <1>1, KeepsCounted, CountedSteady
<1>3. Good(u) /\ ValidRef(u, ref)
  BY <1>2, SameValid DEF Kept
<1>4. r = [ok |-> TRUE, s |-> t]
  BY DEF EnterTerminate, Returns
<1> HIDE DEF u
<1>5. Ledger(u, t, ref, 1) /\ \A S : Untouched(u, t, S)
  BY <1>3, FreeLedger
<1> HIDE DEF t
<1>6. Ledger(s, t, ref, 1) /\ Untouched(s, t, Entered(b))
  BY <1>2, <1>5, LedgerSteady DEF Untouched
<1> QED
  BY <1>4, <1>6 DEF Moved

\* What a block has called has run on if the block's own reply leaves the run going.
LEMMA RunsOn ==
    ASSUME NEW s, NEW t, Kept(s, t), ~t.stop
    PROVE  ~s.stop
  BY DEF Kept, Same

\* ASSIGN.
LEMMA AssignMoves ==
    ASSUME NEW call, Answers(call), Advances(call),
           NEW s, Good(s), NEW b \in Blocks, Kind(b) = "ASSIGN",
           NEW ref, ValidRef(s, ref), NEW r \in EnterAssign(call, s, b, ref)
    PROVE  Moved(s, b, ref, r)
<1> DEFINE next == P(b).next
<1>0. Assigns(call, s, b, ref, r)
  BY AssignShape
<1>6. PICK u \in AllAssigned(s, b, ref), o \in Reply :
         /\ NewValues(s, u)
         /\ o \in call[<<u, next, ref>>]
         /\ Kept(u, o.s)
         /\ r = [ok |-> o.ok, s |-> IF o.ok THEN Passed(o.s, b) ELSE Restored(o.s, b, ref, s)]
  BY <1>0 DEF Assigns
<1>1. NewValues(s, u) /\ Kept(s, u)
  BY <1>6 DEF NewValues
<1>2. Steady(s, u) /\ (\A S : Untouched(s, u, S)) /\ u.resource = s.resource
  BY <1>1, NewValuesSteady
<1>3. Good(u) /\ ValidRef(u, ref)
  BY <1>1, SameValid DEF Kept
<1>4. next \in Blocks /\ next \in Called(b)
  BY AssignParts DEF Called, Good
<1>5. Entered(next) \subseteq Entered(b)
  BY <1>4, EnteredFacts
<1> HIDE DEF next
<1>7. Moved(u, next, ref, o)
  BY <1>3, <1>4, <1>6 DEF Advances
<1>8. Good(o.s) /\ Kept(s, o.s) /\ o.ok \in BOOLEAN
  BY <1>1, <1>6, KeptTransitive DEF Kept, Reply
<1> SUFFICES ASSUME ~r.s.stop
             PROVE  /\ Untouched(s, r.s, Entered(b))
                    /\ r.ok => Ledger(s, r.s, ref, 1)
                    /\ ~r.ok => Steady(s, r.s) /\ r.s.resource = s.resource
  BY DEF Moved
<1>9. CASE o.ok
  <2> DEFINE t == Passed(o.s, b)
  <2>1. r.ok /\ r.s = t
    BY <1>6, <1>9
  <2>2. Kept(o.s, t)
    BY <1>8, KeepsPassed
  <2>3. Steady(o.s, t) /\ \A S : Untouched(o.s, t, S)
    <3>1. Kind(b) \notin {"QUEUE", "DELAY", "CREATE"}
      OBVIOUS
    <3> QED
      BY <1>8, <3>1, PassedSteady
  <2> HIDE DEF t
  <2>4. ~o.s.stop
    BY <2>1, <2>2, RunsOn
  <2>5. Ledger(u, o.s, ref, 1) /\ Untouched(u, o.s, Entered(next))
    BY <1>7, <1>9, <2>4 DEF Moved
  <2>6. Ledger(s, t, ref, 1)
    BY <1>2, <2>3, <2>5, LedgerSteady
  <2>7. Untouched(s, t, Entered(b))
    BY <1>2, <1>5, <2>3, <2>5 DEF Untouched
  <2> QED
    BY <2>1, <2>6, <2>7
<1>10. CASE ~o.ok
  <2> DEFINE t == Restored(o.s, b, ref, s)
  <2>1. ~r.ok /\ r.s = t
    BY <1>6, <1>10
  <2>2. ValidRef(o.s, ref) /\ Same(s, o.s)
    BY <1>8, SameValid DEF Kept
  <2>3. NewValues(o.s, t)
    BY <1>8, <2>2, KeepsRestored
  <2> HIDE DEF t
  <2>4. Kept(o.s, t) /\ Steady(o.s, t) /\ (\A S : Untouched(o.s, t, S)) /\ t.resource = o.s.resource
    BY <2>3, NewValuesSteady DEF NewValues
  <2>5. ~o.s.stop
    BY <2>1, <2>4, RunsOn
  <2>6. Steady(u, o.s) /\ Untouched(u, o.s, Entered(next)) /\ o.s.resource = u.resource
    BY <1>7, <1>10, <2>5 DEF Moved
  <2>7. Steady(s, t)
    BY <1>2, <2>4, <2>6, LedgerSteady
  <2>8. Untouched(s, t, Entered(b))
    BY <1>2, <1>5, <2>4, <2>6 DEF Untouched
  <2>9. t.resource = s.resource
    BY <1>2, <2>4, <2>6
  <2> QED
    BY <2>1, <2>7, <2>8, <2>9
<1> QED
  BY <1>9, <1>10

\* BRANCH.
LEMMA BranchMoves ==
    ASSUME NEW call, Answers(call), Advances(call),
           NEW s, Good(s), NEW b \in Blocks, Kind(b) = "BRANCH",
           NEW ref, ValidRef(s, ref), NEW r \in EnterBranch(call, s, b, ref)
    PROVE  Moved(s, b, ref, r)
<1>1. CASE StopsRun(s, r)
  <2>1. PICK why \in Reasons : r = [ok |-> FALSE, s |-> Stopped(s, why)]
    BY <1>1 DEF StopsRun
  <2>2. r.s.stop
    BY <2>1, SetStop DEF Good
  <2> QED
    BY <2>2 DEF Moved
<1>2. CASE WentOn(call, s, b, ref, r)
  <2>1. PICK next \in Ways(b) : \E o \in Reply :
           /\ o \in call[<<s, next, ref>>]
           /\ Kept(s, o.s)
           /\ r = [ok |-> o.ok, s |-> IF o.ok THEN Passed(o.s, b) ELSE o.s]
    BY <1>2 DEF WentOn
  <2>2. PICK o \in Reply :
           /\ o \in call[<<s, next, ref>>]
           /\ Kept(s, o.s)
           /\ r = [ok |-> o.ok, s |-> IF o.ok THEN Passed(o.s, b) ELSE o.s]
    BY <2>1
  <2>3. next \in Called(b) /\ next \in Blocks
    BY BranchParts DEF Called, Ways, Good
  <2>4. Entered(next) \subseteq Entered(b)
    BY <2>3, EnteredFacts
  <2>5. Moved(s, next, ref, o)
    BY <2>2, <2>3 DEF Advances
  <2>6. Good(o.s) /\ o.ok \in BOOLEAN
    BY <2>2 DEF Kept, Reply
  <2> SUFFICES ASSUME ~r.s.stop
               PROVE  /\ Untouched(s, r.s, Entered(b))
                      /\ r.ok => Ledger(s, r.s, ref, 1)
                      /\ ~r.ok => Steady(s, r.s) /\ r.s.resource = s.resource
    BY DEF Moved
  <2>7. CASE ~o.ok
    <3>1. ~r.ok /\ r.s = o.s
      BY <2>2, <2>7
    <3> QED
      BY <2>4, <2>5, <2>7, <3>1, UntouchedGrows DEF Moved
  <2>8. CASE o.ok
    <3> DEFINE t == Passed(o.s, b)
    <3>1. r.ok /\ r.s = t
      BY <2>2, <2>8
    <3>2. Kind(b) \notin {"QUEUE", "DELAY", "CREATE"}
      OBVIOUS
    <3>3. Kept(o.s, t) /\ Steady(o.s, t) /\ \A S : Untouched(o.s, t, S)
      BY <2>6, <3>2, KeepsPassed, PassedSteady
    <3> HIDE DEF t
    <3>4. ~o.s.stop
      BY <3>1, <3>3, RunsOn
    <3>5. Ledger(s, o.s, ref, 1) /\ Untouched(s, o.s, Entered(next))
      BY <2>5, <2>8, <3>4 DEF Moved
    <3>6. Ledger(s, t, ref, 1)
      BY <3>3, <3>5, LedgerSteady
    <3>7. Untouched(s, t, Entered(b))
      BY <2>4, <3>3, <3>5 DEF Untouched
    <3> QED
      BY <3>1, <3>6, <3>7
  <2> QED
    BY <2>7, <2>8
<1> QED
  BY <1>1, <1>2, BranchShape

\* An entry between two changes of a resource that cancel each other.
LEMMA UseCancels ==
    ASSUME NEW s, Good(s), NEW u, NEW v, NEW t, NEW ref, NEW r, NEW n \in Int, NEW k \in Int, n + k = 0,
           Still(s, u), UseMoves(s, u, r, n), Ledger(u, v, ref, 1),
           Still(v, t), UseMoves(v, t, r, k)
    PROVE  Ledger(s, t, ref, 1)
<1>1. Moves(s, t, ref, 1) /\ Even(s, t)
  BY DEF Still, Ledger, Moves, Even
<1>2. \A d \in DOMAIN program.capacity : UseDebt(s, d) \in Int
  BY BooksTypes
<1>3. ASSUME NEW d \in DOMAIN program.capacity PROVE UseDebt(t, d) = UseDebt(s, d)
  <2>1. /\ UseDebt(u, d) = UseDebt(s, d) + (IF d = r THEN n ELSE 0)
        /\ UseDebt(v, d) = UseDebt(u, d)
        /\ UseDebt(t, d) = UseDebt(v, d) + (IF d = r THEN k ELSE 0)
    BY DEF UseMoves, Ledger, SameUse
  <2> QED
    BY <1>2, <2>1
<1> QED
  BY <1>1, <1>3 DEF Ledger, SameUse

\* The unit as it was, when the next block has refused.
LEMMA UseRestored ==
    ASSUME NEW s, Good(s), NEW u, NEW v, Good(v), NEW r \in DOMAIN program.capacity,
           Still(s, u), Steady(u, v), v.resource = u.resource,
           u.resource[r].seizeN = s.resource[r].seizeN,
           u.resource[r].releaseN = s.resource[r].releaseN,
           \A d \in DOMAIN program.capacity \ {r} : u.resource[d] = s.resource[d]
    PROVE  LET t == InUse(v, r, s.resource[r].busy)
           IN  Steady(s, t) /\ t.resource = s.resource /\ \A S : Untouched(v, t, S)
<1> DEFINE n == s.resource[r].busy
           t == InUse(v, r, n)
           x == [v.resource[r] EXCEPT !.busy = n]
<1>1. s.resource \in [DOMAIN program.capacity -> Uses] /\ v.resource \in [DOMAIN program.capacity -> Uses]
  BY DEF Good, Sims
<1>2. x \in Uses
  BY <1>1 DEF Uses
<1>3. t = [v EXCEPT !.resource[r] = x]
  BY DEF InUse
<1>4. x = s.resource[r]
  <2>1. /\ s.resource[r] = [busy |-> n, seizeN |-> s.resource[r].seizeN, releaseN |-> s.resource[r].releaseN]
        /\ v.resource[r] \in Uses
    BY <1>1 DEF Uses
  <2>2. x = [busy |-> n, seizeN |-> v.resource[r].seizeN, releaseN |-> v.resource[r].releaseN]
    BY <2>1 DEF Uses
  <2> QED
    BY <2>1, <2>2
<1> HIDE DEF x
<1>5. t \in Sims /\ Differ(v, t, {"resource"}) /\ t.resource[r] = x
      /\ \A d \in DOMAIN program.capacity \ {r} : t.resource[d] = v.resource[d]
  BY <1>2, <1>3, SetResource DEF Good
<1> HIDE DEF t
<1>6. t.resource = s.resource
  <2>1. t.resource \in [DOMAIN program.capacity -> Uses]
    BY <1>5 DEF Sims
  <2>2. \A d \in DOMAIN program.capacity : t.resource[d] = s.resource[d]
    BY <1>4, <1>5
  <2> QED
    BY <1>1, <2>1, <2>2
<1>7. Still(v, t) /\ \A S : Untouched(v, t, S)
  BY <1>5, ResourceStill
<1>8. Still(s, t)
  BY <1>7 DEF Still, Steady, Even
<1>9. SameUse(s, t)
  BY <1>6 DEF SameUse, UseDebt
<1> QED
  BY <1>6, <1>7, <1>8, <1>9 DEF Steady, Still, t, n

\* SEIZE.
LEMMA SeizeMoves ==
    ASSUME NEW call, Answers(call), Advances(call),
           NEW s, Good(s), NEW b \in Blocks, Kind(b) = "SEIZE",
           NEW ref, ValidRef(s, ref), NEW x \in EnterSeize(call, s, b, ref)
    PROVE  Moved(s, b, ref, x)
<1> DEFINE r == P(b).resource
           n == s.resource[r].busy
           u == UnitTaken(s, r)
           next == P(b).next
<1>1. r \in DOMAIN program.capacity /\ next \in Blocks /\ next \in Called(b)
  BY SeizeParts DEF Called, Good
<1>2. Entered(next) \subseteq Entered(b)
  BY <1>1, EnteredFacts
<1>3. CASE x = [ok |-> FALSE, s |-> s]
  BY <1>3, SteadyReflexive DEF Moved, Untouched
<1>4. ASSUME n < program.capacity[r], NEW o \in Reply, o \in call[<<u, next, ref>>], Kept(u, o.s),
             x = [ok |-> o.ok, s |-> IF o.ok THEN Seized(o.s, b, r) ELSE InUse(o.s, r, n)]
      PROVE  Moved(s, b, ref, x)
  <2>1. /\ Kept(s, u) /\ u.resource[r] = [s.resource[r] EXCEPT !.busy = n + 1]
        /\ \A d \in DOMAIN program.capacity \ {r} : u.resource[d] = s.resource[d]
    BY <1>1, <1>4, KeepsUnit
  <2>2. Still(s, u) /\ (\A S : Untouched(s, u, S)) /\ UseMoves(s, u, r, 1)
    BY <1>1, <1>4, UnitBooks
  <2>3. Good(u) /\ ValidRef(u, ref)
    BY <2>1, SameValid DEF Kept
  <2> HIDE DEF u, next
  <2>4. Moved(u, next, ref, o)
    BY <1>1, <1>4, <2>3 DEF Advances
  <2>5. Good(o.s) /\ Kept(s, o.s) /\ o.ok \in BOOLEAN
    BY <1>4, <2>1, KeptTransitive DEF Kept, Reply
  <2> HIDE DEF r
  <2> SUFFICES ASSUME ~x.s.stop
               PROVE  /\ Untouched(s, x.s, Entered(b))
                      /\ x.ok => Ledger(s, x.s, ref, 1)
                      /\ ~x.ok => Steady(s, x.s) /\ x.s.resource = s.resource
    BY DEF Moved
  <2>6. CASE o.ok
    <3> DEFINE t == Seized(o.s, b, r)
    <3>1. x.ok /\ x.s = t
      BY <1>4, <2>6
    <3>2. /\ Kept(o.s, t) /\ Still(o.s, t) /\ (\A S : Untouched(o.s, t, S))
          /\ UseMoves(o.s, t, r, -1)
      BY <1>1, <2>5, UseBooks, KeepsUseAndPass
    <3> HIDE DEF t
    <3>3. ~o.s.stop
      BY <3>1, <3>2, RunsOn
    <3>4. Ledger(u, o.s, ref, 1) /\ Untouched(u, o.s, Entered(next))
      BY <2>4, <2>6, <3>3 DEF Moved
    <3>5. Ledger(s, t, ref, 1)
      <4> DEFINE m == -1
      <4>1. m \in Int /\ 1 + m = 0
        OBVIOUS
      <4>2. UseMoves(o.s, t, r, m)
        BY <3>2
      <4> HIDE DEF m
      <4> QED
        BY <2>2, <3>2, <3>4, <4>1, <4>2, UseCancels
    <3>6. Untouched(s, t, Entered(b))
      BY <1>2, <2>2, <3>2, <3>4 DEF Untouched
    <3> QED
      BY <3>1, <3>5, <3>6
  <2>7. CASE ~o.ok
    <3> DEFINE t == InUse(o.s, r, n)
    <3>1. ~x.ok /\ x.s = t
      BY <1>4, <2>7
    <3>2. ~o.s.stop
      BY <2>5, <3>1, SimTypes DEF Good, InUse, Sims
    <3>3. Steady(u, o.s) /\ Untouched(u, o.s, Entered(next)) /\ o.s.resource = u.resource
      BY <2>4, <2>7, <3>2 DEF Moved
    <3>4. /\ u.resource[r].seizeN = s.resource[r].seizeN
          /\ u.resource[r].releaseN = s.resource[r].releaseN
      BY <1>1, <2>1, SimTypes DEF Good, Uses
    <3>5. Steady(s, t) /\ t.resource = s.resource /\ \A S : Untouched(o.s, t, S)
      BY <1>1, <2>1, <2>2, <2>5, <3>3, <3>4, UseRestored
    <3> HIDE DEF t
    <3>6. Untouched(s, t, Entered(b))
      BY <1>2, <2>2, <3>3, <3>5 DEF Untouched
    <3> QED
      BY <3>1, <3>5, <3>6
  <2> QED
    BY <2>5, <2>6, <2>7
<1>5. \/ x = [ok |-> FALSE, s |-> s]
      \/ /\ n < program.capacity[r]
         /\ \E o \in Reply :
               /\ o \in call[<<u, next, ref>>]
               /\ Kept(u, o.s)
               /\ x = [ok |-> o.ok, s |-> IF o.ok THEN Seized(o.s, b, r) ELSE InUse(o.s, r, n)]
  BY SeizeShape
<1> HIDE DEF r, n, u, next
<1> QED
  BY <1>3, <1>4, <1>5

\* The wake of the queues of a resource.
LEMMA WakeResourceMoves ==
    ASSUME NEW call, Answers(call), Advances(call), NoReentry,
           NEW s, Good(s), NEW b \in Blocks, Kind(b) = "RELEASE",
           NEW w \in WakeResourceQueues(call, s, P(b).resource)
    PROVE  Woken(s, b, w)
<1> DEFINE r == P(b).resource
           R == {x \in Reply : Kept(s, x.s) /\ Woken(s, b, x)}
           seizes == program.seizes[r]
           Q == WakeQueues(r)
<1>1. Linked /\ r \in DOMAIN program.capacity
  BY ReleaseParts DEF Good
<1>2. seizes \in Seq(OfKind("SEIZE"))
  BY <1>1, ResourceParts
<1>3. \A i \in 1..Len(seizes) : P(seizes[i]).waitQueues \in Seq(OfKind("QUEUE"))
  <2> SUFFICES ASSUME NEW i \in 1..Len(seizes) PROVE P(seizes[i]).waitQueues \in Seq(OfKind("QUEUE"))
    OBVIOUS
  <2>1. seizes[i] \in Blocks /\ Kind(seizes[i]) = "SEIZE"
    BY <1>2 DEF OfKind
  <2> QED
    BY <1>1, <2>1, SeizeParts DEF Queues
<1>4. seizes \in Seq(Blocks)
  BY <1>2 DEF OfKind
<1>5. \A i \in 1..Len(seizes) : P(seizes[i]).waitQueues \in Seq(Q)
  <2> SUFFICES ASSUME NEW i \in 1..Len(seizes) PROVE P(seizes[i]).waitQueues \in Seq(Q)
    OBVIOUS
  <2> DEFINE names == P(seizes[i]).waitQueues
  <2>1. names \in Seq(OfKind("QUEUE")) /\ ToSet(names) \subseteq Q
    BY <1>3 DEF WakeQueues
  <2> HIDE DEF names, Q
  <2>2. Len(names) \in Nat /\ names \in [1..Len(names) -> Q]
    BY <2>1 DEF ToSet
  <2> QED
    BY <2>2, IsSequence DEF names
<1>6. Q \subseteq OfKind("QUEUE")
  <2> SUFFICES ASSUME NEW i \in 1..Len(seizes), NEW q \in ToSet(P(seizes[i]).waitQueues)
               PROVE  q \in OfKind("QUEUE")
    BY DEF WakeQueues
  <2> QED
    BY <1>3 DEF ToSet
<1>7. [ok |-> FALSE, s |-> s] \in R
  BY KeptReflexive, SteadyReflexive DEF Reply, Good, Woken, Untouched
<1>8. ASSUME NEW x \in R, NEW q \in Q, NEW y \in TryAdvance(call, x.s, q) PROVE y \in R
  <2>1. Kept(s, x.s) /\ Good(x.s) /\ Woken(s, b, x)
    BY DEF Kept
  <2>2. q \in Blocks /\ Kind(q) = "QUEUE"
    BY <1>6 DEF OfKind
  <2>3. y \in Reply /\ Kept(x.s, y.s) /\ Woken(x.s, q, y)
    BY <2>1, <2>2, TryAdvanceKeeps, TryAdvanceMoves
  <2>4. Entered(q) \subseteq Entered(b)
    <3>1. q \in Called(b)
      BY DEF Called
    <3> QED
      BY <3>1, EnteredFacts
  <2>5. Woken(s, b, y)
    <3> SUFFICES ASSUME ~y.s.stop PROVE Steady(s, y.s) /\ Untouched(s, y.s, Entered(b))
      BY DEF Woken
    <3>1. ~x.s.stop
      BY <2>3, RunsOn
    <3>2. Steady(s, x.s) /\ Untouched(s, x.s, Entered(b))
      BY <2>1, <3>1 DEF Woken
    <3>3. Steady(x.s, y.s) /\ Untouched(x.s, y.s, Entered(q))
      BY <2>3 DEF Woken
    <3> QED
      BY <2>4, <3>2, <3>3, LedgerSteady, UntouchedTransitive
  <2> QED
    BY <2>1, <2>3, <2>5, KeptTransitive
<1> HIDE DEF R
<1>9. \A x \in R : ~x.ok => \A q \in Q : TryAdvance(call, x.s, q) \subseteq R
  BY <1>8
<1> HIDE DEF Q
<1>10. WakeResourceQueues(call, s, r) \subseteq R
  BY <1>4, <1>5, <1>7, <1>9, WakeResourceWithin
<1> QED
  BY <1>10 DEF R

\* RELEASE.
LEMMA ReleaseMoves ==
    ASSUME NEW call, Answers(call), Advances(call), NoReentry,
           NEW s, Good(s), NEW b \in Blocks, Kind(b) = "RELEASE",
           NEW ref, ValidRef(s, ref), NEW x \in EnterRelease(call, s, b, ref)
    PROVE  Moved(s, b, ref, x)
<1> DEFINE r == P(b).resource
           n == s.resource[r].busy
           u == UnitGiven(s, r)
           next == P(b).next
<1>1. r \in DOMAIN program.capacity /\ next \in Blocks /\ next \in Called(b)
  BY ReleaseParts DEF Called, Good
<1>2. Entered(next) \subseteq Entered(b)
  BY <1>1, EnteredFacts
<1>3. CASE StopsRun(s, x)
  <2>1. PICK why \in Reasons : x = [ok |-> FALSE, s |-> Stopped(s, why)]
    BY <1>3 DEF StopsRun
  <2>2. x.s.stop
    BY <2>1, SetStop DEF Good
  <2> QED
    BY <2>2 DEF Moved
<1>0. /\ n # 0 => /\ Kept(s, u) /\ u.resource[r] = [s.resource[r] EXCEPT !.busy = n - 1]
                   /\ \A d \in DOMAIN program.capacity \ {r} : u.resource[d] = s.resource[d]
      /\ n # 0 => Still(s, u) /\ (\A S : Untouched(s, u, S)) /\ UseMoves(s, u, r, -1)
  <2> HIDE DEF r
  <2>1. r \in DOMAIN program.capacity
    BY <1>1
  <2>2. n # 0 => /\ Kept(s, u) /\ u.resource[r] = [s.resource[r] EXCEPT !.busy = n - 1]
                 /\ \A d \in DOMAIN program.capacity \ {r} : u.resource[d] = s.resource[d]
    BY <2>1, KeepsUnit
  <2>3. n # 0 => Still(s, u) /\ (\A S : Untouched(s, u, S)) /\ UseMoves(s, u, r, -1)
    BY <2>1, UnitBooks
  <2> QED
    BY <2>2, <2>3
<1>4. ASSUME n # 0, NEW o \in Reply, o \in call[<<u, next, ref>>], Kept(u, o.s),
             \/ ~o.ok /\ x = [ok |-> FALSE, s |-> InUse(o.s, r, n)]
             \/ /\ o.ok
                /\ \E w \in WakeResourceQueues(call, Released(o.s, b, r), r) : x = [ok |-> TRUE, s |-> w.s]
      PROVE  Moved(s, b, ref, x)
  <2> HIDE DEF u
  <2>1. /\ Kept(s, u) /\ u.resource[r] = [s.resource[r] EXCEPT !.busy = n - 1]
        /\ \A d \in DOMAIN program.capacity \ {r} : u.resource[d] = s.resource[d]
    BY <1>0, <1>4
  <2>2. Still(s, u) /\ (\A S : Untouched(s, u, S)) /\ UseMoves(s, u, r, -1)
    BY <1>0, <1>4
  <2>3. Good(u) /\ ValidRef(u, ref)
    BY <2>1, SameValid DEF Kept
  <2> HIDE DEF u, next
  <2>4. Moved(u, next, ref, o)
    BY <1>1, <1>4, <2>3 DEF Advances
  <2>5. Good(o.s) /\ Kept(s, o.s)
    BY <1>4, <2>1, KeptTransitive DEF Kept
  <2> SUFFICES ASSUME ~x.s.stop
               PROVE  /\ Untouched(s, x.s, Entered(b))
                      /\ x.ok => Ledger(s, x.s, ref, 1)
                      /\ ~x.ok => Steady(s, x.s) /\ x.s.resource = s.resource
    BY DEF Moved
  <2>6. ASSUME o.ok, NEW w \in WakeResourceQueues(call, Released(o.s, b, r), r),
               x = [ok |-> TRUE, s |-> w.s]
        PROVE  Untouched(s, x.s, Entered(b)) /\ Ledger(s, x.s, ref, 1)
    <3> DEFINE t == Released(o.s, b, r)
               m == -1
    <3>1. x.s = w.s
      BY <2>6
    <3>2. /\ Kept(o.s, t) /\ Still(o.s, t) /\ (\A S : Untouched(o.s, t, S))
          /\ UseMoves(o.s, t, r, 1)
      BY <1>1, <2>5, UseBooks, KeepsUseAndPass
    <3>3. Good(t)
      BY <3>2 DEF Kept
    <3> HIDE DEF t
    <3>4. Woken(t, b, w) /\ Kept(t, w.s)
      BY <1>1, <2>6, <3>3, WakeResourceMoves, WakeResourceKeeps DEF t
    <3>5. ~t.stop /\ ~o.s.stop
      BY <3>1, <3>2, <3>4, RunsOn
    <3>6. Ledger(u, o.s, ref, 1) /\ Untouched(u, o.s, Entered(next))
      BY <2>4, <2>6, <3>5 DEF Moved
    <3>7. m \in Int /\ m + 1 = 0
      OBVIOUS
    <3>8. UseMoves(s, u, r, m)
      BY <2>2
    <3> HIDE DEF m
    <3>9. Ledger(s, t, ref, 1)
      BY <2>2, <3>2, <3>6, <3>7, <3>8, UseCancels
    <3>10. Steady(t, w.s) /\ Untouched(t, w.s, Entered(b))
      BY <3>1, <3>4 DEF Woken
    <3>11. Ledger(s, w.s, ref, 1)
      BY <3>9, <3>10, LedgerSteady
    <3>12. Untouched(s, w.s, Entered(b))
      BY <1>2, <2>2, <3>2, <3>6, <3>10 DEF Untouched
    <3> QED
      BY <3>1, <3>11, <3>12
  <2>7. ASSUME ~o.ok, x = [ok |-> FALSE, s |-> InUse(o.s, r, n)]
        PROVE  Untouched(s, x.s, Entered(b)) /\ Steady(s, x.s) /\ x.s.resource = s.resource
    <3> DEFINE t == InUse(o.s, r, n)
    <3>1. x.s = t
      BY <2>7
    <3>2. ~o.s.stop
      BY <2>5, <3>1, SimTypes DEF Good, InUse, Sims
    <3>3. Steady(u, o.s) /\ Untouched(u, o.s, Entered(next)) /\ o.s.resource = u.resource
      BY <2>4, <2>7, <3>2 DEF Moved
    <3>4. /\ u.resource[r].seizeN = s.resource[r].seizeN
          /\ u.resource[r].releaseN = s.resource[r].releaseN
      BY <1>1, <2>1, SimTypes DEF Good, Uses
    <3> HIDE DEF r
    <3>5. Steady(s, t) /\ t.resource = s.resource /\ \A S : Untouched(o.s, t, S)
      BY <1>1, <2>1, <2>2, <2>5, <3>3, <3>4, UseRestored
    <3> HIDE DEF t
    <3>6. Untouched(s, t, Entered(b))
      BY <1>2, <2>2, <3>3, <3>5 DEF Untouched
    <3> QED
      BY <3>1, <3>5, <3>6
  <2> HIDE DEF r, n
  <2> QED
    BY <1>4, <2>6, <2>7
<1>5. StopsRun(s, x) \/ (n # 0 /\ GivesBack(call, s, b, ref, x))
  BY ReleaseShape
<1>6. CASE n # 0 /\ GivesBack(call, s, b, ref, x)
  <2>1. PICK o \in Reply :
           /\ o \in call[<<u, next, ref>>] /\ Kept(u, o.s)
           /\ \/ ~o.ok /\ x = [ok |-> FALSE, s |-> InUse(o.s, r, n)]
              \/ /\ o.ok
                 /\ \E w \in WakeResourceQueues(call, Released(o.s, b, r), r) : x = [ok |-> TRUE, s |-> w.s]
    BY <1>6 DEF GivesBack
  <2> HIDE DEF u, n, r, next
  <2> QED
    BY <1>4, <1>6, <2>1
<1> QED
  BY <1>3, <1>5, <1>6

\* Every block function.
LEMMA BlockMoves ==
    ASSUME NEW call, Answers(call), Advances(call), NoReentry, NEW s, Good(s), NEW b \in Blocks,
           NEW ref, ValidRef(s, ref), NEW r \in BlockFunction(call, s, b, ref)
    PROVE  Moved(s, b, ref, r)
<1>0. Kind(b) \in Kinds
  BY ModelTypes DEF Good
<1>1. CASE Kind(b) = "QUEUE"
  BY <1>1, QueueMoves DEF BlockFunction
<1>2. CASE Kind(b) = "DELAY"
  BY <1>2, DelayMoves DEF BlockFunction
<1>3. CASE Kind(b) = "SEIZE"
  BY <1>3, SeizeMoves DEF BlockFunction
<1>4. CASE Kind(b) = "RELEASE"
  BY <1>4, ReleaseMoves DEF BlockFunction
<1>5. CASE Kind(b) = "ASSIGN"
  BY <1>5, AssignMoves DEF BlockFunction
<1>6. CASE Kind(b) = "BRANCH"
  BY <1>6, BranchMoves DEF BlockFunction
<1>7. CASE Kind(b) = "TERMINATE"
  BY <1>7, TerminateMoves DEF BlockFunction
<1>8. CASE Kind(b) = "CREATE"
  BY <1>8 DEF BlockFunction
<1> QED
  BY <1>0, <1>1, <1>2, <1>3, <1>4, <1>5, <1>6, <1>7, <1>8 DEF Kinds

\* Every call of a block function in a handler moves its entity only.
LEMMA CallAdvances == Linked /\ NoReentry => Answers(Call) /\ Advances(Call)
<1> DEFINE N == MaxDepth
           w == CHOOSE v : Levels(N, v)
<1>0. Call = w[N]
  BY DEF Call, Levels
<1>1. N \in Nat
  BY SimulationAssumption
<1> HIDE DEF N
<1>2. Levels(N, w)
  BY <1>1, LevelsExist
<1> HIDE DEF w
<1>3. \A k \in 0..N : w[k] =
         [c \in Calls |-> IF k = 0 THEN {} ELSE BlockFunction(w[k - 1], c[1], c[2], c[3])]
  BY <1>2 DEF Levels
<1> SUFFICES ASSUME Linked, NoReentry PROVE Answers(Call) /\ Advances(Call)
  OBVIOUS
<1> DEFINE G == {k \in Nat : k <= N => Answers(w[k]) /\ Advances(w[k])}
<1>4. ASSUME NEW s, NEW b \in Blocks, NEW ref, Good(s), ValidRef(s, ref)
      PROVE  <<s, b, ref>> \in Calls
  BY <1>4 DEF Calls, Good, ValidRef
<1>5. 0 \in G
  <2>1. w[0] = [c \in Calls |-> {}]
    BY <1>1, <1>3
  <2> QED
    BY <1>4, <2>1 DEF Answers, Advances
<1>6. ASSUME NEW k \in Nat, k \in G PROVE k + 1 \in G
  <2> SUFFICES ASSUME k + 1 <= N PROVE Answers(w[k + 1]) /\ Advances(w[k + 1])
    OBVIOUS
  <2>1. Answers(w[k]) /\ Advances(w[k])
    BY <1>1, <1>6
  <2>2. k + 1 \in 0..N /\ k + 1 # 0 /\ (k + 1) - 1 = k
    BY <1>1
  <2>3. w[k + 1] = [c \in Calls |-> BlockFunction(w[k], c[1], c[2], c[3])]
    BY <1>3, <2>2
  <2> SUFFICES ASSUME NEW s, NEW b \in Blocks, NEW ref, Good(s), ValidRef(s, ref),
                      NEW r \in w[k + 1][<<s, b, ref>>]
               PROVE  r \in Reply /\ Kept(s, r.s) /\ Moved(s, b, ref, r)
    BY DEF Answers, Advances
  <2>4. r \in BlockFunction(w[k], s, b, ref)
    BY <1>4, <2>3
  <2> QED
    BY <2>1, <2>4, BlockKeeps, BlockMoves
<1> HIDE DEF G
<1>7. N \in G
  BY <1>1, <1>5, <1>6, NumbersInduct
<1> QED
  BY <1>0, <1>1, <1>7 DEF G

------------------------------------------------------------------------------
(* An entity on its way.                                                   *)

\* Entity ref is in n places too many, block b has d entries too many in its books
\* and holds h too many; everything else is settled.
Off(s, ref, n, b, d, h) ==
    /\ \A x \in Refs :
          Places(s, x) = (IF ValidRef(s, x) THEN 1 ELSE 0) + (IF x = ref THEN n ELSE 0)
    /\ \A c \in Blocks : /\ Debt(s, c) = IF c = b THEN d ELSE 0
                         /\ Unheld(s, c) = IF c = b THEN h ELSE 0
    /\ \A r \in DOMAIN program.capacity : UseDebt(s, r) = 0

\* Every entity there is is in one place, no other is in any, and the books agree.
Settled(s) ==
    /\ \A x \in Refs : Places(s, x) = IF ValidRef(s, x) THEN 1 ELSE 0
    /\ \A c \in Blocks : Debt(s, c) = 0 /\ Unheld(s, c) = 0
    /\ \A r \in DOMAIN program.capacity : UseDebt(s, r) = 0

\* Nothing is off.
LEMMA OffSettled ==
    ASSUME NEW s, NEW ref, NEW b
    PROVE  Settled(s) <=> Off(s, ref, 0, b, 0, 0)
<1>1. \A x : LET v == IF ValidRef(s, x) THEN 1 ELSE 0
             IN  v + (IF x = ref THEN 0 ELSE 0) = v
  OBVIOUS
<1>2. \A c : (IF c = b THEN 0 ELSE 0) = 0
  OBVIOUS
<1> QED
  BY <1>1, <1>2 DEF Settled, Off

\* An entity on its way comes to a place.
LEMMA OffLedger ==
    ASSUME NEW s, NEW t, NEW ref, NEW n \in Int, NEW m \in Int, NEW b, NEW d, NEW h,
           Off(s, ref, n, b, d, h), Ledger(s, t, ref, m), Same(s, t)
    PROVE  Off(t, ref, n + m, b, d, h)
<1>1. ASSUME NEW x \in Refs
      PROVE  Places(t, x) = (IF ValidRef(t, x) THEN 1 ELSE 0) + (IF x = ref THEN n + m ELSE 0)
  <2>1. ValidRef(t, x) <=> ValidRef(s, x)
    BY SameValid
  <2>2. /\ Places(s, x) = (IF ValidRef(s, x) THEN 1 ELSE 0) + (IF x = ref THEN n ELSE 0)
        /\ Places(t, x) = Places(s, x) + (IF x = ref THEN m ELSE 0)
    BY DEF Off, Ledger, Moves
  <2> QED
    BY <2>1, <2>2
<1>2. \A c \in Blocks : Debt(t, c) = Debt(s, c) /\ Unheld(t, c) = Unheld(s, c)
  BY DEF Ledger, Even
<1>3. \A r \in DOMAIN program.capacity : UseDebt(t, r) = UseDebt(s, r)
  BY DEF Ledger, SameUse
<1> QED
  BY <1>1, <1>2, <1>3 DEF Off

\* What was settled is settled when nobody has moved.
LEMMA SettledSteady ==
    ASSUME NEW s, NEW t, Settled(s), Steady(s, t), \A ref : ValidRef(t, ref) <=> ValidRef(s, ref)
    PROVE  Settled(t)
  BY DEF Settled, Steady, Even, SameUse

\* Only the books of the block change.
LEMMA OffBooks ==
    ASSUME NEW s, NEW t, NEW ref, NEW n, NEW b \in Blocks, NEW d, NEW h, Off(s, ref, n, b, d, h),
           t.arr = s.arr, t.events = s.events, t.resource = s.resource, t.pool = s.pool,
           \A c \in Blocks \ {b} : t.count[c] = s.count[c]
    PROVE  Off(t, ref, n, b, Debt(t, b), Unheld(t, b))
<1>1. \A x \in Refs : Places(t, x) = Places(s, x) /\ (ValidRef(t, x) <=> ValidRef(s, x))
  BY PlacesDepend DEF ValidRef
<1>2. \A c \in Blocks \ {b} : Debt(t, c) = Debt(s, c) /\ Unheld(t, c) = Unheld(s, c)
  BY DebtDepends DEF Unheld
<1>3. \A r \in DOMAIN program.capacity : UseDebt(t, r) = UseDebt(s, r)
  BY DEF UseDebt
<1> QED
  BY <1>1, <1>2, <1>3 DEF Off

------------------------------------------------------------------------------
(* The CREATE blocks.                                                      *)

\* An index Alloc gives out is one more of the pool, or one less on the free list.
LEMMA AllocCounts ==
    ASSUME NEW p \in Pool, ToSet(p.free) \subseteq DOMAIN p.entities, NEW d \in [FieldNames -> Int],
           NEW k \in Nat \ {0}
    PROVE  LET x == Alloc(p, d)
           IN  Count(p.free, {k}) + (IF k \in DOMAIN x.entities THEN 1 ELSE 0)
                 = Count(x.free, {k}) + (IF k \in DOMAIN p.entities THEN 1 ELSE 0)
                     + (IF k = AllocIdx(p) THEN 1 ELSE 0)
<1> DEFINE E == [FieldNames -> Int]
           x == Alloc(p, d)
           i == AllocIdx(p)
           n == Len(p.free)
<1>1. p.entities \in Seq(E) /\ p.free \in Seq(Nat \ {0}) /\ d \in E
  BY DEF Pool
<1>2. Count(p.free, {k}) \in Nat
  BY <1>1, PlacesFinite
<1> HIDE DEF E
<1>3. CASE p.free = <<>>
  <2>1. x = [p EXCEPT !.entities = Append(p.entities, d)] /\ i = Len(p.entities) + 1
    BY <1>3 DEF Alloc, AllocIdx
  <2>2. x.entities = Append(p.entities, d) /\ x.free = p.free
    BY <2>1 DEF Pool
  <2>3. /\ DOMAIN p.entities = 1..Len(p.entities) /\ Len(p.entities) \in Nat
        /\ DOMAIN Append(p.entities, d) = 1..(Len(p.entities) + 1)
    BY <1>1
  <2> HIDE DEF x, i
  <2>4. /\ i \notin DOMAIN p.entities
        /\ k \in DOMAIN x.entities <=> (k \in DOMAIN p.entities \/ k = i)
    BY <2>1, <2>2, <2>3
  <2> QED
    BY <1>2, <2>2, <2>4 DEF x, i
<1>4. CASE p.free # <<>>
  <2>1. n # 0 /\ n \in DOMAIN p.free /\ i = p.free[n]
    BY <1>1, <1>4 DEF AllocIdx
  <2>2. x = [entities |-> [p.entities EXCEPT ![i] = d], free |-> SubSeq(p.free, 1, n - 1)]
    BY <1>4 DEF Alloc
  <2>3. DOMAIN x.entities = DOMAIN p.entities /\ x.free = SubSeq(p.free, 1, n - 1)
    BY <2>2
  <2>4. /\ SubSeq(p.free, 1, n - 1) \in Seq(Nat \ {0})
        /\ Count(p.free, {k}) = Count(SubSeq(p.free, 1, n - 1), {k}) + (IF p.free[n] \in {k} THEN 1 ELSE 0)
    BY <1>1, <2>1, FrontCounts
  <2>5. Count(x.free, {k}) \in Nat
    BY <2>3, <2>4, PlacesFinite
  <2> HIDE DEF x, i, n
  <2>6. p.free[n] \in {k} <=> k = i
    BY <2>1
  <2>7. Count(p.free, {k}) = Count(x.free, {k}) + (IF k = i THEN 1 ELSE 0)
    BY <2>3, <2>4, <2>6
  <2> QED
    BY <2>3, <2>5, <2>7 DEF x, i
<1> QED
  BY <1>3, <1>4

\* An entity that has been made is nowhere yet.
LEMMA MadeOff ==
    ASSUME NEW s, Good(s), Settled(s), NEW b \in Blocks, Kind(b) = "CREATE", NEW n \in Int, n + 1 = 0
    PROVE  Off(Made(s, b), MadeRef(s, b), n, b, 0, 0)
<1> DEFINE e == P(b).entity
           p == s.pool[e]
           x == Alloc(p, Defaults(e))
           t == [s EXCEPT !.pool[e] = x]
           ref == MadeRef(s, b)
<1>0. Made(s, b) = t /\ ref = [type |-> e, idx |-> AllocIdx(p)]
  BY DEF Made, MadeRef
<1>1. Linked /\ s \in Sims
  BY DEF Good
<1>2. e \in EntityTypes
  BY <1>1, CreateParts
<1>3. p \in Pool /\ ToSet(p.free) \subseteq DOMAIN p.entities /\ Defaults(e) \in [FieldNames -> Int]
  BY <1>1, <1>2, SimTypes, DefaultsType DEF Good, FreeValid
<1>4. x \in Pool
  <2> HIDE DEF p
  <2> QED
    BY <1>3, AllocFacts
<1>5. \A k \in Nat \ {0} :
         Count(p.free, {k}) + (IF k \in DOMAIN x.entities THEN 1 ELSE 0)
           = Count(x.free, {k}) + (IF k \in DOMAIN p.entities THEN 1 ELSE 0)
               + (IF k = AllocIdx(p) THEN 1 ELSE 0)
  <2> HIDE DEF p
  <2> QED
    BY <1>3, AllocCounts
<1> HIDE DEF x, e, ref
<1>6. /\ t \in Sims /\ Differ(s, t, {"pool"}) /\ t.pool[e] = x
      /\ \A d \in EntityTypes \ {e} : t.pool[d] = s.pool[d]
  BY <1>1, <1>2, <1>4, SetPool
<1> HIDE DEF t
<1>7. t.events = s.events /\ t.arr = s.arr /\ t.resource = s.resource /\ t.count = s.count
  BY <1>6 DEF Differ, SimFields
<1>8. ASSUME NEW y \in Refs
      PROVE  Places(t, y) = (IF ValidRef(t, y) THEN 1 ELSE 0) + (IF y = ref THEN n ELSE 0)
  <2>1. /\ Places(t, y) = Cardinality(SlotPlaces(t, y)) + Count(t.events, Serves(y)) + FreeCount(t, y)
        /\ Places(s, y) = Cardinality(SlotPlaces(s, y)) + Count(s.events, Serves(y)) + FreeCount(s, y)
    BY DEF Places, FreeCount
  <2>2. /\ Cardinality(SlotPlaces(t, y)) = Cardinality(SlotPlaces(s, y))
        /\ Count(t.events, Serves(y)) = Count(s.events, Serves(y))
    BY <1>7 DEF SlotPlaces
  <2>3. /\ Cardinality(SlotPlaces(s, y)) \in Nat /\ Count(s.events, Serves(y)) \in Nat
        /\ FreeCount(s, y) \in Nat
    BY PlacesTypes DEF FreeCount
  <2>4. FreeCount(t, y) \in Nat
    <3>1. Made(s, b) = t /\ Good(Made(s, b))
      BY <1>0, ReachesMade DEF Reached
    <3> QED
      BY <3>1, PlacesTypes DEF FreeCount
  <2>5. y.type \in EntityTypes /\ y.idx \in Nat \ {0} /\ y = [type |-> y.type, idx |-> y.idx]
    BY DEF Refs
  <2>6. Places(s, y) = IF ValidRef(s, y) THEN 1 ELSE 0
    BY DEF Settled
  <2>7. /\ ValidRef(s, y) <=> y.idx \in DOMAIN s.pool[y.type].entities
        /\ ValidRef(t, y) <=> y.idx \in DOMAIN t.pool[y.type].entities
    BY DEF ValidRef
  <2>8. FreeCount(s, y) + (IF ValidRef(t, y) THEN 1 ELSE 0)
          = FreeCount(t, y) + (IF ValidRef(s, y) THEN 1 ELSE 0) + (IF y = ref THEN 1 ELSE 0)
    <3>1. CASE y.type = e
      <4>1. y = ref <=> y.idx = AllocIdx(p)
        BY <1>0, <2>5, <3>1
      <4>2. Count(p.free, {y.idx}) + (IF y.idx \in DOMAIN x.entities THEN 1 ELSE 0)
              = Count(x.free, {y.idx}) + (IF y.idx \in DOMAIN p.entities THEN 1 ELSE 0)
                  + (IF y.idx = AllocIdx(p) THEN 1 ELSE 0)
        BY <1>5, <2>5
      <4>3. FreeCount(s, y) = Count(p.free, {y.idx}) /\ FreeCount(t, y) = Count(x.free, {y.idx})
        BY <1>6, <3>1 DEF FreeCount
      <4>4. /\ ValidRef(s, y) <=> y.idx \in DOMAIN p.entities
            /\ ValidRef(t, y) <=> y.idx \in DOMAIN x.entities
        BY <1>6, <2>7, <3>1
      <4> QED
        BY <4>1, <4>2, <4>3, <4>4
    <3>2. CASE y.type # e
      <4>1. t.pool[y.type] = s.pool[y.type]
        BY <1>6, <2>5, <3>2
      <4>2. y # ref
        BY <1>0, <3>2
      <4> QED
        BY <2>3, <2>7, <4>1, <4>2 DEF FreeCount
    <3> QED
      BY <3>1, <3>2
  <2> DEFINE a == Cardinality(SlotPlaces(s, y)) + Count(s.events, Serves(y))
             u == IF ValidRef(s, y) THEN 1 ELSE 0
             v == IF ValidRef(t, y) THEN 1 ELSE 0
             one == IF y = ref THEN 1 ELSE 0
             less == IF y = ref THEN n ELSE 0
  <2>9. a \in Nat /\ u \in Nat /\ v \in Nat /\ one \in Nat /\ less \in Int /\ less + one = 0
    BY <2>3
  <2>10. Places(t, y) = a + FreeCount(t, y) /\ u = a + FreeCount(s, y)
    BY <2>1, <2>2, <2>6
  <2>11. FreeCount(s, y) + v = FreeCount(t, y) + u + one
    BY <2>8
  <2> HIDE DEF a, u, v, one, less
  <2>12. Places(t, y) = v + less
    BY <2>3, <2>4, <2>9, <2>10, <2>11
  <2> QED
    BY <2>12 DEF v, less
<1>9. \A c \in Blocks : Debt(t, c) = 0 /\ Unheld(t, c) = 0
  BY <1>7 DEF Settled, Debt, Unheld
<1>10. \A r \in DOMAIN program.capacity : UseDebt(t, r) = 0
  BY <1>7 DEF Settled, UseDebt
<1> QED
  BY <1>0, <1>8, <1>9, <1>10 DEF Off, ref

\* A CREATE block counts an entity in, or out.
LEMMA SourceBooks ==
    ASSUME NEW s, Good(s), NEW b \in Blocks, Kind(b) = "CREATE", NEW ref, NEW n, NEW d \in Int,
           Off(s, ref, n, b, d, 0)
    PROVE  /\ Off(Counted(s, b, "createdN"), ref, n, b, d + 1, 0)
           /\ Off(Counted(s, b, "exitN"), ref, n, b, d - 1, 0)
           /\ Off(Counted(s, b, "dropN"), ref, n, b, d - 1, 0)
<1>1. s.count[b] \in [CounterNames -> Nat]
  BY SimTypes DEF Good
<1>2. /\ s.count[b].createdN \in Nat /\ s.count[b].exitN \in Nat /\ s.count[b].dropN \in Nat
      /\ d = s.count[b].createdN - s.count[b].exitN - s.count[b].dropN
  <2>1. d = Debt(s, b)
    BY DEF Off
  <2> QED
    BY <1>1, <2>1, DebtByKind DEF CounterNames
<1>3. ASSUME NEW c \in {"createdN", "exitN", "dropN"}
      PROVE  LET t == Counted(s, b, c)
             IN  /\ Off(t, ref, n, b, Debt(t, b), 0)
                 /\ Debt(t, b) = t.count[b].createdN - t.count[b].exitN - t.count[b].dropN
                 /\ t.count[b] = OneMore(s.count[b], c)
  <2> DEFINE t == Counted(s, b, c)
  <2>1. c \in Tallies
    BY <1>3 DEF CounterNames, Tallies
  <2>2. /\ Differ(s, t, {"count"}) /\ t.count[b] = OneMore(s.count[b], c)
        /\ \A e \in Blocks \ {b} : t.count[e] = s.count[e]
    BY <2>1, KeepsCounted
  <2> HIDE DEF t
  <2>3. /\ t.arr = s.arr /\ t.events = s.events /\ t.resource = s.resource /\ t.pool = s.pool
    BY <2>2 DEF Differ, SimFields
  <2>4. Off(t, ref, n, b, Debt(t, b), Unheld(t, b))
    BY <2>2, <2>3, OffBooks
  <2>5. Unheld(t, b) = 0
    BY DEF Unheld
  <2> QED
    BY <2>2, <2>4, <2>5, DebtByKind DEF t
<1>4. ASSUME NEW k, k = [s.count[b] EXCEPT !.createdN = s.count[b].createdN + 1]
      PROVE  k.createdN - k.exitN - k.dropN = d + 1
  <2>1. /\ k.createdN = s.count[b].createdN + 1 /\ k.exitN = s.count[b].exitN
        /\ k.dropN = s.count[b].dropN
    BY <1>1, <1>4 DEF CounterNames
  <2> QED
    BY <1>2, <2>1
<1>5. ASSUME NEW k, k = [s.count[b] EXCEPT !.exitN = s.count[b].exitN + 1]
      PROVE  k.createdN - k.exitN - k.dropN = d - 1
  <2>1. /\ k.createdN = s.count[b].createdN /\ k.exitN = s.count[b].exitN + 1
        /\ k.dropN = s.count[b].dropN
    BY <1>1, <1>5 DEF CounterNames
  <2> QED
    BY <1>2, <2>1
<1>6. ASSUME NEW k, k = [s.count[b] EXCEPT !.dropN = s.count[b].dropN + 1]
      PROVE  k.createdN - k.exitN - k.dropN = d - 1
  <2>1. /\ k.createdN = s.count[b].createdN /\ k.exitN = s.count[b].exitN
        /\ k.dropN = s.count[b].dropN + 1
    BY <1>1, <1>6 DEF CounterNames
  <2> QED
    BY <1>2, <2>1
<1>7. Off(Counted(s, b, "createdN"), ref, n, b, d + 1, 0)
  BY <1>3, <1>4 DEF OneMore
<1>8. Off(Counted(s, b, "exitN"), ref, n, b, d - 1, 0)
  BY <1>3, <1>5 DEF OneMore
<1>9. Off(Counted(s, b, "dropN"), ref, n, b, d - 1, 0)
  BY <1>3, <1>6 DEF OneMore
<1> QED
  BY <1>7, <1>8, <1>9

\* A run that goes on is settled between two handlers.
RunsSettled(s) == ~s.stop => Settled(s)

\* One entity of a batch has been taken, or it has been destroyed.
LEMMA CreateOneSettles ==
    ASSUME NoReentry, NEW s, Good(s), RunsSettled(s), NEW b \in Blocks, Kind(b) = "CREATE",
           NEW x \in CreateOne(s, b)
    PROVE  RunsSettled(x.s)
<1> DEFINE ref == MadeRef(s, b)
           t == Made(s, b)
           u == Counted(t, b, "createdN")
           next == P(b).next
           n == -1
<1>0. n \in Int /\ n + 1 = 0 /\ n + 0 = n
  OBVIOUS
<1> HIDE DEF n
<1> SUFFICES ASSUME ~x.s.stop PROVE Settled(x.s)
  BY DEF RunsSettled
<1>1. Reached(s, t) /\ Good(t) /\ ValidRef(t, ref)
  BY ReachesMade DEF Reached
<1>2. PICK r \in Call[<<u, next, ref>>] :
         x = CASE r.ok -> [r EXCEPT !.s = Counted(r.s, b, "exitN")]
               [] ~r.ok /\ r.s.stop -> r
               [] ~r.ok /\ ~r.s.stop /\ P(b).policy = "destroy" ->
                     [ok |-> TRUE, s |-> FreeEntity(Counted(r.s, b, "dropN"), ref)]
               [] OTHER -> [ok |-> FALSE, s |-> Stopped(r.s, b)]
  BY DEF CreateOne, Made, MadeRef
<1>3. Settled(s)
  BY CreateOneReaches DEF Reached, Grows, RunsSettled
<1>4. Off(t, ref, n, b, 0, 0)
  BY <1>0, <1>3, MadeOff
<1> HIDE DEF t, ref, next
<1>5. "createdN" \in Tallies /\ "exitN" \in Tallies /\ "dropN" \in Tallies
  BY DEF CounterNames, Tallies
<1>6. Kept(t, u)
  BY <1>1, <1>5, KeepsCounted
<1>7. Off(u, ref, n, b, 1, 0)
  BY <1>1, <1>4, SourceBooks
<1> HIDE DEF u
<1>8. Good(u) /\ ValidRef(u, ref) /\ next \in Blocks /\ Linked
  BY <1>1, <1>6, SameValid, CreateParts DEF Kept, Good, next
<1>9. r \in Reply /\ Kept(u, r.s) /\ Moved(u, next, ref, r)
  BY <1>2, <1>8, CallAdvances DEF Answers, Advances
<1>10. Good(r.s) /\ ValidRef(r.s, ref) /\ Same(u, r.s) /\ r.ok \in BOOLEAN /\ r.s.stop \in BOOLEAN
  BY <1>8, <1>9, SameValid, SimTypes DEF Kept, Reply, Good
<1>11. CASE r.ok
  <2> DEFINE w == Counted(r.s, b, "exitN")
  <2>1. x = [r EXCEPT !.s = w]
    BY <1>2, <1>11
  <2>2. x.s = w /\ Kept(r.s, w)
    BY <1>5, <1>9, <1>10, <2>1, ReplyWith, KeepsCounted
  <2>3. ~r.s.stop
    BY <2>2, RunsOn
  <2>4. Ledger(u, r.s, ref, 1)
    BY <1>9, <1>11, <2>3 DEF Moved
  <2>5. Off(r.s, ref, n + 1, b, 1, 0)
    BY <1>0, <1>7, <1>10, <2>4, OffLedger
  <2>6. Off(r.s, ref, 0, b, 1, 0)
    BY <1>0, <2>5
  <2>7. Off(w, ref, 0, b, 1 - 1, 0)
    BY <1>10, <2>6, SourceBooks
  <2>8. Off(w, ref, 0, b, 0, 0)
    BY <2>7
  <2> QED
    BY <2>2, <2>8, OffSettled
<1>12. CASE ~r.ok /\ r.s.stop
  BY <1>2, <1>12
<1>13. CASE ~r.ok /\ ~r.s.stop /\ P(b).policy = "destroy"
  <2> DEFINE v == Counted(r.s, b, "dropN")
             w == FreeEntity(v, ref)
  <2>1. x = [ok |-> TRUE, s |-> w]
    BY <1>2, <1>13
  <2>2. Steady(u, r.s)
    BY <1>9, <1>13 DEF Moved
  <2>3. Ledger(u, r.s, ref, 0)
    BY <1>8, <2>2, SteadyLedger
  <2>4. Off(r.s, ref, n + 0, b, 1, 0)
    BY <1>0, <1>7, <1>10, <2>3, OffLedger
  <2>5. Off(r.s, ref, n, b, 1, 0)
    BY <1>0, <2>4
  <2>6. Off(v, ref, n, b, 1 - 1, 0)
    BY <1>10, <2>5, SourceBooks
  <2>7. Off(v, ref, n, b, 0, 0)
    BY <2>6
  <2>8. Kept(r.s, v)
    BY <1>5, <1>10, KeepsCounted
  <2>9. Good(v) /\ ValidRef(v, ref)
    BY <1>10, <2>8, SameValid DEF Kept
  <2> HIDE DEF v
  <2>10. Kept(v, w) /\ Ledger(v, w, ref, 1)
    BY <2>9, KeepsFreeEntity, FreeLedger
  <2> HIDE DEF w
  <2>11. Off(w, ref, n + 1, b, 0, 0)
    BY <1>0, <2>7, <2>10, OffLedger DEF Kept
  <2>12. Off(w, ref, 0, b, 0, 0)
    BY <1>0, <2>11
  <2> QED
    BY <2>1, <2>12, OffSettled
<1>14. CASE ~r.ok /\ ~r.s.stop /\ P(b).policy # "destroy"
  <2>1. x = [ok |-> FALSE, s |-> Stopped(r.s, b)]
    BY <1>2, <1>14
  <2>2. Stopped(r.s, b).stop
    <3>1. b \in Reasons /\ r.s \in Sims
      BY <1>10 DEF Reasons, Good
    <3> QED
      BY <3>1, SetStop
  <2> QED
    BY <2>1, <2>2
<1> QED
  BY <1>10, <1>11, <1>12, <1>13, <1>14

\* A batch.
LEMMA CreateBatchSettles ==
    ASSUME NoReentry, NEW s, Good(s), RunsSettled(s), NEW b \in Blocks, Kind(b) = "CREATE",
           NEW t \in CreateBatch(s, b)
    PROVE  RunsSettled(t)
<1> DEFINE R == {r \in Reply : Good(r.s) /\ RunsSettled(r.s)}
<1>1. Linked
  BY DEF Good
<1>2. [ok |-> TRUE, s |-> s] \in R
  BY DEF Reply, Good
<1>3. ASSUME NEW r \in R, NEW x \in CreateOne(r.s, b) PROVE x \in R
  BY <1>3, CreateOneReaches, CreateOneSettles DEF Reached
<1> HIDE DEF R
<1>4. CreateBatch(s, b) \subseteq {r.s : r \in R}
  BY <1>1, <1>2, <1>3, CreateBatchWithin
<1> QED
  BY <1>4 DEF R

\* Scheduling the next arrival moves nobody.
LEMMA ScheduleCreateSettles ==
    ASSUME NEW s, Good(s), RunsSettled(s), NEW b \in Blocks, Kind(b) = "CREATE",
           NEW t \in ScheduleCreate(s, b)
    PROVE  RunsSettled(t)
<1> DEFINE do == "create"
<1>1. PICK d \in P(b).interval : t = Schedule(s, d, do, b, NullRef, 0)
  BY DEF ScheduleCreate
<1>2. d \in Int /\ (Forward => d >= 0) /\ s.clock \in Int /\ b \in OfKind("CREATE")
  BY CreateParts, SimTypes DEF Good, Forward, OfKind
<1>3. [time |-> s.clock + d, do |-> do, block |-> b, ref |-> NullRef, idx |-> 0] \in ValidEvents(s)
  BY <1>2 DEF ValidEvents, Events
<1>4. do # "delay"
  OBVIOUS
<1> HIDE DEF do
<1>5. Kept(s, t) /\ Steady(s, t)
  BY <1>1, <1>3, <1>4, ScheduleSteady
<1> SUFFICES ASSUME ~t.stop PROVE Settled(t)
  BY DEF RunsSettled
<1>6. Settled(s)
  BY <1>5, RunsOn DEF RunsSettled
<1> QED
  BY <1>5, <1>6, SettledSteady, SameValid DEF Kept

\* The handler of an arrival, and the start of a CREATE block.
LEMMA ArriveSettles ==
    ASSUME NoReentry, NEW s, Good(s), RunsSettled(s), NEW b \in Blocks, Kind(b) = "CREATE",
           NEW t \in Arrive(s, b)
    PROVE  RunsSettled(t)
<1>1. PICK u \in CreateBatch(s, b) : t \in IF u.stop THEN {u} ELSE ScheduleCreate(u, b)
  BY DEF Arrive
<1>2. Good(u) /\ RunsSettled(u)
  BY CreateBatchReaches, CreateBatchSettles DEF Reached
<1>3. t = u \/ t \in ScheduleCreate(u, b)
  BY <1>1
<1> QED
  BY <1>2, <1>3, ScheduleCreateSettles

\* The start of all CREATE blocks.
LEMMA StartAllSettles ==
    ASSUME NoReentry, NEW s, Good(s), RunsSettled(s), NEW t \in StartAll(s)
    PROVE  RunsSettled(t)
<1> DEFINE R == {v \in Sims : Good(v) /\ RunsSettled(v)}
<1>1. Linked /\ s \in R
  BY DEF Good
<1>2. ASSUME NEW u \in R, NEW b \in Blocks, Kind(b) = "CREATE", NEW x \in StartCreate(u, b)
      PROVE  x \in R
  <2>1. Good(u) /\ RunsSettled(u)
    OBVIOUS
  <2>2. x \in Arrive(u, b) \/ x \in ScheduleCreate(u, b)
    BY <1>2 DEF StartCreate
  <2>3. Good(x) /\ RunsSettled(x)
    BY <1>2, <2>1, <2>2, ArriveReaches, ScheduleCreateReaches, ArriveSettles, ScheduleCreateSettles DEF Reached
  <2> QED
    BY <2>3 DEF Good
<1> HIDE DEF R
<1>3. StartAll(s) \subseteq R
  BY <1>1, <1>2, StartAllWithin
<1> QED
  BY <1>3 DEF R

------------------------------------------------------------------------------
(* The handlers of the other events.                                       *)

\* A delay lets go of an entity that has gone on.
LEMMA LeftSettles ==
    ASSUME NEW s, Good(s), NEW b \in Blocks, Kind(b) = "DELAY", NEW ref, Off(s, ref, 0, b, 0, 1)
    PROVE  Kept(s, Left(s, b)) /\ Settled(Left(s, b))
<1> DEFINE u == Counted(s, b, "exitN")
           m == u.count[b].held
           n == IF m > 0 THEN m - 1 ELSE m
           t == [u EXCEPT !.count[b].held = n]
<1>0. Left(s, b) = t /\ Kept(s, Left(s, b))
  BY KeepsLeft DEF Left
<1>1. "exitN" \in Tallies
  BY DEF CounterNames, Tallies
<1>2. /\ Kept(s, u) /\ Differ(s, u, {"count"}) /\ u.count[b] = OneMore(s.count[b], "exitN")
      /\ \A c \in Blocks \ {b} : u.count[c] = s.count[c]
      /\ u.count[b].held = s.count[b].held
  BY <1>1, KeepsCounted
<1> HIDE DEF u
<1>3. Good(u)
  BY <1>2 DEF Kept
<1>4. m \in Nat /\ Fits(b, m)
  BY <1>3, SimTypes DEF Good, WithinCapacity
<1> HIDE DEF m
<1>5. n \in Nat /\ n <= m
  BY <1>4
<1> HIDE DEF n
<1>6. Fits(b, n)
  BY <1>3, <1>4, <1>5, FewerFit DEF Good
<1>7. /\ Differ(u, t, {"count"}) /\ t.count[b] = [u.count[b] EXCEPT !.held = n]
      /\ \A c \in Blocks \ {b} : t.count[c] = u.count[c]
  BY <1>3, <1>5, <1>6, KeepsHeld
<1> HIDE DEF t
<1>8. /\ t.arr = s.arr /\ t.events = s.events /\ t.resource = s.resource /\ t.pool = s.pool
      /\ \A c \in Blocks \ {b} : t.count[c] = s.count[c]
  BY <1>2, <1>7 DEF Differ, SimFields
<1>9. Off(t, ref, 0, b, Debt(t, b), Unheld(t, b))
  BY <1>8, OffBooks
<1>10. s.count[b] \in [CounterNames -> Nat] /\ u.count[b] \in [CounterNames -> Nat]
  BY <1>3, SimTypes DEF Good
<1>11. /\ t.count[b].enterN = s.count[b].enterN /\ t.count[b].exitN = s.count[b].exitN + 1
       /\ t.count[b].held = n /\ m = s.count[b].held
  <2>1. /\ u.count[b].enterN = s.count[b].enterN /\ u.count[b].exitN = s.count[b].exitN + 1
    BY <1>2, <1>10 DEF CounterNames, OneMore
  <2>2. t.count[b].enterN = u.count[b].enterN /\ t.count[b].exitN = u.count[b].exitN
    BY <1>7, <1>10 DEF CounterNames
  <2>3. t.count[b].held = n
    BY <1>7, <1>10 DEF CounterNames
  <2>4. m = s.count[b].held
    BY <1>2 DEF m
  <2> QED
    BY <2>1, <2>2, <2>3, <2>4
<1>12. s.count[b].enterN \in Nat /\ s.count[b].exitN \in Nat /\ s.count[b].held \in Nat
  BY <1>10 DEF CounterNames
<1>13. /\ Debt(s, b) = 0 /\ Unheld(s, b) = 1
       /\ Debt(s, b) = s.count[b].enterN - s.count[b].exitN - s.count[b].held
       /\ Debt(t, b) = t.count[b].enterN - t.count[b].exitN - t.count[b].held
       /\ Unheld(s, b) = s.count[b].held - Count(s.events, ServedBy(b))
       /\ Unheld(t, b) = t.count[b].held - Count(t.events, ServedBy(b))
  BY DebtByKind DEF Off, Unheld
<1>14. Count(s.events, ServedBy(b)) \in Nat /\ Count(t.events, ServedBy(b)) = Count(s.events, ServedBy(b))
  BY <1>8, SimTypes, PlacesFinite DEF Good
<1>15. s.count[b].held > 0
  BY <1>12, <1>13, <1>14
<1>16. n = s.count[b].held - 1
  BY <1>11, <1>12, <1>15 DEF n
<1>17. Debt(t, b) = 0 /\ Unheld(t, b) = 0
  BY <1>11, <1>12, <1>13, <1>14, <1>16
<1>18. Off(t, ref, 0, b, 0, 0)
  BY <1>9, <1>17
<1> QED
  BY <1>0, <1>18, OffSettled DEF t

\* The end of a delay: the event is gone, the entity goes on, and the delay lets it go.
LEMMA DelayEndsSettles ==
    ASSUME NoReentry, NEW s, Good(s), NEW b \in Blocks, Kind(b) = "DELAY", NEW ref, ValidRef(s, ref),
           NEW n \in Int, n + 1 = 0, Off(s, ref, n, b, 0, 1), NEW t \in DelayEnds(s, b, ref)
    PROVE  RunsSettled(t)
<1>0. Linked /\ P(b).next \in Blocks /\ P(b).waitQueues \in Seq(OfKind("QUEUE"))
  BY DelayParts DEF Good, Queues
<1>1. PICK r \in Call[<<s, P(b).next, ref>>] :
         t \in CASE r.ok -> {w.s : w \in WakeFirst(Call, Returns(FALSE, Left(r.s, b)), P(b).waitQueues)}
                 [] ~r.ok /\ r.s.stop -> {r.s}
                 [] OTHER -> {Stopped(r.s, b)}
  BY DEF DelayEnds, Left
<1>2. r \in Reply /\ Kept(s, r.s) /\ Moved(s, P(b).next, ref, r)
  BY <1>0, <1>1, CallAdvances DEF Answers, Advances
<1>3. Good(r.s) /\ r.ok \in BOOLEAN /\ r.s.stop \in BOOLEAN
  BY <1>2, SimTypes DEF Kept, Reply, Good
<1> SUFFICES ASSUME ~t.stop PROVE Settled(t)
  BY DEF RunsSettled
<1>4. CASE r.ok
  <2> DEFINE u == Left(r.s, b)
             R == {x \in Reply : Kept(u, x.s) /\ (~x.s.stop => Steady(u, x.s))}
  <2>1. PICK w \in WakeFirst(Call, Returns(FALSE, u), P(b).waitQueues) : t = w.s
    BY <1>1, <1>4
  <2>2. Kept(r.s, u) /\ Good(u) /\ u \in Sims
    BY <1>3, KeepsLeft DEF Kept, Good
  <2> HIDE DEF u
  <2>3. Returns(FALSE, u) \in SUBSET R
    BY <2>2, KeptReflexive, SteadyReflexive DEF Returns, Reply
  <2>4. ASSUME NEW x \in R, NEW q \in OfKind("QUEUE"), NEW y \in TryAdvance(Call, x.s, q)
        PROVE  y \in R
    <3>1. Good(x.s) /\ q \in Blocks /\ Kind(q) = "QUEUE"
      BY DEF Kept, OfKind
    <3>2. y \in Reply /\ Kept(x.s, y.s) /\ Woken(x.s, q, y)
      BY <1>0, <3>1, CallAdvances, TryAdvanceKeeps, TryAdvanceMoves
    <3>3. ~y.s.stop => Steady(u, y.s)
      BY <3>2, RunsOn, LedgerSteady DEF Woken
    <3> QED
      BY <3>2, <3>3, KeptTransitive
  <2> HIDE DEF R
  <2>5. \A x \in R : ~x.ok => \A q \in OfKind("QUEUE") : TryAdvance(Call, x.s, q) \subseteq R
    BY <2>4
  <2>6. WakeFirst(Call, Returns(FALSE, u), P(b).waitQueues) \subseteq R
    BY <1>0, <2>3, <2>5, WakeFirstWithin
  <2>7. Kept(u, t) /\ Steady(u, t)
    BY <2>1, <2>6 DEF R
  <2>8. ~r.s.stop
    BY <2>2, <2>7, RunsOn
  <2>9. Ledger(s, r.s, ref, 1)
    BY <1>2, <1>4, <2>8 DEF Moved
  <2>10. Off(r.s, ref, n + 1, b, 0, 1)
    BY <1>2, <2>9, OffLedger DEF Kept
  <2>11. Off(r.s, ref, 0, b, 0, 1)
    BY <2>10
  <2>12. Settled(u)
    BY <1>3, <2>11, LeftSettles DEF u
  <2> QED
    BY <2>7, <2>12, SettledSteady, SameValid DEF Kept
<1>5. CASE ~r.ok /\ r.s.stop
  BY <1>1, <1>5
<1>6. CASE ~r.ok /\ ~r.s.stop
  <2>1. t = Stopped(r.s, b)
    BY <1>1, <1>6
  <2>2. b \in Reasons /\ r.s \in Sims
    BY <1>3 DEF Reasons, Good
  <2> QED
    BY <2>1, <2>2, SetStop
<1> QED
  BY <1>3, <1>4, <1>5, <1>6

\* An entity whose patience has run out leaves the queue.
LEMMA GivenUpLedger ==
    ASSUME NEW s, Good(s), Settled(s), NEW b \in Blocks, Kind(b) = "QUEUE",
           NEW pos \in DOMAIN s.arr[b], s.arr[b][pos].valid, NEW n \in Int, n + 1 = 0
    PROVE  LET u == Counted(QueueGet(s, b, pos), b, "timeoutN")
           IN  Kept(s, u) /\ Off(u, s.arr[b][pos].ref, n, b, 0, 0)
<1> DEFINE v == QueueGet(s, b, pos)
           u == Counted(v, b, "timeoutN")
           x == [s.arr[b][pos] EXCEPT !.valid = FALSE]
           y == s.arr[b][pos]
           h == s.count[b].held
<1>1. s.count[b] \in [CounterNames -> Nat] /\ h \in Nat /\ s.arr[b] \in Seq(Slots) /\ y \in Live
  BY SimTypes DEF Good, Live
<1>2. /\ Kept(s, v) /\ Differ(s, v, {"arr", "count"})
      /\ x \in Slots \ Live /\ v.arr[b] = [s.arr[b] EXCEPT ![pos] = x]
      /\ \A d \in Blocks \ {b} : v.arr[d] = s.arr[d] /\ v.count[d] = s.count[d]
      /\ v.count[b] = [s.count[b] EXCEPT !.held = IF h > 0 THEN h - 1 ELSE h]
  BY KeepsQueueGet
<1> HIDE DEF v, x
<1>3. "timeoutN" \in Tallies /\ Good(v)
  BY <1>2 DEF CounterNames, Tallies, Kept
<1>4. /\ Kept(v, u) /\ Differ(v, u, {"count"}) /\ \A d \in Blocks \ {b} : u.count[d] = v.count[d]
      /\ u.count[b] = OneMore(v.count[b], "timeoutN") /\ u.count[b].held = v.count[b].held
  BY <1>3, KeepsCounted
<1> HIDE DEF u
<1>5. Kept(s, u) /\ Good(u)
  BY <1>2, <1>4, KeptTransitive DEF Kept
<1>6. /\ u.events = s.events /\ u.resource = s.resource /\ u.pool = s.pool /\ u.arr = v.arr
  BY <1>2, <1>4 DEF Differ, SimFields
<1>7. \A K : Count(u.arr[b], K) + (IF y \in K THEN 1 ELSE 0) = Count(s.arr[b], K) + (IF x \in K THEN 1 ELSE 0)
  <2> DEFINE a == s.arr[b]
  <2>1. a \in Seq(Slots) /\ pos \in DOMAIN a /\ x \in Slots /\ y = a[pos]
    BY <1>1, <1>2
  <2>2. u.arr[b] = [a EXCEPT ![pos] = x]
    BY <1>2, <1>6
  <2> HIDE DEF a, y
  <2>3. \A K : Count([a EXCEPT ![pos] = x], K) + (IF a[pos] \in K THEN 1 ELSE 0)
                 = Count(a, K) + (IF x \in K THEN 1 ELSE 0)
    BY <2>1, ChangeCounts
  <2>4. \A K : Count(u.arr[b], K) + (IF y \in K THEN 1 ELSE 0) = Count(a, K) + (IF x \in K THEN 1 ELSE 0)
    BY <2>1, <2>2, <2>3
  <2> QED
    BY <2>4 DEF a
<1>8. \A K : Count(u.arr[b], K) \in Nat /\ Count(s.arr[b], K) \in Nat
  BY <1>5, SimTypes, PlacesFinite DEF Good
<1>9. Count(u.arr[b], Live) + 1 = Count(s.arr[b], Live)
  BY <1>1, <1>2, <1>7, <1>8
<1>10. h = Count(s.arr[b], Live)
  <2>1. Unheld(s, b) = 0 /\ Unheld(s, b) = h - Count(s.arr[b], Live)
    BY DEF Settled, Unheld
  <2> QED
    BY <1>1, <1>8, <2>1
<1>11. h > 0
  BY <1>8, <1>9, <1>10
<1>12. Count(u.arr[b], Live) = Count(s.arr[b], Live) + n
  BY <1>8, <1>9
<1>13. \A z \in Refs : Count(u.arr[b], Holds(z)) = Count(s.arr[b], Holds(z)) + (IF z = y.ref THEN n ELSE 0)
  <2> TAKE z \in Refs
  <2>1. (y \in Holds(z) <=> z = y.ref) /\ x \notin Holds(z)
    BY <1>1, <1>2, HoldsLive
  <2>2. Count(u.arr[b], Holds(z)) + (IF y \in Holds(z) THEN 1 ELSE 0)
          = Count(s.arr[b], Holds(z)) + (IF x \in Holds(z) THEN 1 ELSE 0)
    BY <1>7
  <2> HIDE DEF y
  <2> QED
    BY <1>8, <2>1, <2>2
<1>14. u.count[b].held = h - 1
  BY <1>1, <1>2, <1>4, <1>11 DEF CounterNames
<1>15. Debt(u, b) = Debt(s, b)
  <2>1. /\ v.count[b].enterN = s.count[b].enterN /\ v.count[b].exitN = s.count[b].exitN
        /\ v.count[b].timeoutN = s.count[b].timeoutN /\ v.count[b].dropN = s.count[b].dropN
        /\ v.count[b] \in [CounterNames -> Nat]
    BY <1>1, <1>2, <1>3, SimTypes DEF CounterNames, Good
  <2>2. /\ u.count[b].enterN = s.count[b].enterN /\ u.count[b].exitN = s.count[b].exitN
        /\ u.count[b].timeoutN = s.count[b].timeoutN + 1 /\ u.count[b].dropN = s.count[b].dropN
    BY <1>4, <2>1 DEF CounterNames, OneMore
  <2>3. /\ Debt(u, b) = u.count[b].enterN - u.count[b].exitN - u.count[b].timeoutN
                             - u.count[b].dropN - u.count[b].held
        /\ Debt(s, b) = s.count[b].enterN - s.count[b].exitN - s.count[b].timeoutN
                             - s.count[b].dropN - s.count[b].held
    BY DebtByKind
  <2> DEFINE e == s.count[b].enterN
             i == s.count[b].exitN
             o == s.count[b].timeoutN
             p == s.count[b].dropN
  <2>4. Debt(u, b) = e - i - (o + 1) - p - (h - 1) /\ Debt(s, b) = e - i - o - p - h
    BY <1>14, <2>2, <2>3
  <2>5. e \in Nat /\ i \in Nat /\ o \in Nat /\ p \in Nat
    BY <1>1 DEF CounterNames
  <2> HIDE DEF e, i, o, p, h
  <2> QED
    BY <1>1, <2>4, <2>5
<1>16. u.count[b].held = s.count[b].held + n
  BY <1>1, <1>14
<1>17. \A d \in Blocks \ {b} : u.arr[d] = s.arr[d] /\ u.count[d] = s.count[d]
  BY <1>2, <1>4, <1>6
<1> HIDE DEF y, h
<1>18. Ledger(s, u, y.ref, n)
  <2>1. QueueChange(s, u, b, y.ref, n)
    BY <1>6, <1>12, <1>13, <1>15, <1>16, <1>17 DEF QueueChange
  <2> QED
    BY <1>5, <2>1, QueueLedger
<1>19. Off(s, y.ref, 0, b, 0, 0)
  BY OffSettled
<1>20. Off(u, y.ref, 0 + n, b, 0, 0)
  BY <1>5, <1>18, <1>19, OffLedger DEF Kept
<1>21. 0 + n = n
  OBVIOUS
<1> QED
  BY <1>5, <1>20, <1>21 DEF u, v, y

\* A timeout.
LEMMA TimesOutSettles ==
    ASSUME NoReentry, NEW s, Good(s), Settled(s), NEW b \in Blocks, Kind(b) = "QUEUE",
           P(b).hasTimeout, NEW idx \in Nat, NEW t \in TimesOut(s, b, idx)
    PROVE  RunsSettled(t)
<1> DEFINE pos == QueueFind(s, b, idx)
           u == Counted(QueueGet(s, b, pos), b, "timeoutN")
           ref == s.arr[b][pos].ref
           next == P(b).nextTimeout
           n == -1
<1>0. Linked /\ next \in Blocks
  BY QueueParts DEF Good
<1>1. n \in Int /\ n + 1 = 0
  OBVIOUS
<1> HIDE DEF n
<1>2. CASE pos = 0
  BY <1>2 DEF TimesOut, RunsSettled
<1>3. CASE pos # 0
  <2>1. pos \in DOMAIN s.arr[b] /\ s.arr[b][pos].valid /\ ValidRef(s, ref)
    BY <1>3, FoundSlot
  <2>2. PICK r \in Call[<<u, next, ref>>] : t = IF r.ok \/ r.s.stop THEN r.s ELSE Stopped(r.s, b)
    BY <1>3 DEF TimesOut
  <2> HIDE DEF pos
  <2>3. Kept(s, u) /\ Off(u, ref, n, b, 0, 0)
    BY <1>1, <2>1, GivenUpLedger
  <2> HIDE DEF u, ref, next
  <2>4. Good(u) /\ ValidRef(u, ref)
    BY <2>1, <2>3, SameValid DEF Kept
  <2>5. r \in Reply /\ Kept(u, r.s) /\ Moved(u, next, ref, r)
    BY <1>0, <2>2, <2>4, CallAdvances DEF Answers, Advances
  <2> SUFFICES ASSUME ~t.stop PROVE Settled(t)
    BY DEF RunsSettled
  <2>6. CASE r.ok \/ r.s.stop
    <3>1. t = r.s /\ r.ok
      BY <2>2, <2>6
    <3>2. Ledger(u, r.s, ref, 1)
      BY <2>5, <3>1 DEF Moved
    <3>3. Off(r.s, ref, n + 1, b, 0, 0)
      BY <1>1, <2>3, <2>5, <3>2, OffLedger DEF Kept
    <3>4. Off(r.s, ref, 0, b, 0, 0)
      BY <1>1, <3>3
    <3> QED
      BY <3>1, <3>4, OffSettled
  <2>7. CASE ~(r.ok \/ r.s.stop)
    <3>1. t = Stopped(r.s, b) /\ b \in Reasons /\ r.s \in Sims
      BY <2>2, <2>5, <2>7 DEF Reasons, Kept, Good
    <3> QED
      BY <3>1, SetStop
  <2> QED
    BY <2>6, <2>7
<1> QED
  BY <1>2, <1>3

\* The earliest event is taken off the queue: the entity it held in service is on
\* its way, if it held one.
LEMMA PoppingOff ==
    ASSUME NEW s, Good(s), Settled(s), s.events # <<>>, NEW n \in Int, n + 1 = 0
    PROVE  LET v == Head(s.events)
               t == Popping(s)
           IN  /\ v.do # "delay" => Settled(t)
               /\ v.do = "delay" => Off(t, v.ref, n, v.block, 0, 1)
<1> DEFINE v == Head(s.events)
           t == Popping(s)
<1>1. /\ Good(t) /\ v \in ValidEvents(t) /\ Differ(s, t, {"clock", "events"})
      /\ t.events = Popped(s.events)
  BY PoppingGood
<1>2. \A K : Count(s.events, K) = Count(t.events, K) + (IF v \in K THEN 1 ELSE 0)
  <2>1. s.events \in Seq(Events) /\ IsHeap(s.events) /\ Timed(Events)
    BY SimTypes DEF Good, EventsValid, Timed, Events
  <2> QED
    BY <1>1, <2>1, PoppedFacts
<1>3. v \in Events
  BY <1>1 DEF ValidEvents
<1> HIDE DEF v, t
<1>4. /\ t.arr = s.arr /\ t.resource = s.resource /\ t.pool = s.pool /\ t.count = s.count
  BY <1>1 DEF Differ, SimFields
<1>5. \A K : Count(t.events, K) \in Nat
  BY <1>1, SimTypes, PlacesFinite DEF Good
<1>6. ASSUME NEW x \in Refs
      PROVE  Places(s, x) = Places(t, x) + (IF v \in Serves(x) THEN 1 ELSE 0)
  <2>1. /\ Places(t, x) = Cardinality(SlotPlaces(t, x)) + Count(t.events, Serves(x)) + FreeCount(t, x)
        /\ Places(s, x) = Cardinality(SlotPlaces(s, x)) + Count(s.events, Serves(x)) + FreeCount(s, x)
    BY DEF Places, FreeCount
  <2>2. SlotPlaces(t, x) = SlotPlaces(s, x) /\ FreeCount(t, x) = FreeCount(s, x)
    BY <1>4 DEF SlotPlaces, FreeCount
  <2>3. Cardinality(SlotPlaces(s, x)) \in Nat /\ FreeCount(s, x) \in Nat
    BY PlacesTypes DEF FreeCount
  <2> QED
    BY <1>2, <1>5, <2>1, <2>2, <2>3
<1>7. ASSUME NEW c \in Blocks
      PROVE  /\ Debt(t, c) = 0
             /\ Unheld(t, c) = IF Kind(c) = "DELAY" /\ v \in ServedBy(c) THEN 1 ELSE 0
  <2>1. Debt(t, c) = Debt(s, c) /\ Debt(s, c) = 0 /\ Unheld(s, c) = 0
    BY <1>4, DebtDepends DEF Settled
  <2>2. CASE Kind(c) = "DELAY"
    <3>1. /\ Unheld(t, c) = s.count[c].held - Count(t.events, ServedBy(c))
          /\ Unheld(s, c) = s.count[c].held - Count(s.events, ServedBy(c))
      BY <1>4, <2>2 DEF Unheld
    <3>2. Count(s.events, ServedBy(c)) = Count(t.events, ServedBy(c)) + (IF v \in ServedBy(c) THEN 1 ELSE 0)
      BY <1>2
    <3>3. s.count[c].held \in Nat /\ Count(t.events, ServedBy(c)) \in Nat
      BY <1>5, SimTypes DEF Good
    <3> QED
      BY <2>1, <2>2, <3>1, <3>2, <3>3
  <2>3. CASE Kind(c) # "DELAY"
    <3>1. Unheld(t, c) = Unheld(s, c)
      BY <1>4, <2>3 DEF Unheld
    <3> QED
      BY <2>1, <2>3, <3>1
  <2> QED
    BY <2>1, <2>2, <2>3
<1>8. \A r \in DOMAIN program.capacity : UseDebt(t, r) = 0
  BY <1>4 DEF Settled, UseDebt
<1>9. ASSUME NEW x \in Refs
      PROVE  /\ Places(s, x) = IF ValidRef(t, x) THEN 1 ELSE 0
             /\ Places(t, x) \in Nat
  <2>1. ValidRef(t, x) <=> ValidRef(s, x)
    BY <1>4 DEF ValidRef
  <2> QED
    BY <1>1, <2>1, PlacesTypes DEF Settled
<1>10. ASSUME v.do # "delay" PROVE Settled(t)
  <2>1. \A x : v \notin Serves(x) /\ v \notin ServedBy(x)
    BY <1>10 DEF Serves, ServedBy
  <2>2. \A x \in Refs : Places(t, x) = Places(s, x)
    BY <1>6, <1>9, <2>1
  <2>3. \A x \in Refs : Places(t, x) = IF ValidRef(t, x) THEN 1 ELSE 0
    BY <1>9, <2>2
  <2>4. \A c \in Blocks : Debt(t, c) = 0 /\ Unheld(t, c) = 0
    BY <1>7, <2>1
  <2> QED
    BY <1>8, <2>3, <2>4 DEF Settled
<1>11. ASSUME v.do = "delay" PROVE Off(t, v.ref, n, v.block, 0, 1)
  <2>1. (\A x : v \in Serves(x) <=> x = v.ref) /\ (\A c : v \in ServedBy(c) <=> c = v.block)
    BY <1>3, <1>11 DEF Serves, ServedBy
  <2>2. v.block \in Blocks /\ Kind(v.block) = "DELAY"
    BY <1>3, <1>11 DEF Events, OfKind
  <2>3. \A x \in Refs : Places(t, x) = (IF ValidRef(t, x) THEN 1 ELSE 0) + (IF x = v.ref THEN n ELSE 0)
    <3> TAKE x \in Refs
    <3> DEFINE y == IF ValidRef(t, x) THEN 1 ELSE 0
    <3>1. Places(s, x) = y /\ Places(t, x) \in Nat /\ y \in Nat
      BY <1>9
    <3>2. Places(s, x) = Places(t, x) + (IF x = v.ref THEN 1 ELSE 0)
      BY <1>6, <2>1
    <3> HIDE DEF y
    <3>3. Places(t, x) = y + (IF x = v.ref THEN n ELSE 0)
      BY <3>1, <3>2
    <3> QED
      BY <3>3 DEF y
  <2>4. \A c \in Blocks : /\ Debt(t, c) = IF c = v.block THEN 0 ELSE 0
                          /\ Unheld(t, c) = IF c = v.block THEN 1 ELSE 0
    BY <1>7, <2>1, <2>2
  <2> QED
    BY <1>8, <2>3, <2>4 DEF Off
<1> QED
  BY <1>10, <1>11 DEF v, t

\* Every handler.
LEMMA HandleSettles ==
    ASSUME NoReentry, NEW s, Good(s), Settled(s), s.events # <<>>,
           NEW t \in Handle(Popping(s), Head(s.events))
    PROVE  RunsSettled(t)
<1> DEFINE v == Head(s.events)
           u == Popping(s)
           n == -1
<1>1. Good(u) /\ v \in ValidEvents(u)
  BY PoppingGood
<1>2. n \in Int /\ n + 1 = 0
  OBVIOUS
<1> HIDE DEF n
<1>3. /\ v.do # "delay" => Settled(u)
      /\ v.do = "delay" => Off(u, v.ref, n, v.block, 0, 1)
  BY <1>2, PoppingOff
<1>4. t \in Handle(u, v)
  OBVIOUS
<1> HIDE DEF u, v
<1>5. CASE v.do = "create"
  <2>1. v.block \in Blocks /\ Kind(v.block) = "CREATE"
    BY <1>1, <1>5 DEF ValidEvents, Events, OfKind
  <2>2. t \in Arrive(u, v.block) /\ RunsSettled(u)
    BY <1>3, <1>4, <1>5 DEF Handle, RunsSettled
  <2> QED
    BY <1>1, <2>1, <2>2, ArriveSettles
<1>6. CASE v.do = "delay"
  <2>1. v.block \in Blocks /\ Kind(v.block) = "DELAY" /\ ValidRef(u, v.ref)
    BY <1>1, <1>6 DEF ValidEvents, Events, OfKind
  <2>2. t \in DelayEnds(u, v.block, v.ref)
    BY <1>4, <1>6 DEF Handle
  <2> QED
    BY <1>1, <1>2, <1>3, <1>6, <2>1, <2>2, DelayEndsSettles
<1>7. CASE v.do = "timeout"
  <2>1. v.block \in Blocks /\ Kind(v.block) = "QUEUE" /\ P(v.block).hasTimeout /\ v.idx \in Nat
    BY <1>1, <1>7 DEF ValidEvents, Events, OfKind
  <2>2. t \in TimesOut(u, v.block, v.idx) /\ Settled(u)
    BY <1>3, <1>4, <1>7 DEF Handle
  <2> QED
    BY <1>1, <2>1, <2>2, TimesOutSettles
<1> QED
  BY <1>1, <1>5, <1>6, <1>7 DEF ValidEvents, Events

------------------------------------------------------------------------------
(* The invariant of the process.                                           *)

\* The globals are good, the text is one without re-entry, and a run that goes on
\* is settled.
BalInv == IInv /\ NoReentry /\ RunsSettled(sim)

\* What is settled is settled by the places and the books.
LEMMA SettledDepends ==
    ASSUME NEW s, NEW t, t.arr = s.arr, t.events = s.events, t.resource = s.resource,
           t.pool = s.pool, t.count = s.count, Settled(s)
    PROVE  Settled(t)
<1>1. Steady(s, t)
  BY StandsStill, DebtDepends
<1>2. \A ref : ValidRef(t, ref) <=> ValidRef(s, ref)
  BY DEF ValidRef
<1> QED
  BY <1>1, <1>2, SettledSteady

\* Before the start there is nothing to settle.
LEMMA InitSettled ==
    ASSUME Linked, NEW s, s = InitModel(program)
    PROVE  Settled(s)
<1> DEFINE Resources == DOMAIN program.capacity
           unused == [busy |-> 0, seizeN |-> 0, releaseN |-> 0]
<1>1. Good(s)
  BY InitGood
<1>2. /\ s.events = <<>>
      /\ s.pool = [e \in EntityTypes |-> EmptyPool]
      /\ s.count = [b \in Blocks |-> ZeroCount]
      /\ s.arr = [b \in Blocks |-> <<>>]
      /\ s.resource = [r \in Resources |-> unused]
  BY DEF InitModel, EntityTypes, Blocks
<1>3. /\ \A e \in EntityTypes : s.pool[e].entities = <<>> /\ s.pool[e].free = <<>>
      /\ \A b \in Blocks : s.count[b] = ZeroCount /\ s.arr[b] = <<>>
      /\ \A r \in Resources : s.resource[r] = unused
  BY <1>2 DEF EmptyPool
<1>4. ASSUME NEW q, q = <<>>, NEW K PROVE Count(q, K) = 0
  BY <1>4, FS_EmptySet DEF Count
<1>5. ASSUME NEW x \in Refs PROVE Places(s, x) = IF ValidRef(s, x) THEN 1 ELSE 0
  <2>1. x.type \in EntityTypes
    BY DEF Refs
  <2>2. SlotPlaces(s, x) = {}
    BY <1>3 DEF SlotPlaces
  <2>3. Cardinality(SlotPlaces(s, x)) = 0
    BY <2>2, FS_EmptySet
  <2>4. Count(s.events, Serves(x)) = 0 /\ Count(s.pool[x.type].free, {x.idx}) = 0
    BY <1>2, <1>3, <1>4, <2>1
  <2>5. Places(s, x) = 0
    BY <2>3, <2>4 DEF Places
  <2>6. ~ValidRef(s, x)
    BY <1>3, <2>1 DEF ValidRef
  <2> QED
    BY <2>5, <2>6
<1>6. ASSUME NEW b \in Blocks PROVE Debt(s, b) = 0 /\ Unheld(s, b) = 0
  <2>1. /\ s.count[b].enterN = 0 /\ s.count[b].exitN = 0 /\ s.count[b].timeoutN = 0
        /\ s.count[b].dropN = 0 /\ s.count[b].createdN = 0 /\ s.count[b].held = 0
    BY <1>3 DEF ZeroCount
  <2>2. Debt(s, b) = 0
    BY <2>1 DEF Debt
  <2>3. Count(s.arr[b], Live) = 0 /\ Count(s.events, ServedBy(b)) = 0
    BY <1>2, <1>3, <1>4
  <2>4. Unheld(s, b) = 0
    BY <2>1, <2>3 DEF Unheld
  <2> QED
    BY <2>2, <2>4
<1>7. \A r \in Resources : UseDebt(s, r) = 0
  BY <1>3 DEF UseDebt
<1> QED
  BY <1>5, <1>6, <1>7 DEF Settled

\* A round of the loop.
LEMMA StepSettles ==
    ASSUME NoReentry, Good(sim), RunsSettled(sim), Step
    PROVE  RunsSettled(sim')
<1>1. PICK s \in Handle(Popping(sim), Head(sim.events)) : sim' = StopRuleApplied(Sampled(s))
  BY DEF Step, NothingToDo, Popping
<1>2. sim.events # <<>> /\ Settled(sim)
  BY DEF Step, NothingToDo, RunsSettled
<1>3. RunsSettled(s)
  BY <1>2, HandleSettles
<1>4. Good(Popping(sim)) /\ Head(sim.events) \in ValidEvents(Popping(sim))
  BY <1>2, PoppingGood
<1>5. Good(s)
  BY <1>4, HandleReaches DEF Reached
<1> DEFINE t == Sampled(s)
<1>6. /\ t.arr = s.arr /\ t.events = s.events /\ t.resource = s.resource /\ t.pool = s.pool
      /\ t.count = s.count /\ t.stop = s.stop
  BY <1>5 DEF Sampled, Good, Sims
<1>7. Good(t)
  BY <1>5, SampledGood
<1> HIDE DEF t
<1> SUFFICES ASSUME ~sim'.stop PROVE Settled(sim')
  BY DEF RunsSettled
<1>8. "stop_rule" \in Reasons
  BY DEF Reasons
<1>9. sim' = t
  <2>1. sim' = t \/ sim' = Stopped(t, "stop_rule")
    BY <1>1 DEF StopRuleApplied, t
  <2>2. Stopped(t, "stop_rule").stop
    BY <1>7, <1>8, SetStop DEF Good
  <2> QED
    BY <2>1, <2>2
<1>10. Settled(s)
  BY <1>3, <1>6, <1>9 DEF RunsSettled
<1> QED
  BY <1>6, <1>9, <1>10, SettledDepends

\* The end.
LEMMA EndSettles ==
    ASSUME Good(sim), RunsSettled(sim), End
    PROVE  RunsSettled(sim')
<1>1. /\ sim'.arr = sim.arr /\ sim'.events = sim.events /\ sim'.resource = sim.resource
      /\ sim'.pool = sim.pool /\ sim'.count = sim.count /\ sim'.stop = sim.stop
  BY DEF End, Good, Sims
<1> QED
  BY <1>1, SettledDepends DEF RunsSettled

\* The invariant speaks of the text, which does not change.
LEMMA BalancePrimed ==
    ASSUME program' = program
    PROVE  /\ NoReentry => NoReentry'
           /\ RunsSettled(sim') => RunsSettled(sim)'
<1>1. /\ Blocks' = Blocks /\ EntityTypes' = EntityTypes /\ Refs' = Refs /\ Slots' = Slots
      /\ \A kind : OfKind(kind)' = OfKind(kind)
      /\ \A b : Kind(b)' = Kind(b) /\ P(b)' = P(b)
  BY DEF Blocks, EntityTypes, Refs, Slots, OfKind, Kind, P
<1>2. Events' = Events
  BY <1>1 DEF Events
<1>3. /\ \A x : Holds(x)' = Holds(x)
      /\ \A x : Serves(x)' = Serves(x)
      /\ \A x : ServedBy(x)' = ServedBy(x)
      /\ Live' = Live
  <2>1. \A x : Holds(x)' = Holds(x)
    BY <1>1 DEF Holds
  <2>2. \A x : Serves(x)' = Serves(x)
    BY <1>2 DEF Serves
  <2>3. \A x : ServedBy(x)' = ServedBy(x)
    BY <1>2 DEF ServedBy
  <2>4. Live' = Live
    BY <1>1 DEF Live
  <2> QED
    BY <2>1, <2>2, <2>3, <2>4
<1>4. \A b : Called(b)' = Called(b)
  <2>1. \A r : WakeQueues(r)' = WakeQueues(r)
    BY <1>1 DEF WakeQueues
  <2>2. \A b : Ways(b)' = Ways(b)
    BY <1>1 DEF Ways
  <2> QED
    BY <1>1, <2>1, <2>2 DEF Called
<1>5. \A b : Entered(b)' = Entered(b)
  BY <1>1, <1>4 DEF Entered, Closed
<1>6. NoReentry => NoReentry'
  BY <1>1, <1>5 DEF NoReentry
<1>7. \A x : ValidRef(sim, x)' <=> ValidRef(sim', x)
  BY <1>1 DEF ValidRef
<1>8. \A x : Places(sim, x)' = Places(sim', x)
  BY <1>1, <1>3 DEF Places, SlotPlaces
<1>9. \A b : Debt(sim, b)' = Debt(sim', b) /\ Unheld(sim, b)' = Unheld(sim', b)
  BY <1>1, <1>3 DEF Debt, Unheld
<1>10. \A r : UseDebt(sim, r)' = UseDebt(sim', r)
  BY DEF UseDebt
<1>11. Settled(sim') => Settled(sim)'
  BY <1>1, <1>7, <1>8, <1>9, <1>10 DEF Settled
<1> QED
  BY <1>6, <1>11 DEF RunsSettled

\* The invariant holds at the start, for such a text.
LEMMA BalInvInit == Init /\ NoReentry => BalInv
<1> SUFFICES ASSUME Init, NoReentry PROVE BalInv
  OBVIOUS
<1>1. Linked
  BY DEF Init, Linked
<1>2. Settled(sim)
  BY <1>1, InitSettled DEF Init
<1> QED
  BY <1>2, IInvInit DEF BalInv, RunsSettled

\* Every step of the program keeps it.
LEMMA BalInvNext == BalInv /\ [Next]_vars => BalInv'
<1> SUFFICES ASSUME BalInv, [Next]_vars PROVE BalInv'
  OBVIOUS
<1>1. IInv' /\ Good(sim) /\ NoReentry /\ RunsSettled(sim)
  BY IInvNext DEF BalInv, IInv
<1>2. CASE Start
  <2>1. RunsSettled(sim')
    BY <1>1, <1>2, StartAllSettles DEF Start
  <2> QED
    BY <1>1, <1>2, <2>1, BalancePrimed DEF Start, BalInv
<1>3. CASE Step
  BY <1>1, <1>3, StepSettles, BalancePrimed DEF Step, BalInv
<1>4. CASE End
  BY <1>1, <1>4, EndSettles, BalancePrimed DEF End, BalInv
<1>5. CASE UNCHANGED vars
  <2>1. program' = program /\ sim' = sim
    BY <1>5 DEF vars
  <2>2. RunsSettled(sim')
    BY <1>1, <2>1
  <2> QED
    BY <1>1, <2>1, <2>2, BalancePrimed DEF BalInv
<1> QED
  BY <1>2, <1>3, <1>4, <1>5 DEF Next

\* The invariant holds in every state of a run of such a text.
LEMMA BalInvHolds == Spec /\ NoReentry => []BalInv
  BY BalInvInit, BalInvNext, PTL DEF Spec

\* Until a run stops, every entity of the pool waits in one queue, or is in service
\* in one delay, or is on the free list, and is in one place only, whatever was
\* refused and rolled back, timed out, overflowed or was sent back: for every text
\* in which no queue is advanced while its head is on its way.
THEOREM OnePlaceEach == Spec /\ NoReentry => []EntityInOnePlace
<1>1. BalInv => EntityInOnePlace
  <2> SUFFICES ASSUME BalInv, ~sim.stop, NEW e \in DOMAIN sim.pool,
                      NEW i \in DOMAIN sim.pool[e].entities
               PROVE  LET ref == [type |-> e, idx |-> i]
                          slots == UNION {{<<b, k>> : k \in {j \in Waiting(b) : sim.arr[b][j].ref = ref}} :
                                            b \in Blocks}
                          served == UNION {{k \in Serving(b) : sim.events[k].ref = ref} : b \in Blocks}
                          free == {k \in DOMAIN sim.pool[e].free : sim.pool[e].free[k] = i}
                      IN  Cardinality(slots) + Cardinality(served) + Cardinality(free) = 1
    BY DEF EntityInOnePlace
  <2> DEFINE ref == [type |-> e, idx |-> i]
             slots == UNION {{<<b, k>> : k \in {j \in Waiting(b) : sim.arr[b][j].ref = ref}} : b \in Blocks}
             served == UNION {{k \in Serving(b) : sim.events[k].ref = ref} : b \in Blocks}
             free == {k \in DOMAIN sim.pool[e].free : sim.pool[e].free[k] = i}
  <2>1. Good(sim) /\ Settled(sim)
    BY DEF BalInv, IInv, RunsSettled
  <2>2. sim \in Sims /\ e \in EntityTypes
    BY <2>1 DEF Good, Sims
  <2>3. i \in Nat \ {0}
    <3>1. sim.pool[e].entities \in Seq([FieldNames -> Int])
      BY <2>2, SimTypes DEF Pool
    <3> QED
      BY <3>1
  <2>4. ref \in Refs /\ ValidRef(sim, ref)
    BY <2>2, <2>3 DEF Refs, ValidRef
  <2>5. slots = SlotPlaces(sim, ref)
    <3>1. ASSUME NEW b \in Blocks
          PROVE  {j \in Waiting(b) : sim.arr[b][j].ref = ref}
                   = {j \in DOMAIN sim.arr[b] : sim.arr[b][j] \in Holds(ref)}
      <4>1. \A j \in DOMAIN sim.arr[b] : sim.arr[b][j] \in Slots
        <5>1. sim.arr[b] \in Seq(Slots)
          BY <2>2, SimTypes
        <5> QED
          BY <5>1
      <4> HIDE DEF ref
      <4> QED
        BY <4>1 DEF Waiting, Holds
    <3> HIDE DEF ref
    <3> QED
      BY <3>1 DEF SlotPlaces
  <2>6. served = {k \in DOMAIN sim.events : sim.events[k] \in Serves(ref)}
    <3>1. \A k \in DOMAIN sim.events : sim.events[k] \in Events
      <4>1. sim.events \in Seq(Events)
        BY <2>2, SimTypes
      <4> QED
        BY <4>1
    <3>2. \A v \in Events : v.do = "delay" => v.block \in Blocks
      BY DEF Events, OfKind
    <3> HIDE DEF ref
    <3> QED
      BY <3>1, <3>2 DEF Serving, Serves
  <2>7. free = {k \in DOMAIN sim.pool[ref.type].free : sim.pool[ref.type].free[k] \in {ref.idx}}
    OBVIOUS
  <2>8. /\ Cardinality(slots) = Cardinality(SlotPlaces(sim, ref))
        /\ Cardinality(served) = Count(sim.events, Serves(ref))
        /\ Cardinality(free) = Count(sim.pool[ref.type].free, {ref.idx})
    BY <2>5, <2>6, <2>7 DEF Count
  <2>9. Places(sim, ref) = 1
    BY <2>1, <2>4 DEF Settled
  <2> HIDE DEF slots, served, free, ref
  <2>10. Cardinality(slots) + Cardinality(served) + Cardinality(free) = 1
    BY <2>8, <2>9 DEF Places
  <2> QED
    BY <2>10 DEF slots, served, free, ref
<1> QED
  BY <1>1, BalInvHolds, PTL

\* Until a run stops, the counters of a block agree with each other and with the
\* entities it holds, and a resource is in use by as many as have seized it and not
\* released it, also after a SEIZE was rolled back: for every such text.
THEOREM BooksBalance == Spec /\ NoReentry => []CountersBalance
<1>1. BalInv => CountersBalance
  <2> SUFFICES ASSUME BalInv, ~sim.stop
               PROVE  /\ \A b \in Blocks :
                            LET c == sim.count[b]
                            IN  /\ Kind(b) = "QUEUE" =>
                                      /\ c.enterN = c.exitN + c.timeoutN + c.dropN + c.held
                                      /\ c.held = Cardinality(Waiting(b))
                                /\ Kind(b) = "DELAY" =>
                                      c.enterN = c.exitN + c.held /\ c.held = Cardinality(Serving(b))
                                /\ Kind(b) = "CREATE" => c.createdN = c.exitN + c.dropN
                      /\ \A r \in DOMAIN sim.resource :
                            LET u == sim.resource[r]
                            IN  u.busy = u.seizeN - u.releaseN /\ u.busy <= program.capacity[r]
    BY DEF CountersBalance
  <2>1. Good(sim) /\ Settled(sim) /\ sim \in Sims
    BY DEF BalInv, IInv, RunsSettled, Good
  <2>2. ASSUME NEW b \in Blocks
        PROVE  LET c == sim.count[b]
               IN  /\ Kind(b) = "QUEUE" =>
                         /\ c.enterN = c.exitN + c.timeoutN + c.dropN + c.held
                         /\ c.held = Cardinality(Waiting(b))
                   /\ Kind(b) = "DELAY" =>
                         c.enterN = c.exitN + c.held /\ c.held = Cardinality(Serving(b))
                   /\ Kind(b) = "CREATE" => c.createdN = c.exitN + c.dropN
    <3> DEFINE c == sim.count[b]
    <3>1. /\ c.enterN \in Nat /\ c.exitN \in Nat /\ c.timeoutN \in Nat /\ c.dropN \in Nat
          /\ c.held \in Nat /\ c.createdN \in Nat
      <4>1. c \in [CounterNames -> Nat]
        BY <2>1, SimTypes
      <4> QED
        BY <4>1 DEF CounterNames
    <3>2. Debt(sim, b) = 0 /\ Unheld(sim, b) = 0
      BY <2>1 DEF Settled
    <3>3. Cardinality(Waiting(b)) = Count(sim.arr[b], Live) /\ Count(sim.arr[b], Live) \in Nat
      <4>1. sim.arr[b] \in Seq(Slots)
        BY <2>1, SimTypes
      <4>2. \A j \in DOMAIN sim.arr[b] : sim.arr[b][j] \in Slots
        BY <4>1
      <4>3. Waiting(b) = {j \in DOMAIN sim.arr[b] : sim.arr[b][j] \in Live}
        BY <4>2 DEF Waiting, Live
      <4> QED
        BY <4>1, <4>3, PlacesFinite DEF Count
    <3>4. Cardinality(Serving(b)) = Count(sim.events, ServedBy(b)) /\ Count(sim.events, ServedBy(b)) \in Nat
      <4>1. sim.events \in Seq(Events)
        BY <2>1, SimTypes
      <4>2. \A j \in DOMAIN sim.events : sim.events[j] \in Events
        BY <4>1
      <4>3. Serving(b) = {j \in DOMAIN sim.events : sim.events[j] \in ServedBy(b)}
        BY <4>2 DEF Serving, ServedBy
      <4> QED
        BY <4>1, <4>3, PlacesFinite DEF Count
    <3>5. CASE Kind(b) = "QUEUE"
      <4>1. /\ Debt(sim, b) = c.enterN - c.exitN - c.timeoutN - c.dropN - c.held
            /\ Unheld(sim, b) = c.held - Count(sim.arr[b], Live)
        BY <3>5, DebtByKind DEF Unheld
      <4> HIDE DEF c
      <4> QED
        BY <3>1, <3>2, <3>3, <3>5, <4>1 DEF c
    <3>6. CASE Kind(b) = "DELAY"
      <4>1. /\ Debt(sim, b) = c.enterN - c.exitN - c.held
            /\ Unheld(sim, b) = c.held - Count(sim.events, ServedBy(b))
        BY <3>6, DebtByKind DEF Unheld
      <4> HIDE DEF c
      <4> QED
        BY <3>1, <3>2, <3>4, <3>6, <4>1 DEF c
    <3>7. CASE Kind(b) = "CREATE"
      <4>1. Debt(sim, b) = c.createdN - c.exitN - c.dropN
        BY <3>7, DebtByKind
      <4> HIDE DEF c
      <4> QED
        BY <3>1, <3>2, <3>7, <4>1 DEF c
    <3> QED
      BY <3>5, <3>6, <3>7
  <2>3. ASSUME NEW r \in DOMAIN sim.resource
        PROVE  LET u == sim.resource[r]
               IN  u.busy = u.seizeN - u.releaseN /\ u.busy <= program.capacity[r]
    <3>1. r \in DOMAIN program.capacity
      BY <2>1 DEF Sims
    <3>2. sim.resource[r] \in Uses /\ sim.resource[r].busy <= program.capacity[r]
      BY <2>1, <3>1, SimTypes DEF Good, WithinCapacity
    <3>3. UseDebt(sim, r) = 0
      BY <2>1, <3>1 DEF Settled
    <3>4. /\ sim.resource[r].busy \in Nat /\ sim.resource[r].seizeN \in Nat
          /\ sim.resource[r].releaseN \in Nat
      BY <3>2 DEF Uses
    <3> QED
      BY <3>2, <3>3, <3>4 DEF UseDebt
  <2> QED
    BY <2>2, <2>3
<1> QED
  BY <1>1, BalInvHolds, PTL
===============================================================================
