-------------------------- MODULE DispatcherProofs --------------------------
(***************************************************************************)
(* Theorems of Dispatcher for any number of workers, runs and keys: its    *)
(* type invariant, exact slot accounting and no oversubscription, no       *)
(* overcommitted memory; and, when no experiment is started twice, exact   *)
(* memory accounting and stops that are honoured.                          *)
(***************************************************************************)
EXTENDS Dispatcher, FiniteSetTheorems, TLAPS

-----------------------------------------------------------------------------
(* What the registry's methods preserve, and what they do to the slot count *)
(* and to the reserved memory, for every set of keys and runs.              *)

\* The record of no other key is touched.
OnlyTouches(r, s, key) == \A k \in Keys \ {key} : s.experiments[k] = r.experiments[k]

\* A registry is created with all slots and all memory free.
LEMMA NewRegistryType ==
    ASSUME NEW slots \in Nat, NEW memory \in Nat
    PROVE  /\ NewRegistry(slots, memory) \in Registry
           /\ NewRegistry(slots, memory).usedSlots = 0
           /\ NewRegistry(slots, memory).reservedMemoryBytes = 0
           /\ \A k \in Keys : NewRegistry(slots, memory).experiments[k].memoryReserved = 0
           /\ NewRegistry(slots, memory).totalSlots = slots
           /\ NewRegistry(slots, memory).totalMemoryBytes = memory
  BY DEF NewRegistry, Registry, ExperimentRecord, NoRecord

\* An admission keeps the registry well-formed, takes one slot and the memory
\* of its limit, and leaves a record under its key.
LEMMA TryStartFacts ==
    ASSUME NEW r \in Registry, NEW key \in Keys, NEW limit \in Nat
    PROVE  /\ TryStart(r, key, limit) \in Registry
           /\ TryStart(r, key, limit).usedSlots = r.usedSlots + 1
           /\ TryStart(r, key, limit).totalSlots = r.totalSlots
           /\ TryStart(r, key, limit).totalMemoryBytes = r.totalMemoryBytes
           /\ Known(TryStart(r, key, limit), key)
           /\ \A k \in Keys : Known(r, k) => Known(TryStart(r, key, limit), k)
           /\ TryStart(r, key, limit).reservedMemoryBytes = r.reservedMemoryBytes + limit
           /\ TryStart(r, key, limit).experiments[key].memoryReserved = limit
           /\ OnlyTouches(r, TryStart(r, key, limit), key)
<1> DEFINE rec == [NoRecord EXCEPT !.status = "STARTING", !.memoryReserved = limit]
<1>1. rec \in ExperimentRecord /\ rec.status = "STARTING" /\ rec.memoryReserved = limit
  BY DEF ExperimentRecord, NoRecord
<1> HIDE DEF rec
<1>2. TryStart(r, key, limit) =
        [r EXCEPT !.experiments[key] = rec, !.usedSlots = @ + 1, !.reservedMemoryBytes = @ + limit]
  BY DEF TryStart, rec
<1>3. TryStart(r, key, limit).experiments = [r.experiments EXCEPT ![key] = rec]
  BY <1>2 DEF Registry
<1>4. /\ r.experiments \in [Keys -> ExperimentRecord]
      /\ r.usedSlots + 1 \in Nat /\ r.reservedMemoryBytes + limit \in Nat
  BY DEF Registry
<1>5. [r.experiments EXCEPT ![key] = rec] \in [Keys -> ExperimentRecord]
  BY <1>1, <1>4
<1>6. TryStart(r, key, limit) \in Registry
  BY <1>2, <1>4, <1>5 DEF Registry
<1>7. \A k \in Keys : k = key \/ Known(r, k) => Known(TryStart(r, key, limit), k)
  BY <1>1, <1>3, <1>4 DEF Known
<1>8. /\ TryStart(r, key, limit).experiments[key].memoryReserved = limit
      /\ OnlyTouches(r, TryStart(r, key, limit), key)
  BY <1>1, <1>3, <1>4 DEF OnlyTouches
<1> QED
  BY <1>2, <1>6, <1>7, <1>8 DEF Registry

\* Nothing is admitted when every slot is taken.
LEMMA AdmissionNeedsASlot ==
    ASSUME NEW r \in Registry, NEW key \in Keys, NEW limit \in Nat,
           r.totalSlots > 0, Refusal(r, key, limit) = "none"
    PROVE  r.usedSlots + 1 <= r.totalSlots
  BY DEF Refusal, NoFreeSlots, Registry

\* A run with a limit is admitted only when the limit fits in what is not reserved.
LEMMA AdmissionNeedsTheMemory ==
    ASSUME NEW r \in Registry, NEW key \in Keys, NEW limit \in Nat,
           r.totalMemoryBytes > 0, Refusal(r, key, limit) = "none"
    PROVE  limit = 0 \/ r.reservedMemoryBytes + limit <= r.totalMemoryBytes
  BY DEF Refusal, NotEnoughMemory, Registry

\* Two registries that differ in neither totals nor slots, and forget no key.
SameSlots(r, s) ==
    /\ s.usedSlots = r.usedSlots
    /\ s.totalSlots = r.totalSlots
    /\ s.totalMemoryBytes = r.totalMemoryBytes
    /\ \A k \in Keys : Known(r, k) => Known(s, k)

\* ... and reserve the same memory for the same experiments.
SameMemory(r, s) ==
    /\ s.reservedMemoryBytes = r.reservedMemoryBytes
    /\ \A k \in Keys : s.experiments[k].memoryReserved = r.experiments[k].memoryReserved

\* Replacing a record by one that reserves the same and is not absent.
LEMMA RecordReplaced ==
    ASSUME NEW r \in Registry, NEW key \in Keys, NEW rec \in ExperimentRecord,
           rec.memoryReserved = r.experiments[key].memoryReserved, rec.status # "absent"
    PROVE  LET s == [r EXCEPT !.experiments[key] = rec]
           IN  s \in Registry /\ SameSlots(r, s) /\ SameMemory(r, s) /\ OnlyTouches(r, s, key)
<1> DEFINE s == [r EXCEPT !.experiments[key] = rec]
<1>1. r.experiments \in [Keys -> ExperimentRecord]
  BY DEF Registry
<1>2. /\ s.experiments = [r.experiments EXCEPT ![key] = rec]
      /\ s.usedSlots = r.usedSlots /\ s.totalSlots = r.totalSlots
      /\ s.totalMemoryBytes = r.totalMemoryBytes
      /\ s.reservedMemoryBytes = r.reservedMemoryBytes
  BY DEF Registry
<1>3. [r.experiments EXCEPT ![key] = rec] \in [Keys -> ExperimentRecord]
  BY <1>1
<1>4. s \in Registry
  BY <1>3 DEF Registry
<1> HIDE DEF s
<1>5. /\ s.experiments[key] = rec
      /\ \A k \in Keys \ {key} : s.experiments[k] = r.experiments[k]
  BY <1>1, <1>2
<1>6. SameSlots(r, s)
  BY <1>2, <1>5 DEF SameSlots, Known
<1>7. SameMemory(r, s) /\ OnlyTouches(r, s, key)
  BY <1>2, <1>5 DEF SameMemory, OnlyTouches
<1>8. s \in Registry /\ SameSlots(r, s) /\ SameMemory(r, s) /\ OnlyTouches(r, s, key)
  BY <1>4, <1>6, <1>7
<1> QED
  BY <1>8 DEF s

\* A canceled record is a record that reserves what it did.
CanceledRecord(new, old) ==
    /\ new \in ExperimentRecord /\ new.memoryReserved = old.memoryReserved
    /\ new.status # "absent"

\* CancelRecord makes one.
LEMMA CancelRecordFacts ==
    ASSUME NEW rec \in ExperimentRecord
    PROVE  CanceledRecord(CancelRecord(rec), rec)
  BY DEF CancelRecord, CanceledRecord, ExperimentRecord, Terminal

\* SetCancel, SetStatus and Cancel leave slots, memory and other records alone.
LEMMA SetCancelFacts ==
    ASSUME NEW r \in Registry, NEW key \in Keys, NEW run \in Runs
    PROVE  /\ SetCancel(r, key, run) \in Registry
           /\ SameSlots(r, SetCancel(r, key, run)) /\ SameMemory(r, SetCancel(r, key, run))
           /\ OnlyTouches(r, SetCancel(r, key, run), key)
<1> DEFINE rec == [r.experiments[key] EXCEPT !.cancel = run]
<1>1. r.experiments[key] \in ExperimentRecord
  BY DEF Registry
<1>2. /\ rec \in ExperimentRecord /\ rec.memoryReserved = r.experiments[key].memoryReserved
      /\ rec.status = r.experiments[key].status
  BY <1>1 DEF ExperimentRecord
<1>3. CASE Known(r, key)
  <2>1. SetCancel(r, key, run) = [r EXCEPT !.experiments[key] = rec]
    BY <1>3 DEF SetCancel, Registry
  <2>2. rec.status # "absent"
    BY <1>2, <1>3 DEF Known
  <2> HIDE DEF rec
  <2> QED
    BY <1>2, <2>1, <2>2, RecordReplaced
<1>4. CASE ~Known(r, key)
  BY <1>4 DEF SetCancel, SameSlots, SameMemory, OnlyTouches
<1> QED
  BY <1>3, <1>4

\* The same of SetStatus.
LEMMA SetStatusFacts ==
    ASSUME NEW r \in Registry, NEW key \in Keys, NEW status \in {"STARTING", "RUNNING"}
    PROVE  /\ SetStatus(r, key, status) \in Registry
           /\ SameSlots(r, SetStatus(r, key, status)) /\ SameMemory(r, SetStatus(r, key, status))
           /\ OnlyTouches(r, SetStatus(r, key, status), key)
<1> DEFINE rec == [r.experiments[key] EXCEPT !.status = status]
<1>1. r.experiments[key] \in ExperimentRecord
  BY DEF Registry
<1>2. /\ rec \in ExperimentRecord /\ rec.memoryReserved = r.experiments[key].memoryReserved
      /\ rec.status # "absent"
  BY <1>1 DEF ExperimentRecord
<1>3. CASE Known(r, key)
  <2>1. SetStatus(r, key, status) = [r EXCEPT !.experiments[key] = rec]
    BY <1>3 DEF SetStatus, Registry
  <2> HIDE DEF rec
  <2> QED
    BY <1>2, <2>1, RecordReplaced
<1>4. CASE ~Known(r, key)
  BY <1>4 DEF SetStatus, SameSlots, SameMemory, OnlyTouches
<1> QED
  BY <1>3, <1>4

\* The same of Cancel.
LEMMA CancelFacts ==
    ASSUME NEW r \in Registry, NEW key \in Keys
    PROVE  /\ Cancel(r, key) \in Registry
           /\ SameSlots(r, Cancel(r, key)) /\ SameMemory(r, Cancel(r, key))
           /\ OnlyTouches(r, Cancel(r, key), key)
<1> DEFINE rec == CancelRecord(r.experiments[key])
<1>1. r.experiments[key] \in ExperimentRecord
  BY DEF Registry
<1>2. CanceledRecord(rec, r.experiments[key])
  BY <1>1, CancelRecordFacts
<1>3. Cancel(r, key) = [r EXCEPT !.experiments[key] = rec]
  BY DEF Cancel, Registry
<1> HIDE DEF rec
<1> QED
  BY <1>2, <1>3, RecordReplaced DEF CanceledRecord

\* A forced drain leaves the records alone that are terminal already.
LEMMA CancelAllFacts ==
    ASSUME NEW r \in Registry
    PROVE  /\ CancelAll(r) \in Registry
           /\ SameSlots(r, CancelAll(r)) /\ SameMemory(r, CancelAll(r))
           /\ \A k \in Keys : ~CanCancel(r, k) => CancelAll(r).experiments[k] = r.experiments[k]
<1> DEFINE recs == [k \in Keys |-> IF CanCancel(r, k) THEN CancelRecord(r.experiments[k])
                                  ELSE r.experiments[k]]
<1>1. \A k \in Keys : r.experiments[k] \in ExperimentRecord
  BY DEF Registry
<1>2. ASSUME NEW k \in Keys
      PROVE  /\ recs[k] \in ExperimentRecord
             /\ recs[k].memoryReserved = r.experiments[k].memoryReserved
             /\ r.experiments[k].status # "absent" => recs[k].status # "absent"
             /\ ~CanCancel(r, k) => recs[k] = r.experiments[k]
  <2>1. CanceledRecord(CancelRecord(r.experiments[k]), r.experiments[k])
    BY <1>1, CancelRecordFacts
  <2> QED
    BY <1>1, <2>1 DEF CanceledRecord
<1>3. CancelAll(r) = [r EXCEPT !.experiments = recs]
  BY DEF CancelAll, Registry
<1>4. recs \in [Keys -> ExperimentRecord]
  BY <1>2
<1> HIDE DEF recs
<1>5. CancelAll(r) \in Registry
  BY <1>3, <1>4 DEF Registry
<1>6. /\ CancelAll(r).experiments = recs /\ CancelAll(r).usedSlots = r.usedSlots
      /\ CancelAll(r).totalSlots = r.totalSlots
      /\ CancelAll(r).totalMemoryBytes = r.totalMemoryBytes
      /\ CancelAll(r).reservedMemoryBytes = r.reservedMemoryBytes
  BY <1>3 DEF Registry
<1> QED
  BY <1>2, <1>5, <1>6 DEF SameSlots, SameMemory, Known

\* The status a run ends with is terminal.
LEMMA FinalStatusType ==
    ASSUME NEW r \in Registry, NEW key \in Keys, NEW status \in Terminal
    PROVE  FinalStatus(r, key, status) \in Terminal
  BY DEF FinalStatus, Terminal

\* The registry s after the end of the run that key names in r.
RunEnded(r, s, key, final) ==
    /\ s \in Registry
    /\ s.usedSlots = Monus(r.usedSlots, 1)
    /\ s.totalSlots = r.totalSlots
    /\ s.totalMemoryBytes = r.totalMemoryBytes
    /\ \A k \in Keys : Known(r, k) => Known(s, k)
    /\ s.reservedMemoryBytes = Monus(r.reservedMemoryBytes, r.experiments[key].memoryReserved)
    /\ s.experiments[key] = [r.experiments[key] EXCEPT !.status = final, !.memoryReserved = 0]
    /\ OnlyTouches(r, s, key)

\* Finishing a known run gives back one slot, if one is taken, and the memory
\* its record holds; the record keeps the final status.
LEMMA FinishEffect ==
    ASSUME NEW r \in Registry, NEW key \in Keys, NEW status \in Terminal, Known(r, key)
    PROVE  RunEnded(r, Finish(r, key, status), key, FinalStatus(r, key, status))
<1> DEFINE final == FinalStatus(r, key, status)
<1>1. final \in Terminal
  BY FinalStatusType
<1> DEFINE rec == [r.experiments[key] EXCEPT !.status = final, !.memoryReserved = 0]
<1> HIDE DEF final
<1>2. /\ r.experiments \in [Keys -> ExperimentRecord]
      /\ r.usedSlots \in Nat /\ r.reservedMemoryBytes \in Nat
      /\ r.experiments[key].memoryReserved \in Nat
  BY DEF Registry, ExperimentRecord
<1>3. rec \in ExperimentRecord /\ rec.status # "absent"
  BY <1>1, <1>2 DEF ExperimentRecord, Terminal
<1>4. \A a, b \in Nat : Monus(a, b) \in Nat
  BY DEF Monus
<1>5. Finish(r, key, status) =
        [r EXCEPT !.experiments[key] = rec,
                  !.reservedMemoryBytes = Monus(@, r.experiments[key].memoryReserved),
                  !.usedSlots = Monus(@, 1)]
  BY DEF Finish, final
<1> HIDE DEF rec
<1>6. Finish(r, key, status).experiments = [r.experiments EXCEPT ![key] = rec]
  BY <1>5 DEF Registry
<1>7. [r.experiments EXCEPT ![key] = rec] \in [Keys -> ExperimentRecord]
  BY <1>2, <1>3
<1>8. /\ Monus(r.usedSlots, 1) \in Nat
      /\ Monus(r.reservedMemoryBytes, r.experiments[key].memoryReserved) \in Nat
  BY <1>2, <1>4
<1>9. Finish(r, key, status) \in Registry
  BY <1>5, <1>7, <1>8 DEF Registry
<1>10. \A k \in Keys : Known(r, k) => Known(Finish(r, key, status), k)
  BY <1>2, <1>3, <1>6 DEF Known
<1>11. Finish(r, key, status).experiments[key] = rec /\ OnlyTouches(r, Finish(r, key, status), key)
  BY <1>2, <1>6 DEF OnlyTouches
<1>12. Finish(r, key, status).experiments[key] =
          [r.experiments[key] EXCEPT !.status = FinalStatus(r, key, status), !.memoryReserved = 0]
  BY <1>11 DEF rec, final
<1>13. /\ Finish(r, key, status).usedSlots = Monus(r.usedSlots, 1)
       /\ Finish(r, key, status).totalSlots = r.totalSlots
       /\ Finish(r, key, status).totalMemoryBytes = r.totalMemoryBytes
  BY <1>5 DEF Registry
<1>14. Finish(r, key, status).reservedMemoryBytes
         = Monus(r.reservedMemoryBytes, r.experiments[key].memoryReserved)
  BY <1>5 DEF Registry
<1> QED
  BY <1>9, <1>10, <1>11, <1>12, <1>13, <1>14 DEF RunEnded

\* The part of it that concerns the slots.
LEMMA FinishFacts ==
    ASSUME NEW r \in Registry, NEW key \in Keys, NEW status \in Terminal, Known(r, key)
    PROVE  /\ Finish(r, key, status) \in Registry
           /\ Finish(r, key, status).usedSlots = Monus(r.usedSlots, 1)
           /\ Finish(r, key, status).totalSlots = r.totalSlots
           /\ Finish(r, key, status).totalMemoryBytes = r.totalMemoryBytes
           /\ \A k \in Keys : Known(r, k) => Known(Finish(r, key, status), k)
<1> DEFINE final == FinalStatus(r, key, status)
           s == Finish(r, key, status)
<1>1. RunEnded(r, s, key, final)
  BY FinishEffect
<1> HIDE DEF final, s
<1>2. /\ s \in Registry /\ s.usedSlots = Monus(r.usedSlots, 1) /\ s.totalSlots = r.totalSlots
      /\ s.totalMemoryBytes = r.totalMemoryBytes /\ \A k \in Keys : Known(r, k) => Known(s, k)
  BY <1>1 DEF RunEnded
<1> QED
  BY <1>2 DEF s

\* The part of it that concerns the memory.
LEMMA FinishGivesMemoryBack ==
    ASSUME NEW r \in Registry, NEW key \in Keys, NEW status \in Terminal, Known(r, key)
    PROVE  /\ Finish(r, key, status).reservedMemoryBytes =
                 Monus(r.reservedMemoryBytes, r.experiments[key].memoryReserved)
           /\ Finish(r, key, status).experiments[key].memoryReserved = 0
           /\ OnlyTouches(r, Finish(r, key, status), key)
<1> DEFINE final == FinalStatus(r, key, status)
<1>1. RunEnded(r, Finish(r, key, status), key, final)
  BY FinishEffect
<1> HIDE DEF final
<1>2. r.experiments[key] \in ExperimentRecord
  BY DEF Registry
<1>3. [r.experiments[key] EXCEPT !.status = final, !.memoryReserved = 0].memoryReserved = 0
  BY <1>2 DEF ExperimentRecord
<1> QED
  BY <1>1, <1>3 DEF RunEnded

\* The part of it that concerns the record's cancellation.
LEMMA FinishKeepsTheStop ==
    ASSUME NEW r \in Registry, NEW key \in Keys, NEW status \in Terminal, Known(r, key)
    PROVE  /\ Finish(r, key, status).experiments[key].status = FinalStatus(r, key, status)
           /\ Finish(r, key, status).experiments[key].cancelRequested
                 = r.experiments[key].cancelRequested
<1> DEFINE final == FinalStatus(r, key, status)
<1>1. RunEnded(r, Finish(r, key, status), key, final)
  BY FinishEffect
<1> HIDE DEF final
<1>2. r.experiments[key] \in ExperimentRecord
  BY DEF Registry
<1> DEFINE rec == [r.experiments[key] EXCEPT !.status = final, !.memoryReserved = 0]
<1>3. rec.status = final /\ rec.cancelRequested = r.experiments[key].cancelRequested
  BY <1>2 DEF ExperimentRecord
<1>4. Finish(r, key, status).experiments[key] = rec
  BY <1>1 DEF RunEnded
<1>5. /\ Finish(r, key, status).experiments[key].status = final
      /\ Finish(r, key, status).experiments[key].cancelRequested
            = r.experiments[key].cancelRequested
  BY <1>3, <1>4
<1> QED
  BY <1>5 DEF final

-----------------------------------------------------------------------------
(* The invariant of the dispatcher.                                         *)

WithTask == {w \in Workers : worker[w].at \in {"received", "running", "executed", "finished"}}

\* A worker with a task has a run, and after execution a terminal status.
WorkersHaveRuns ==
    \A w \in WithTask :
        /\ worker[w].run \in Runs
        /\ worker[w].at \in {"executed", "finished"} => worker[w].status \in Terminal

\* Finish finds the record that TryStart made (or a later one of its key).
HoldersAreKnown == \A run \in SlotHolders : Known(registry, KeyOf[run])

\* A run leaves its handler when a worker takes it, only one does, and it is
\* reported when that worker lets go of it.
TasksAreAccepted ==
    \A w \in WithTask : handler[worker[w].run] = "accepted" /\ submitted[worker[w].run] = "none"
OneWorkerPerRun == \A v, w \in WithTask : worker[v].run = worker[w].run => v = w
ReportedWereAccepted == \A run \in Runs : submitted[run] # "none" => handler[run] = "accepted"

SlotsBounded == registry.usedSlots <= Slots

TypeInv == TypeOK /\ WorkersHaveRuns /\ HoldersAreKnown

IInv ==
    /\ TypeInv
    /\ TasksAreAccepted /\ OneWorkerPerRun /\ ReportedWereAccepted
    /\ SlotAccounting /\ SlotsBounded

-----------------------------------------------------------------------------
\* There is at least one slot, and there are finitely many runs to hold it.
LEMMA SlotsType == Slots \in Nat /\ Slots > 0
<1>1. IsFiniteSet(Workers) /\ Workers # {}
  BY DispatcherAssumption
<1> QED
  BY <1>1, FS_CardinalityType, FS_EmptySet DEF Slots

\* The runs that hold a slot are finitely many.
LEMMA HoldersAreFinite == TypeInv => SlotHolders \subseteq Runs /\ IsFiniteSet(SlotHolders)
<1> SUFFICES ASSUME TypeInv PROVE SlotHolders \subseteq Runs /\ IsFiniteSet(SlotHolders)
  OBVIOUS
<1>1. SlotHolders \subseteq Runs
  BY DEF TypeInv, WorkersHaveRuns, WithTask, SlotHolders, Answering, Busy
<1>2. IsFiniteSet(Runs)
  BY DispatcherAssumption
<1> QED
  BY <1>1, <1>2, FS_Subset

\* The invariant holds initially: no run, no slot.
LEMMA InitIInv == Init => IInv
<1> SUFFICES ASSUME Init PROVE IInv
  OBVIOUS
<1> USE DEF Init
<1>1. Slots \in Nat /\ Slots > 0 /\ MemoryBytes \in Nat
  BY SlotsType, DispatcherAssumption
<1>2. /\ registry \in Registry /\ registry.usedSlots = 0
      /\ registry.totalSlots = Slots /\ registry.totalMemoryBytes = MemoryBytes
  BY <1>1, NewRegistryType
<1>3. TypeOK
  BY <1>2 DEF TypeOK, HandlerStep, WorkerStep, Phase, IdleWorker
<1>4. WithTask = {} /\ Busy = {}
  BY DEF WithTask, Busy, IdleWorker
<1>5. SlotHolders = {}
  BY <1>4 DEF SlotHolders, Answering
<1>6. Cardinality(SlotHolders) = 0
  BY <1>5, FS_EmptySet
<1> QED
  BY <1>1, <1>2, <1>3, <1>4, <1>5, <1>6
  DEF IInv, TypeInv, WorkersHaveRuns, HoldersAreKnown, TasksAreAccepted,
      OneWorkerPerRun, ReportedWereAccepted, SlotAccounting, SlotsBounded

-----------------------------------------------------------------------------
(* How a step disturbs the holders of slots. *)

\* A registry that stays well-formed and keeps its totals.
GoodRegistry(r) ==
    r \in Registry /\ r.totalSlots = Slots /\ r.totalMemoryBytes = MemoryBytes

SlotInv == HoldersAreKnown /\ SlotAccounting /\ SlotsBounded

\* Nobody takes or leaves a slot.
LEMMA SameHolders ==
    IInv /\ registry' \in Registry /\ SameSlots(registry, registry') /\ SlotHolders' = SlotHolders
        => SlotInv' /\ GoodRegistry(registry')
<1> SUFFICES ASSUME IInv, registry' \in Registry, SameSlots(registry, registry'),
                    SlotHolders' = SlotHolders
             PROVE  SlotInv' /\ GoodRegistry(registry')
  OBVIOUS
<1>1. \A run \in SlotHolders : KeyOf[run] \in Keys
  BY HoldersAreFinite, DispatcherAssumption DEF IInv
<1>2. HoldersAreKnown'
  BY <1>1 DEF IInv, TypeInv, HoldersAreKnown, SameSlots
<1> QED
  BY <1>2 DEF IInv, TypeInv, TypeOK, SlotInv, GoodRegistry, SameSlots, SlotAccounting, SlotsBounded

TakesSlot(run) ==
    /\ run \notin SlotHolders /\ SlotHolders' = SlotHolders \cup {run}
    /\ Refusal(registry, KeyOf[run], Limit(run)) = "none"
    /\ registry' = TryStart(registry, KeyOf[run], Limit(run))

\* One run takes a slot.
LEMMA HolderAdded ==
    ASSUME NEW run \in Runs
    PROVE  IInv /\ TakesSlot(run) => SlotInv' /\ GoodRegistry(registry')
<1> SUFFICES ASSUME IInv, TakesSlot(run) PROVE SlotInv' /\ GoodRegistry(registry')
  OBVIOUS
<1> USE DEF TakesSlot
<1>1. /\ registry \in Registry /\ KeyOf[run] \in Keys /\ Limit(run) \in Nat
      /\ registry.totalSlots = Slots /\ registry.totalMemoryBytes = MemoryBytes
  BY DispatcherAssumption DEF IInv, TypeInv, TypeOK, Limit
<1>2. registry.usedSlots + 1 <= Slots
  BY <1>1, SlotsType, AdmissionNeedsASlot
<1>3. /\ registry' \in Registry /\ registry'.usedSlots = registry.usedSlots + 1
      /\ registry'.totalSlots = Slots /\ registry'.totalMemoryBytes = MemoryBytes
      /\ Known(registry', KeyOf[run])
      /\ \A k \in Keys : Known(registry, k) => Known(registry', k)
  BY <1>1, TryStartFacts
<1>4. \A r \in SlotHolders : KeyOf[r] \in Keys
  BY HoldersAreFinite, DispatcherAssumption DEF IInv
<1>5. HoldersAreKnown'
  BY <1>3, <1>4 DEF IInv, TypeInv, HoldersAreKnown
<1>6. IsFiniteSet(SlotHolders)
  BY HoldersAreFinite DEF IInv
<1>7. Cardinality(SlotHolders') = Cardinality(SlotHolders) + 1
  BY <1>6, FS_AddElement
<1>8. SlotAccounting'
  BY <1>3, <1>7 DEF IInv, SlotAccounting
<1> QED
  BY <1>2, <1>3, <1>5, <1>8 DEF SlotInv, GoodRegistry, SlotsBounded, Slots

GivesSlotBack(run, status) ==
    /\ run \in SlotHolders /\ SlotHolders' = SlotHolders \ {run}
    /\ registry' = Finish(registry, KeyOf[run], status)

\* One run gives its slot back.
LEMMA HolderRemoved ==
    ASSUME NEW run \in Runs, NEW status \in Terminal
    PROVE  IInv /\ GivesSlotBack(run, status) => SlotInv' /\ GoodRegistry(registry')
<1> SUFFICES ASSUME IInv, GivesSlotBack(run, status)
             PROVE  SlotInv' /\ GoodRegistry(registry')
  OBVIOUS
<1> USE DEF GivesSlotBack
<1>1. /\ registry \in Registry /\ KeyOf[run] \in Keys /\ Known(registry, KeyOf[run])
      /\ registry.totalSlots = Slots /\ registry.totalMemoryBytes = MemoryBytes
  BY DispatcherAssumption DEF IInv, TypeInv, TypeOK, HoldersAreKnown
<1>2. /\ registry' \in Registry /\ registry'.usedSlots = Monus(registry.usedSlots, 1)
      /\ registry'.totalSlots = Slots /\ registry'.totalMemoryBytes = MemoryBytes
      /\ \A k \in Keys : Known(registry, k) => Known(registry', k)
  BY <1>1, FinishFacts
<1>3. SlotHolders \subseteq Runs /\ IsFiniteSet(SlotHolders)
  BY HoldersAreFinite DEF IInv
<1>4. HoldersAreKnown'
  BY <1>2, <1>3, DispatcherAssumption DEF IInv, TypeInv, HoldersAreKnown
<1>5. Cardinality(SlotHolders') = Cardinality(SlotHolders) - 1
  BY <1>3, FS_RemoveElement
<1>6. Cardinality(SlotHolders) \in Nat /\ Cardinality(SlotHolders) # 0
  BY <1>3, FS_CardinalityType, FS_EmptySet
<1>7. registry'.usedSlots = registry.usedSlots - 1 /\ registry.usedSlots \in Nat
  BY <1>1, <1>2, <1>6 DEF IInv, SlotAccounting, Monus, Registry
<1>8. SlotAccounting'
  BY <1>5, <1>7 DEF IInv, SlotAccounting
<1> QED
  BY <1>2, <1>4, <1>7, <1>8, SlotsType DEF IInv, SlotInv, GoodRegistry, SlotsBounded, Slots

\* What a step may do to the holders and to the registry's books.
HoldersKept ==
    /\ SlotHolders' = SlotHolders /\ registry' \in Registry
    /\ SameSlots(registry, registry') /\ SameMemory(registry, registry')

HoldersMove ==
    \/ HoldersKept
    \/ \E run \in Runs : TakesSlot(run)
    \/ \E run \in Runs, status \in Terminal : GivesSlotBack(run, status)

\* A run that takes a slot or gives one back does so in the registry.
LEMMA MovesAreAccounted == IInv /\ HoldersMove => SlotInv' /\ GoodRegistry(registry')
<1> SUFFICES ASSUME IInv, HoldersMove PROVE SlotInv' /\ GoodRegistry(registry')
  OBVIOUS
<1>1. CASE HoldersKept
  BY <1>1, SameHolders DEF HoldersKept
<1>2. ASSUME NEW run \in Runs, TakesSlot(run) PROVE SlotInv' /\ GoodRegistry(registry')
  BY <1>2, HolderAdded
<1>3. ASSUME NEW run \in Runs, NEW status \in Terminal, GivesSlotBack(run, status)
      PROVE  SlotInv' /\ GoodRegistry(registry')
  BY <1>3, HolderRemoved
<1> QED
  BY <1>1, <1>2, <1>3 DEF HoldersMove

-----------------------------------------------------------------------------
(* The steps. *)

WorkerInv == WorkersHaveRuns /\ TasksAreAccepted /\ OneWorkerPerRun /\ ReportedWereAccepted

WorkerRecord == [at : WorkerStep, run : Runs \cup {NoRun}, status : Terminal \cup {"none"}]

\* Handlers, workers and reports stay where they are.
Still == UNCHANGED <<handler, worker, submitted>>

\* A step in which no run changes hands.
LEMMA StillKeeps ==
    IInv /\ Still => WorkerInv' /\ SlotHolders' = SlotHolders
  BY DEF IInv, TypeInv, WorkerInv, Still, WorkersHaveRuns, TasksAreAccepted, OneWorkerPerRun,
         ReportedWereAccepted, WithTask, Busy, SlotHolders, Answering

\* The registry is not touched.
LEMMA RegistryKept ==
    IInv /\ UNCHANGED registry
        => registry' \in Registry /\ SameSlots(registry, registry') /\ SameMemory(registry, registry')
  BY DEF IInv, TypeInv, TypeOK, SameSlots, SameMemory

\* A handler that has no task yet moves on; no task changes.
LEMMA HandlerStepKeeps ==
    ASSUME NEW run \in Runs, NEW step \in HandlerStep
    PROVE  IInv /\ handler[run] # "accepted" /\ handler' = [handler EXCEPT ![run] = step]
                /\ UNCHANGED <<worker, submitted>>
              => WorkerInv' /\ handler' \in [Runs -> HandlerStep]
  BY DEF IInv, TypeInv, TypeOK, WorkerInv, WorkersHaveRuns, TasksAreAccepted, OneWorkerPerRun,
         ReportedWereAccepted, WithTask

\* Each action of a handler.
LEMMA HandlerPreserves ==
    ASSUME NEW run \in Runs PROVE IInv /\ Handler(run) => IInv' /\ HoldersMove
<1> SUFFICES ASSUME IInv, Handler(run) PROVE IInv' /\ HoldersMove
  OBVIOUS
<1> USE DEF vars
<1> KeyOf[run] \in Keys /\ Limit(run) \in Nat
  BY DispatcherAssumption DEF Limit
<1> TypeOK /\ registry \in Registry
  BY DEF IInv, TypeInv, TypeOK
<1>1. CASE StartRefused(run)
  <2> USE <1>1 DEF StartRefused
  <2>1. SlotHolders' = SlotHolders
    BY DEF TypeOK, SlotHolders, Answering, Busy
  <2>2. WorkerInv' /\ handler' \in [Runs -> HandlerStep]
    BY HandlerStepKeeps DEF HandlerStep
  <2>3. HoldersMove
    BY <2>1, RegistryKept DEF HoldersMove, HoldersKept
  <2>4. SlotInv' /\ GoodRegistry(registry')
    BY <2>3, MovesAreAccounted
  <2>5. TypeOK'
    BY <2>2, <2>4 DEF TypeOK, GoodRegistry
  <2> QED
    BY <2>2, <2>3, <2>4, <2>5 DEF IInv, TypeInv, WorkerInv, SlotInv
<1>2. CASE StartAdmitted(run)
  <2> USE <1>2 DEF StartAdmitted
  <2>1. run \notin SlotHolders
    BY DEF IInv, TasksAreAccepted, SlotHolders, Answering, Busy, WithTask
  <2>2. SlotHolders' = SlotHolders \cup {run}
    BY DEF TypeOK, SlotHolders, Answering, Busy
  <2>3. WorkerInv' /\ handler' \in [Runs -> HandlerStep]
    BY HandlerStepKeeps DEF HandlerStep
  <2>4. HoldersMove
    BY <2>1, <2>2 DEF HoldersMove, TakesSlot
  <2>5. SlotInv' /\ GoodRegistry(registry')
    BY <2>4, MovesAreAccounted
  <2>6. TypeOK'
    BY <2>3, <2>5 DEF TypeOK, GoodRegistry
  <2> QED
    BY <2>3, <2>4, <2>5, <2>6 DEF IInv, TypeInv, WorkerInv, SlotInv
<1>3. CASE InstallCancel(run)
  <2> USE <1>3 DEF InstallCancel
  <2>1. SlotHolders' = SlotHolders
    BY DEF TypeOK, SlotHolders, Answering, Busy
  <2>2. WorkerInv' /\ handler' \in [Runs -> HandlerStep]
    BY HandlerStepKeeps DEF HandlerStep
  <2>3. HoldersMove
    BY <2>1, SetCancelFacts DEF HoldersMove, HoldersKept
  <2>4. SlotInv' /\ GoodRegistry(registry')
    BY <2>3, MovesAreAccounted
  <2>5. TypeOK'
    BY <2>2, <2>4 DEF TypeOK, GoodRegistry
  <2> QED
    BY <2>2, <2>3, <2>4, <2>5 DEF IInv, TypeInv, WorkerInv, SlotInv
<1>4. CASE RequestCanceled(run)
  <2> USE <1>4 DEF RequestCanceled
  <2>1. run \in SlotHolders /\ run \notin {worker[w].run : w \in Busy}
    BY DEF IInv, TasksAreAccepted, SlotHolders, Answering, Busy, WithTask
  <2>2. SlotHolders' = SlotHolders \ {run}
    BY <2>1 DEF TypeOK, SlotHolders, Answering, Busy
  <2>3. WorkerInv' /\ handler' \in [Runs -> HandlerStep]
    BY HandlerStepKeeps DEF HandlerStep
  <2>4. HoldersMove
    BY <2>1, <2>2 DEF HoldersMove, GivesSlotBack, Terminal
  <2>5. SlotInv' /\ GoodRegistry(registry')
    BY <2>4, MovesAreAccounted
  <2>6. TypeOK'
    BY <2>3, <2>5 DEF TypeOK, GoodRegistry
  <2> QED
    BY <2>3, <2>4, <2>5, <2>6 DEF IInv, TypeInv, WorkerInv, SlotInv
<1>5. CASE RunTimeout(run)
  <2> USE <1>5 DEF RunTimeout
  <2>1. WorkerInv' /\ SlotHolders' = SlotHolders
    BY StillKeeps DEF Still
  <2>2. HoldersMove
    BY <2>1, RegistryKept DEF HoldersMove, HoldersKept
  <2>3. SlotInv' /\ GoodRegistry(registry')
    BY <2>2, MovesAreAccounted
  <2>4. TypeOK'
    BY <2>3 DEF TypeOK, GoodRegistry
  <2> QED
    BY <2>1, <2>2, <2>3, <2>4 DEF IInv, TypeInv, WorkerInv, SlotInv
<1>6. ASSUME NEW w \in Workers, HandOff(run, w) PROVE IInv' /\ HoldersMove
  <2> USE <1>6 DEF HandOff
  <2>1. /\ worker[w].at = "idle" /\ handler[run] = "offering" /\ submitted[run] = "none"
        /\ w \notin WithTask /\ w \notin Busy /\ run \in Answering
        /\ worker' = [worker EXCEPT ![w] = [at |-> "received", run |-> run, status |-> "none"]]
        /\ worker \in [Workers -> WorkerRecord]
    BY DEF IInv, ReportedWereAccepted, Busy, WithTask, Answering, TypeOK, WorkerRecord
  <2>2. /\ worker'[w].at = "received" /\ worker'[w].run = run
        /\ \A v \in Workers : v # w => worker'[v] = worker[v]
    BY <2>1
  <2>3. Busy' = Busy \cup {w} /\ WithTask' = WithTask \cup {w}
    BY <2>2 DEF Busy, WithTask
  <2>4. Answering' = Answering \ {run}
    BY DEF Answering, TypeOK
  <2>5. {worker'[v].run : v \in Busy'} = {worker[v].run : v \in Busy} \cup {run}
    BY <2>1, <2>2, <2>3 DEF Busy
  <2>6. SlotHolders' = SlotHolders
    BY <2>1, <2>4, <2>5 DEF SlotHolders
  <2>7. \A v \in WithTask : v \in Workers /\ v # w /\ worker[v].run # run
    BY <2>1 DEF IInv, TasksAreAccepted, WithTask
  <2>8. WorkersHaveRuns'
    BY <2>1, <2>2, <2>3 DEF IInv, TypeInv, WorkersHaveRuns, WithTask
  <2>9. TasksAreAccepted' /\ ReportedWereAccepted'
    BY <2>1, <2>2, <2>3, <2>7 DEF IInv, TasksAreAccepted, ReportedWereAccepted, TypeOK
  <2>10. OneWorkerPerRun'
    BY <2>2, <2>3, <2>7 DEF IInv, OneWorkerPerRun
  <2>11. HoldersMove
    BY <2>6, RegistryKept DEF HoldersMove, HoldersKept
  <2>12. SlotInv' /\ GoodRegistry(registry')
    BY <2>11, MovesAreAccounted
  <2>13. TypeOK'
    BY <2>1, <2>12 DEF TypeOK, GoodRegistry, HandlerStep, WorkerStep
  <2> QED
    BY <2>8, <2>9, <2>10, <2>11, <2>12, <2>13 DEF IInv, TypeInv, SlotInv
<1> QED
  BY <1>1, <1>2, <1>3, <1>4, <1>5, <1>6 DEF Handler

\* A worker whose step changes what it is doing with its run.
LEMMA WorkerPreserves ==
    ASSUME NEW w \in Workers PROVE IInv /\ Worker(w) => IInv' /\ HoldersMove
<1> SUFFICES ASSUME IInv, Worker(w) PROVE IInv' /\ HoldersMove
  OBVIOUS
<1> DEFINE run == worker[w].run
<1>a. /\ TypeOK /\ registry \in Registry
      /\ worker \in [Workers -> WorkerRecord]
  BY DEF IInv, TypeInv, TypeOK, WorkerRecord
<1>b. \A v \in Workers \ {w} : worker'[v] = worker[v]
  BY <1>a DEF Worker, SetRunning, Execute, FinishTask, SubmitResult, WorkerExit
<1>1. CASE SetRunning(w)
  <2> USE <1>1 DEF SetRunning
  <2>1. w \in WithTask /\ w \in Busy /\ run \in Runs /\ KeyOf[run] \in Keys
    BY DispatcherAssumption DEF IInv, TypeInv, WorkersHaveRuns, WithTask, Busy
  <2>2. worker'[w] = [worker[w] EXCEPT !.at = "running"]
    BY <1>a
  <2>3. worker'[w].at = "running" /\ worker'[w].run = run
    BY <1>a, <2>2 DEF WorkerRecord
  <2>4. Busy' = Busy /\ WithTask' = WithTask /\ \A v \in Workers : worker'[v].run = worker[v].run
    BY <1>b, <2>1, <2>3 DEF Busy, WithTask
  <2>5. SlotHolders' = SlotHolders
    BY <2>4 DEF SlotHolders, Answering, Busy
  <2>6. WorkerInv'
    BY <1>b, <2>1, <2>3, <2>4
    DEF IInv, TypeInv, WorkerInv, WorkersHaveRuns, TasksAreAccepted, OneWorkerPerRun,
        ReportedWereAccepted, WithTask
  <2>7. HoldersMove
    BY <1>a, <2>1, <2>5, SetStatusFacts DEF HoldersMove, HoldersKept
  <2>8. SlotInv' /\ GoodRegistry(registry')
    BY <2>7, MovesAreAccounted
  <2>9. TypeOK'
    BY <1>a, <2>8 DEF TypeOK, GoodRegistry, WorkerRecord, WorkerStep
  <2> QED
    BY <2>6, <2>7, <2>8, <2>9 DEF IInv, TypeInv, WorkerInv, SlotInv
<1>2. CASE Execute(w)
  <2>1. /\ worker[w].at = "running" /\ w \in WithTask /\ w \in Busy /\ run \in Runs
        /\ UNCHANGED <<registry, handler, context, submitted, phase>>
    BY <1>2 DEF Execute, IInv, TypeInv, WorkersHaveRuns, WithTask, Busy
  <2>2. PICK status \in RunOutcomes(run) :
          worker' = [worker EXCEPT ![w].at = "executed", ![w].status = status]
    BY <1>2 DEF Execute
  <2>3. status \in Terminal
    BY <1>a, <2>1 DEF TypeOK, RunOutcomes, Terminal
  <2>4. /\ worker' \in [Workers -> WorkerRecord]
        /\ worker'[w].at = "executed" /\ worker'[w].run = run /\ worker'[w].status = status
    <3>1. worker'[w] = [worker[w] EXCEPT !.at = "executed", !.status = status]
      BY <1>a, <2>2
    <3>2. /\ worker'[w] \in WorkerRecord
          /\ worker'[w].at = "executed" /\ worker'[w].run = run /\ worker'[w].status = status
      <4>1. worker[w] \in WorkerRecord /\ worker[w].run = run
        BY <1>a
      <4>2. ASSUME NEW old \in WorkerRecord
            PROVE  LET new == [old EXCEPT !.at = "executed", !.status = status]
                   IN  /\ new \in WorkerRecord
                       /\ new.at = "executed" /\ new.run = old.run /\ new.status = status
        BY <2>3 DEF WorkerRecord, WorkerStep
      <4> QED
        BY <3>1, <4>1, <4>2
    <3>3. worker' = [worker EXCEPT ![w] = worker'[w]]
      BY <1>a, <2>2
    <3> QED
      BY <1>a, <3>2, <3>3
  <2>5. Busy' = Busy /\ WithTask' = WithTask /\ \A v \in Workers : worker'[v].run = worker[v].run
    BY <1>b, <2>1, <2>4 DEF Busy, WithTask
  <2>6. SlotHolders' = SlotHolders
    BY <2>1, <2>5 DEF SlotHolders, Answering, Busy
  <2>7. WorkerInv'
    BY <1>b, <2>1, <2>3, <2>4, <2>5
    DEF IInv, TypeInv, WorkerInv, WorkersHaveRuns, TasksAreAccepted, OneWorkerPerRun,
        ReportedWereAccepted, WithTask
  <2>8. HoldersMove
    BY <2>1, <2>6, RegistryKept DEF HoldersMove, HoldersKept
  <2>9. SlotInv' /\ GoodRegistry(registry')
    BY <2>8, MovesAreAccounted
  <2>10. TypeOK'
    BY <1>a, <2>1, <2>4, <2>9 DEF TypeOK, GoodRegistry, WorkerRecord
  <2> QED
    BY <2>7, <2>8, <2>9, <2>10 DEF IInv, TypeInv, WorkerInv, SlotInv
<1>3. CASE FinishTask(w)
  <2> DEFINE final == FinalStatus(registry, KeyOf[run], worker[w].status)
  <2>1. /\ worker[w].at = "executed" /\ w \in WithTask /\ w \in Busy
        /\ run \in Runs /\ KeyOf[run] \in Keys /\ worker[w].status \in Terminal
        /\ registry' = Finish(registry, KeyOf[run], worker[w].status)
        /\ worker' = [worker EXCEPT ![w].at = "finished", ![w].status = final]
        /\ UNCHANGED <<handler, context, submitted, phase>>
    BY <1>3, DispatcherAssumption DEF FinishTask, IInv, TypeInv, WorkersHaveRuns, WithTask, Busy
  <2>2. final \in Terminal
    BY <1>a, <2>1, FinalStatusType
  <2> HIDE DEF final
  <2>3. /\ worker' \in [Workers -> WorkerRecord]
        /\ worker'[w].at = "finished" /\ worker'[w].run = run /\ worker'[w].status = final
    <3>1. worker'[w] = [worker[w] EXCEPT !.at = "finished", !.status = final]
      BY <1>a, <2>1
    <3>2. /\ worker'[w] \in WorkerRecord
          /\ worker'[w].at = "finished" /\ worker'[w].run = run /\ worker'[w].status = final
      BY <1>a, <2>1, <2>2, <3>1 DEF WorkerRecord, WorkerStep
    <3>3. worker' = [worker EXCEPT ![w] = worker'[w]]
      BY <1>a, <2>1
    <3> QED
      BY <1>a, <3>2, <3>3
  <2>4. Busy' = Busy \ {w} /\ WithTask' = WithTask
    BY <1>b, <2>1, <2>3 DEF Busy, WithTask
  <2>5. \A v \in Busy' : v \in Busy /\ v # w /\ worker'[v] = worker[v] /\ worker[v].run # run
    BY <1>b, <2>1, <2>4 DEF IInv, OneWorkerPerRun, Busy, WithTask
  <2>6. run \in SlotHolders /\ run \notin Answering
    BY <2>1 DEF IInv, TasksAreAccepted, SlotHolders, Answering
  <2>7. {worker'[v].run : v \in Busy'} = {worker[v].run : v \in Busy} \ {run}
    BY <2>4, <2>5
  <2>8. SlotHolders' = SlotHolders \ {run}
    BY <2>1, <2>6, <2>7 DEF SlotHolders, Answering
  <2>9. WorkersHaveRuns'
    BY <1>b, <2>1, <2>2, <2>3, <2>4 DEF IInv, TypeInv, WorkersHaveRuns, WithTask
  <2>10. TasksAreAccepted' /\ OneWorkerPerRun' /\ ReportedWereAccepted'
    <3>1. \A v \in WithTask : worker'[v].run = worker[v].run
      BY <1>b, <2>3 DEF WithTask
    <3>2. TasksAreAccepted' /\ ReportedWereAccepted'
      BY <2>1, <2>4, <3>1 DEF IInv, TasksAreAccepted, ReportedWereAccepted
    <3>3. OneWorkerPerRun'
      BY <2>4, <3>1 DEF IInv, OneWorkerPerRun
    <3> QED
      BY <3>2, <3>3
  <2>11. HoldersMove
    BY <2>1, <2>6, <2>8 DEF HoldersMove, GivesSlotBack
  <2>12. SlotInv' /\ GoodRegistry(registry')
    BY <2>11, MovesAreAccounted
  <2>13. TypeOK'
    BY <1>a, <2>1, <2>3, <2>12 DEF TypeOK, GoodRegistry, WorkerRecord
  <2> QED
    BY <2>9, <2>10, <2>11, <2>12, <2>13 DEF IInv, TypeInv, SlotInv
<1>4. CASE SubmitResult(w) \/ WorkerExit(w)
  <2> USE <1>4 DEF SubmitResult, WorkerExit
  <2>0. worker'[w].at \in {"idle", "stopped"} /\ worker[w].at \in {"finished", "idle"}
    BY <1>a DEF IdleWorker, WorkerRecord
  <2>1. w \notin Busy /\ w \notin Busy' /\ w \notin WithTask'
    BY <2>0 DEF Busy, WithTask
  <2>2. Busy' = Busy /\ WithTask' = WithTask \ {w}
    BY <1>b, <2>1 DEF Busy, WithTask
  <2>3. \A v \in Busy \cup WithTask' : worker'[v] = worker[v]
    BY <1>b, <2>1, <2>2 DEF Busy, WithTask
  <2>4. SlotHolders' = SlotHolders
    BY <2>2, <2>3 DEF SlotHolders, Answering
  <2>5. /\ \A r \in Runs : submitted'[r] # submitted[r] => w \in WithTask /\ r = run
        /\ submitted' \in [Runs -> Terminal \cup {"none"}]
    BY <1>a DEF TypeOK, WithTask
  <2>6. WorkersHaveRuns'
    BY <2>2, <2>3 DEF IInv, TypeInv, WorkersHaveRuns
  <2>7. TasksAreAccepted' /\ OneWorkerPerRun' /\ ReportedWereAccepted'
    <3>1. \A v \in WithTask' : v \in WithTask /\ v # w /\ worker[v].run \in Runs
      BY <2>2 DEF IInv, TypeInv, WorkersHaveRuns
    <3>2. \A v \in WithTask' : submitted'[worker[v].run] = submitted[worker[v].run]
      BY <2>5, <3>1 DEF IInv, OneWorkerPerRun
    <3> QED
      BY <2>3, <2>5, <3>1, <3>2 DEF IInv, TasksAreAccepted, OneWorkerPerRun, ReportedWereAccepted
  <2>8. HoldersMove
    BY <2>4, RegistryKept DEF HoldersMove, HoldersKept
  <2>9. SlotInv' /\ GoodRegistry(registry')
    BY <2>8, MovesAreAccounted
  <2>10. worker' \in [Workers -> WorkerRecord]
    BY <1>a DEF IdleWorker, WorkerStep, WorkerRecord
  <2>11. TypeOK'
    BY <1>a, <2>5, <2>9, <2>10 DEF TypeOK, GoodRegistry, WorkerRecord
  <2> QED
    BY <2>6, <2>7, <2>8, <2>9, <2>11 DEF IInv, TypeInv, SlotInv
<1> QED
  BY <1>1, <1>2, <1>3, <1>4 DEF Worker

\* StopExperiment, and the steps of the shutdown.
Others ==
    \/ \E key \in Keys : StopExperiment(key)
    \/ Shutdown \/ ServeReturns \/ DrainTimeout \/ WorkersDone

\* The workers, the reporter and the shutdown.
LEMMA OtherPreserves == IInv /\ Others => IInv' /\ HoldersMove
<1> SUFFICES ASSUME IInv, Others PROVE IInv' /\ HoldersMove
  OBVIOUS
<1> USE DEF Others
<1>1. TypeOK /\ registry \in Registry
  BY DEF IInv, TypeInv, TypeOK
<1>2. WorkerInv' /\ SlotHolders' = SlotHolders
  BY StillKeeps DEF Still, StopExperiment, Shutdown, ServeReturns, DrainTimeout, WorkersDone
<1>3. registry' \in Registry /\ SameSlots(registry, registry') /\ SameMemory(registry, registry')
  BY <1>1, CancelFacts, CancelAllFacts, RegistryKept
  DEF StopExperiment, Shutdown, ServeReturns, DrainTimeout, WorkersDone
<1>4. HoldersMove
  BY <1>2, <1>3 DEF HoldersMove, HoldersKept
<1>5. SlotInv' /\ GoodRegistry(registry')
  BY <1>4, MovesAreAccounted
<1>6. context' \in [Runs -> {"live", "canceled", "expired"}]
  BY <1>1 DEF TypeOK, CutShort, StopExperiment, Shutdown, ServeReturns, DrainTimeout, WorkersDone
<1>7. UNCHANGED <<handler, worker, submitted>> /\ phase' \in Phase
  BY <1>1 DEF TypeOK, Phase, StopExperiment, Shutdown, ServeReturns, DrainTimeout, WorkersDone
<1>8. TypeOK'
  BY <1>1, <1>5, <1>6, <1>7 DEF TypeOK, GoodRegistry
<1> QED
  BY <1>2, <1>4, <1>5, <1>8 DEF IInv, TypeInv, WorkerInv, SlotInv

\* Every step.
LEMMA NextPreserves == IInv /\ [Next]_vars => IInv' /\ HoldersMove
<1> SUFFICES ASSUME IInv, [Next]_vars PROVE IInv' /\ HoldersMove
  OBVIOUS
<1>1. CASE UNCHANGED vars
  <2> USE <1>1 DEF vars
  <2>1. WorkerInv' /\ SlotHolders' = SlotHolders
    BY StillKeeps DEF Still
  <2>2. HoldersMove
    BY <2>1, RegistryKept DEF HoldersMove, HoldersKept
  <2>3. SlotInv' /\ GoodRegistry(registry')
    BY <2>2, MovesAreAccounted
  <2>4. TypeOK'
    BY <2>3 DEF IInv, TypeInv, TypeOK, GoodRegistry
  <2> QED
    BY <2>1, <2>2, <2>3, <2>4 DEF IInv, TypeInv, WorkerInv, SlotInv
<1> QED
  BY <1>1, HandlerPreserves, WorkerPreserves, OtherPreserves DEF Next, Others

-----------------------------------------------------------------------------
\* The inductive invariant behind the theorems below.
THEOREM Invariance == Spec => []IInv
  BY InitIInv, NextPreserves, PTL DEF Spec

\* Every variable of the dispatcher keeps its type: in particular usedSlots and
\* reservedMemoryBytes, unsigned in the code, never wrap below zero.
THEOREM TypeCorrect == Spec => []TypeOK
<1>1. IInv => TypeOK
  BY DEF IInv, TypeInv
<1> QED
  BY <1>1, Invariance, PTL

\* usedSlots is exactly the number of admitted, unfinished runs, for any number
\* of workers and runs and any assignment of keys to runs.
THEOREM SlotsAreAccounted == Spec => []SlotAccounting
<1>1. IInv => SlotAccounting
  BY DEF IInv
<1> QED
  BY <1>1, Invariance, PTL

\* There are never more admitted, unfinished runs than workers.
THEOREM NeverTooManyRuns == Spec => []NeverOversubscribed
<1>1. IInv => NeverOversubscribed
  BY DEF IInv, SlotAccounting, SlotsBounded, NeverOversubscribed
<1> QED
  BY <1>1, Invariance, PTL

-----------------------------------------------------------------------------
(* The sum of the limits of a set of runs. *)

\* Induction over the sets of runs: a collection that holds a set whenever it
\* holds all the smaller ones holds every set of runs.
LEMMA SetsOfRunsInduct ==
    ASSUME NEW G,
           \A s \in SUBSET Runs : (\A t \in SUBSET s : t # s => t \in G) => s \in G
    PROVE  SUBSET Runs \subseteq G
<1> SUFFICES ASSUME NEW u \in SUBSET Runs, u \notin G PROVE FALSE
  OBVIOUS
<1> DEFINE bad == {s \in SUBSET Runs : s \notin G}
<1>1. IsWellFoundedOn(StrictSubsetOrdering(Runs), SUBSET Runs)
  <2>1. FiniteSubsetsOf(Runs) = SUBSET Runs
    BY DispatcherAssumption, FS_FiniteSubsetsOfFinite
  <2>2. IsWellFoundedOn(StrictSubsetOrdering(Runs), FiniteSubsetsOf(Runs))
    BY FS_StrictSubsetOrderingWellFounded
  <2> QED
    BY <2>1, <2>2
<1>2. bad \subseteq SUBSET Runs /\ bad # {}
  OBVIOUS
<1> HIDE DEF bad
<1>3. PICK s \in bad : \A t \in bad : ~ (<<t, s>> \in StrictSubsetOrdering(Runs))
  BY <1>1, <1>2, WFMin
<1>4. \A t \in SUBSET s : t # s => t \in G
  BY <1>2, <1>3 DEF bad, StrictSubsetOrdering
<1> QED
  BY <1>2, <1>3, <1>4 DEF bad

Chosen(s) == CHOOSE run \in s : TRUE

\* The function that MapThenSumSet builds on the subsets of s.
SumsUp(f, s) ==
    f = [t \in SUBSET s |-> IF t = {} THEN 0 ELSE Limit(Chosen(t)) + f[t \ {Chosen(t)}]]

\* The sum of the limits of a set is the value there of the function that adds
\* them up one by one.
LEMMA SumUnfolds ==
    ASSUME NEW s PROVE Reserved(s) = (CHOOSE f : SumsUp(f, s))[s]
  BY DEF Reserved, MapThenSumSet, MapThenFoldSet, SumsUp, Chosen

\* A memory limit is a number.
LEMMA LimitType == \A run \in Runs : Limit(run) \in Nat
  BY DispatcherAssumption DEF Limit

\* A choice from a set that is not empty.
LEMMA ChosenIn == ASSUME NEW s, s # {} PROVE Chosen(s) \in s
  BY DEF Chosen

SumsAreGood(s) ==
    /\ \A f : SumsUp(f, s) => f[s] = Reserved(s)
    /\ Reserved(s) \in Nat
    /\ s # {} => Reserved(s) = Limit(Chosen(s)) + Reserved(s \ {Chosen(s)})
    /\ s = {} => Reserved(s) = 0

\* What is summed over a set is one member's limit and the sum over the others.
LEMMA SumsAreRight == \A s \in SUBSET Runs : SumsAreGood(s)
<1> DEFINE G == {s \in SUBSET Runs : SumsAreGood(s)}
<1>1. ASSUME NEW s \in SUBSET Runs, \A t \in SUBSET s : t # s => t \in G
      PROVE  s \in G
  <2> DEFINE rest(t) == t \ {Chosen(t)}
             f == [t \in SUBSET s |-> IF t = {} THEN 0 ELSE Limit(Chosen(t)) + Reserved(rest(t))]
  <2>1. \A t \in SUBSET s : t # s => SumsAreGood(t)
    BY <1>1
  <2>2. \A t \in SUBSET s : t # {} => rest(t) \in SUBSET s /\ rest(t) # s /\ Chosen(t) \in t
    BY ChosenIn
  <2>3. \A t \in SUBSET s : t # {} => f[rest(t)] = Reserved(rest(t))
    <3> SUFFICES ASSUME NEW t \in SUBSET s, t # {} PROVE f[rest(t)] = Reserved(rest(t))
      OBVIOUS
    <3>1. rest(t) \in SUBSET s /\ SumsAreGood(rest(t))
      BY <2>1, <2>2
    <3> DEFINE u == rest(t)
    <3> HIDE DEF u
    <3>2. u \in SUBSET s /\ SumsAreGood(u)
      BY <3>1 DEF u
    <3>3. f[u] = Reserved(u)
      BY <3>2 DEF SumsAreGood
    <3> QED
      BY <3>3 DEF u
  <2>4. SumsUp(f, s)
    <3>1. f = [t \in SUBSET s |-> IF t = {} THEN 0 ELSE Limit(Chosen(t)) + f[rest(t)]]
      BY <2>3
    <3> QED
      BY <3>1 DEF SumsUp
  <2>5. ASSUME NEW g, SumsUp(g, s)
        PROVE  g[s] = IF s = {} THEN 0 ELSE Limit(Chosen(s)) + Reserved(rest(s))
    <3>1. g = [t \in SUBSET s |-> IF t = {} THEN 0 ELSE Limit(Chosen(t)) + g[t \ {Chosen(t)}]]
      BY <2>5 DEF SumsUp
    <3>2. g[s] = IF s = {} THEN 0 ELSE Limit(Chosen(s)) + g[s \ {Chosen(s)}]
      BY <3>1
    <3>3. CASE s # {}
      <4> DEFINE u == rest(s)
                 h == [t \in SUBSET u |-> g[t]]
      <4>1. u \in SUBSET s /\ SumsAreGood(u)
        BY <2>1, <2>2, <3>3
      <4> HIDE DEF u
      <4>2. \A t \in SUBSET u : t \in SUBSET s /\ rest(t) \in SUBSET u
        BY <4>1
      <4>3. \A t \in SUBSET u : h[t] = IF t = {} THEN 0 ELSE Limit(Chosen(t)) + h[rest(t)]
        <5> SUFFICES ASSUME NEW t \in SUBSET u
                     PROVE  h[t] = IF t = {} THEN 0 ELSE Limit(Chosen(t)) + h[rest(t)]
          OBVIOUS
        <5>1. h[t] = g[t]
          OBVIOUS
        <5>2. g[t] = IF t = {} THEN 0 ELSE Limit(Chosen(t)) + g[rest(t)]
          BY <3>1, <4>2
        <5>3. h[rest(t)] = g[rest(t)]
          BY <4>2
        <5> QED
          BY <5>1, <5>2, <5>3
      <4>4. h = [t \in SUBSET u |-> IF t = {} THEN 0 ELSE Limit(Chosen(t)) + h[rest(t)]]
        BY <4>3
      <4>5. SumsUp(h, u)
        BY <4>4 DEF SumsUp
      <4>6. h[u] = Reserved(u) /\ h[u] = g[u]
        BY <4>1, <4>5 DEF SumsAreGood
      <4> QED
        BY <3>2, <3>3, <4>6 DEF u
    <3> QED
      BY <3>2, <3>3
  <2>6. Reserved(s) = IF s = {} THEN 0 ELSE Limit(Chosen(s)) + Reserved(rest(s))
    <3>1. SumsUp(CHOOSE g : SumsUp(g, s), s)
      BY <2>4
    <3> QED
      BY <2>5, <3>1, SumUnfolds
  <2>7. Reserved(s) \in Nat
    <3>1. CASE s # {}
      <4>1. Reserved(rest(s)) \in Nat /\ Limit(Chosen(s)) \in Nat
        BY <2>1, <2>2, <3>1, LimitType DEF SumsAreGood
      <4> QED
        BY <2>6, <3>1, <4>1
    <3> QED
      BY <2>6, <3>1
  <2>8. SumsAreGood(s)
    BY <2>5, <2>6, <2>7 DEF SumsAreGood
  <2> QED
    BY <2>8
<1> HIDE DEF G
<1>2. SUBSET Runs \subseteq G
  BY <1>1, SetsOfRunsInduct
<1> QED
  BY <1>2 DEF G

\* What is reserved is a number.
LEMMA ReservedType ==
    /\ \A s \in SUBSET Runs : Reserved(s) \in Nat
    /\ Reserved({}) = 0
  BY SumsAreRight DEF SumsAreGood

\* A run adds its limit to the sum.
LEMMA ReservedAdds ==
    \A s \in SUBSET Runs : \A run \in Runs \ s : Reserved(s \cup {run}) = Reserved(s) + Limit(run)
<1> DEFINE Adds(s) == \A run \in Runs \ s : Reserved(s \cup {run}) = Reserved(s) + Limit(run)
           G == {s \in SUBSET Runs : Adds(s)}
<1>1. ASSUME NEW s \in SUBSET Runs, \A t \in SUBSET s : t # s => t \in G
      PROVE  s \in G
  <2> SUFFICES ASSUME NEW run \in Runs \ s
               PROVE  Reserved(s \cup {run}) = Reserved(s) + Limit(run)
    OBVIOUS
  <2> DEFINE p == Chosen(s \cup {run})
  <2>1. p \in s \cup {run} /\ Reserved(s \cup {run}) = Limit(p) + Reserved((s \cup {run}) \ {p})
    <3>1. s \cup {run} \in SUBSET Runs /\ s \cup {run} # {}
      OBVIOUS
    <3> QED
      BY <3>1, SumsAreRight, ChosenIn DEF SumsAreGood
  <2> HIDE DEF p
  <2>2. Limit(run) \in Nat /\ Limit(p) \in Nat
    BY <2>1, LimitType
  <2>3. CASE p = run
    <3>1. (s \cup {run}) \ {p} = s
      BY <2>3
    <3> QED
      BY <2>1, <2>2, <2>3, <3>1, ReservedType
  <2>4. CASE p # run
    <3> DEFINE t == s \ {p}
    <3>1. p \in s /\ t \in SUBSET s /\ t # s /\ t \in SUBSET Runs
      BY <2>1, <2>4
    <3>2. (s \cup {run}) \ {p} = t \cup {run} /\ t \cup {p} = s /\ run \in Runs \ t /\ p \in Runs \ t
      BY <2>4, <3>1
    <3> HIDE DEF t
    <3>3. Reserved(t \cup {run}) = Reserved(t) + Limit(run) /\ Reserved(t \cup {p}) = Reserved(t) + Limit(p)
      BY <1>1, <3>1, <3>2
    <3>4. Reserved(t) \in Nat
      BY <3>1, ReservedType
    <3>5. Reserved(s \cup {run}) = Limit(p) + (Reserved(t) + Limit(run))
      BY <2>1, <3>2, <3>3
    <3>6. Reserved(s) = Reserved(t) + Limit(p)
      BY <3>2, <3>3
    <3> QED
      BY <2>2, <3>4, <3>5, <3>6
  <2> QED
    BY <2>3, <2>4
<1> HIDE DEF G
<1>2. SUBSET Runs \subseteq G
  BY <1>1, SetsOfRunsInduct
<1> QED
  BY <1>2 DEF G

\* A run in the set takes its limit along.
LEMMA ReservedLoses ==
    ASSUME NEW s \in SUBSET Runs, NEW run \in s
    PROVE  Reserved(s) = Reserved(s \ {run}) + Limit(run)
<1>1. s \ {run} \in SUBSET Runs /\ run \in Runs \ (s \ {run}) /\ (s \ {run}) \cup {run} = s
  OBVIOUS
<1> QED
  BY <1>1, ReservedAdds

-----------------------------------------------------------------------------
(* Memory.  As long as an experiment always asks for the same memory, a    *)
(* record that a second start has replaced gives back no more than the run *)
(* that ends had reserved.                                                 *)

\* Each run of a key had at least as much reserved as the key's record holds.
RecordsAreCovered ==
    \A run \in Runs : registry.experiments[KeyOf[run]].memoryReserved <= Limit(run)

MemoryCovered ==
    /\ RecordsAreCovered
    /\ Reserved(SlotHolders) <= registry.reservedMemoryBytes
    /\ MemoryBytes > 0 => registry.reservedMemoryBytes <= MemoryBytes

\* What a holder that comes or goes does to the books.
LEMMA TakenBooks ==
    ASSUME NEW run \in Runs
    PROVE  IInv /\ TakesSlot(run) =>
             /\ registry'.reservedMemoryBytes = registry.reservedMemoryBytes + Limit(run)
             /\ registry'.experiments[KeyOf[run]].memoryReserved = Limit(run)
             /\ OnlyTouches(registry, registry', KeyOf[run])
             /\ Reserved(SlotHolders') = Reserved(SlotHolders) + Limit(run)
             /\ MemoryBytes > 0 =>
                   Limit(run) = 0 \/ registry.reservedMemoryBytes + Limit(run) <= MemoryBytes
<1> SUFFICES ASSUME IInv, TakesSlot(run)
             PROVE  /\ registry'.reservedMemoryBytes = registry.reservedMemoryBytes + Limit(run)
                    /\ registry'.experiments[KeyOf[run]].memoryReserved = Limit(run)
                    /\ OnlyTouches(registry, registry', KeyOf[run])
                    /\ Reserved(SlotHolders') = Reserved(SlotHolders) + Limit(run)
                    /\ MemoryBytes > 0 =>
                          Limit(run) = 0 \/ registry.reservedMemoryBytes + Limit(run) <= MemoryBytes
  OBVIOUS
<1> USE DEF TakesSlot
<1>1. /\ registry \in Registry /\ KeyOf[run] \in Keys /\ Limit(run) \in Nat
      /\ registry.totalMemoryBytes = MemoryBytes
  BY DispatcherAssumption DEF IInv, TypeInv, TypeOK, Limit
<1>2. Reserved(SlotHolders') = Reserved(SlotHolders) + Limit(run)
  BY HoldersAreFinite, ReservedAdds DEF IInv
<1>3. MemoryBytes > 0 =>
          Limit(run) = 0 \/ registry.reservedMemoryBytes + Limit(run) <= MemoryBytes
  BY <1>1, AdmissionNeedsTheMemory
<1> QED
  BY <1>1, <1>2, <1>3, TryStartFacts

\* What a returned reservation does to the books.
LEMMA ReturnedBooks ==
    ASSUME NEW run \in Runs, NEW status \in Terminal
    PROVE  IInv /\ GivesSlotBack(run, status) =>
             /\ registry'.reservedMemoryBytes =
                   Monus(registry.reservedMemoryBytes,
                         registry.experiments[KeyOf[run]].memoryReserved)
             /\ registry'.experiments[KeyOf[run]].memoryReserved = 0
             /\ OnlyTouches(registry, registry', KeyOf[run])
             /\ Reserved(SlotHolders) = Reserved(SlotHolders') + Limit(run)
<1> SUFFICES ASSUME IInv, GivesSlotBack(run, status)
             PROVE  /\ registry'.reservedMemoryBytes =
                          Monus(registry.reservedMemoryBytes,
                                registry.experiments[KeyOf[run]].memoryReserved)
                    /\ registry'.experiments[KeyOf[run]].memoryReserved = 0
                    /\ OnlyTouches(registry, registry', KeyOf[run])
                    /\ Reserved(SlotHolders) = Reserved(SlotHolders') + Limit(run)
  OBVIOUS
<1> USE DEF GivesSlotBack
<1>1. registry \in Registry /\ KeyOf[run] \in Keys /\ Known(registry, KeyOf[run])
  BY DispatcherAssumption DEF IInv, TypeInv, TypeOK, HoldersAreKnown
<1>2. Reserved(SlotHolders) = Reserved(SlotHolders') + Limit(run)
  BY HoldersAreFinite, ReservedLoses DEF IInv
<1> QED
  BY <1>1, <1>2, FinishGivesMemoryBack

\* The quantities are natural numbers.
LEMMA BooksType ==
    IInv => /\ SlotHolders \in SUBSET Runs /\ Reserved(SlotHolders) \in Nat
            /\ registry.reservedMemoryBytes \in Nat
            /\ \A k \in Keys : registry.experiments[k].memoryReserved \in Nat
            /\ \A run \in Runs : KeyOf[run] \in Keys /\ Limit(run) \in Nat
            /\ MemoryBytes \in Nat
<1> SUFFICES ASSUME IInv
             PROVE  /\ SlotHolders \in SUBSET Runs /\ Reserved(SlotHolders) \in Nat
                    /\ registry.reservedMemoryBytes \in Nat
                    /\ \A k \in Keys : registry.experiments[k].memoryReserved \in Nat
                    /\ \A run \in Runs : KeyOf[run] \in Keys /\ Limit(run) \in Nat
                    /\ MemoryBytes \in Nat
  OBVIOUS
<1>1. SlotHolders \in SUBSET Runs
  BY HoldersAreFinite DEF IInv
<1>2. registry \in Registry
  BY DEF IInv, TypeInv, TypeOK
<1> QED
  BY <1>1, <1>2, ReservedType, LimitType, DispatcherAssumption DEF Registry, ExperimentRecord

\* Nothing is reserved at the start.
LEMMA InitMemory ==
    Init => /\ SlotHolders = {} /\ Reserved(SlotHolders) = 0
            /\ registry.reservedMemoryBytes = 0
            /\ \A k \in Keys : registry.experiments[k].memoryReserved = 0
<1> SUFFICES ASSUME Init
             PROVE  /\ SlotHolders = {} /\ Reserved(SlotHolders) = 0
                    /\ registry.reservedMemoryBytes = 0
                    /\ \A k \in Keys : registry.experiments[k].memoryReserved = 0
  OBVIOUS
<1>1. SlotHolders = {}
  BY DEF Init, SlotHolders, Answering, Busy, IdleWorker
<1>2. Slots \in Nat /\ MemoryBytes \in Nat
  BY SlotsType, DispatcherAssumption
<1> QED
  BY <1>1, <1>2, NewRegistryType, ReservedType DEF Init

\* Nor is anything covered then.
LEMMA InitMemoryCovered == Init => MemoryCovered
  BY InitMemory, LimitType, DispatcherAssumption DEF MemoryCovered, RecordsAreCovered

\* A run that takes a slot reserves its limit, and one that gives it back
\* returns at most what is reserved for it.
LEMMA MemoryCoveredPreserved ==
    ASSUME OneLimitPerKey
    PROVE  IInv /\ MemoryCovered /\ HoldersMove => MemoryCovered'
<1> SUFFICES ASSUME IInv, MemoryCovered, HoldersMove PROVE MemoryCovered'
  OBVIOUS
<1> USE DEF MemoryCovered
<1>1. CASE HoldersKept
  <2>1. RecordsAreCovered'
    BY <1>1, BooksType DEF HoldersKept, SameMemory, RecordsAreCovered, Limit
  <2> QED
    BY <1>1, <2>1 DEF HoldersKept, SameMemory
<1>2. ASSUME NEW run \in Runs, TakesSlot(run) PROVE MemoryCovered'
  <2>1. KeyOf[run] \in Keys /\ Limit(run) \in Nat
    BY LimitType, DispatcherAssumption
  <2>2. RecordsAreCovered'
    <3>1. registry'.experiments[KeyOf[run]].memoryReserved = Limit(run)
      BY <1>2, <2>1, TakenBooks
    <3>2. OnlyTouches(registry, registry', KeyOf[run])
      BY <1>2, TakenBooks
    <3>3. \A r \in Runs : KeyOf[r] = KeyOf[run] => Limit(r) = Limit(run)
      BY DEF OneLimitPerKey, Limit
    <3>4. ASSUME NEW r \in Runs
          PROVE  registry'.experiments[KeyOf[r]].memoryReserved <= Limit(r)
      BY <2>1, <3>1, <3>2, <3>3, BooksType DEF OnlyTouches, RecordsAreCovered
    <3> QED
      BY <3>4 DEF RecordsAreCovered, Limit
  <2> QED
    BY <1>2, <2>1, <2>2, TakenBooks, BooksType
<1>3. ASSUME NEW run \in Runs, NEW status \in Terminal, GivesSlotBack(run, status)
      PROVE  MemoryCovered'
  <2>1. KeyOf[run] \in Keys /\ Limit(run) \in Nat
    BY LimitType, DispatcherAssumption
  <2>2. RecordsAreCovered'
    <3>1. registry'.experiments[KeyOf[run]].memoryReserved = 0
      BY <1>3, ReturnedBooks
    <3>2. OnlyTouches(registry, registry', KeyOf[run])
      BY <1>3, ReturnedBooks
    <3>3. ASSUME NEW r \in Runs
          PROVE  registry'.experiments[KeyOf[r]].memoryReserved <= Limit(r)
      BY <3>1, <3>2, BooksType DEF OnlyTouches, RecordsAreCovered
    <3> QED
      BY <3>3 DEF RecordsAreCovered, Limit
  <2>3. Reserved(SlotHolders') \in Nat
    <3>1. SlotHolders' \in SUBSET Runs
      BY <1>3, BooksType DEF GivesSlotBack
    <3> QED
      BY <3>1, ReservedType
  <2>4. registry.experiments[KeyOf[run]].memoryReserved <= Limit(run)
    BY DEF RecordsAreCovered
  <2>5. registry.experiments[KeyOf[run]].memoryReserved \in Nat
    BY <2>1, BooksType
  <2>6. Reserved(SlotHolders) = Reserved(SlotHolders') + Limit(run)
    BY <1>3, ReturnedBooks
  <2>7. registry'.reservedMemoryBytes = Monus(registry.reservedMemoryBytes,
                                              registry.experiments[KeyOf[run]].memoryReserved)
    BY <1>3, ReturnedBooks
  <2>8. /\ registry'.reservedMemoryBytes \in Nat
        /\ registry'.reservedMemoryBytes <= registry.reservedMemoryBytes
        /\ Reserved(SlotHolders') <= registry'.reservedMemoryBytes
    BY <2>1, <2>3, <2>4, <2>5, <2>6, <2>7, BooksType DEF Monus
  <2> QED
    BY <2>2, <2>8, BooksType
<1> QED
  BY <1>1, <1>2, <1>3 DEF HoldersMove

\* When an experiment asks for the same memory each time it is started, the
\* limits of the admitted, unfinished runs fit into the node's memory, for any
\* limits and however often an experiment is started again while its canceled
\* run still unwinds.
THEOREM MemoryIsNeverOvercommitted == Spec => []MemoryNeverOvercommitted
<1>1. CASE OneLimitPerKey
  <2>1. Init => IInv /\ MemoryCovered
    BY InitIInv, InitMemoryCovered
  <2>2. IInv /\ MemoryCovered /\ [Next]_vars => (IInv /\ MemoryCovered)'
    BY <1>1, NextPreserves, MemoryCoveredPreserved
  <2>3. IInv /\ MemoryCovered => MemoryNeverOvercommitted
    BY BooksType DEF MemoryCovered, MemoryNeverOvercommitted
  <2> QED
    BY <2>1, <2>2, <2>3, PTL DEF Spec
<1>2. CASE ~OneLimitPerKey
  <2>1. MemoryNeverOvercommitted
    BY <1>2 DEF MemoryNeverOvercommitted
  <2> QED
    BY <2>1, PTL
<1> QED
  BY <1>1, <1>2

-----------------------------------------------------------------------------
(* When no experiment is started twice, each record belongs to one run.    *)

StartedOnce == \A a, b \in Runs : KeyOf[a] = KeyOf[b] => a = b

MemoryHeld ==
    \A run \in SlotHolders : registry.experiments[KeyOf[run]].memoryReserved = Limit(run)

\* And exactly that, when no two runs share a key.
LEMMA MemoryAccountingPreserved ==
    ASSUME StartedOnce
    PROVE  IInv /\ MemoryHeld /\ MemoryAccounting /\ HoldersMove => MemoryHeld' /\ MemoryAccounting'
<1> SUFFICES ASSUME IInv, MemoryHeld, MemoryAccounting, HoldersMove
             PROVE  MemoryHeld' /\ MemoryAccounting'
  OBVIOUS
<1>0. SlotHolders \in SUBSET Runs /\ \A run \in Runs : KeyOf[run] \in Keys
  BY BooksType, DispatcherAssumption
<1>1. CASE HoldersKept
  BY <1>0, <1>1 DEF HoldersKept, SameMemory, MemoryHeld, MemoryAccounting
<1>2. ASSUME NEW run \in Runs, TakesSlot(run) PROVE MemoryHeld' /\ MemoryAccounting'
  <2>1. SlotHolders' = SlotHolders \cup {run} /\ run \notin SlotHolders
    BY <1>2 DEF TakesSlot
  <2>2. /\ registry'.experiments[KeyOf[run]].memoryReserved = Limit(run)
        /\ OnlyTouches(registry, registry', KeyOf[run])
    BY <1>2, TakenBooks
  <2>3. \A r \in SlotHolders : KeyOf[r] \in Keys \ {KeyOf[run]}
    BY <1>0, <2>1 DEF StartedOnce
  <2>4. MemoryHeld'
    BY <2>1, <2>2, <2>3 DEF MemoryHeld, OnlyTouches
  <2> QED
    BY <1>2, <2>4, TakenBooks DEF MemoryAccounting
<1>3. ASSUME NEW run \in Runs, NEW status \in Terminal, GivesSlotBack(run, status)
      PROVE  MemoryHeld' /\ MemoryAccounting'
  <2>1. SlotHolders' = SlotHolders \ {run} /\ run \in SlotHolders
    BY <1>3 DEF GivesSlotBack
  <2>2. OnlyTouches(registry, registry', KeyOf[run])
    BY <1>3, ReturnedBooks
  <2>3. \A r \in SlotHolders' : r \in SlotHolders /\ KeyOf[r] \in Keys \ {KeyOf[run]}
    BY <1>0, <2>1 DEF StartedOnce
  <2>4. MemoryHeld'
    BY <2>1, <2>2, <2>3 DEF MemoryHeld, OnlyTouches
  <2>5. registry'.reservedMemoryBytes = Monus(Reserved(SlotHolders), Limit(run))
    BY <1>3, <2>1, ReturnedBooks DEF MemoryHeld, MemoryAccounting
  <2>6. Reserved(SlotHolders) = Reserved(SlotHolders') + Limit(run)
    BY <1>3, ReturnedBooks
  <2>7. Reserved(SlotHolders') \in Nat /\ Limit(run) \in Nat
    BY <1>0, <2>1, ReservedType, LimitType
  <2>8. MemoryAccounting'
    BY <2>5, <2>6, <2>7 DEF MemoryAccounting, Monus
  <2> QED
    BY <2>4, <2>8
<1> QED
  BY <1>1, <1>2, <1>3 DEF HoldersMove

\* When no experiment is started twice, reservedMemoryBytes is exactly the sum
\* of the limits of the runs in progress, whichever way each of them ends.
THEOREM MemoryIsAccounted ==
    ASSUME StartedOnce PROVE Spec => []MemoryAccounting
<1>1. Init => IInv /\ MemoryHeld /\ MemoryAccounting
  BY InitIInv, InitMemory DEF MemoryHeld, MemoryAccounting
<1>2. IInv /\ MemoryHeld /\ MemoryAccounting /\ [Next]_vars => (IInv /\ MemoryHeld /\ MemoryAccounting)'
  BY NextPreserves, MemoryAccountingPreserved
<1> QED
  BY <1>1, <1>2, PTL DEF Spec

-----------------------------------------------------------------------------
(* A stop is honoured: the record of a run that is done is touched by      *)
(* nobody, and carries the cancellation the final status took account of.  *)

Finished == {w \in WithTask : worker[w].at = "finished"}

Done == {run \in Runs : submitted[run] # "none"} \cup {worker[w].run : w \in Finished}

StopKept(run, status) ==
    /\ ~CanCancel(registry, KeyOf[run])
    /\ registry.experiments[KeyOf[run]].cancelRequested => status \in {"CANCELED", "FINISHED"}

StopsAreKept ==
    /\ \A w \in Finished : StopKept(worker[w].run, worker[w].status)
    /\ \A run \in Runs : submitted[run] # "none" => StopKept(run, submitted[run])

\* A run that is over was accepted, and cannot be canceled any more.
LEMMA DoneRuns ==
    IInv /\ StopsAreKept =>
        \A run \in Done : /\ run \in Runs /\ KeyOf[run] \in Keys /\ handler[run] = "accepted"
                          /\ ~CanCancel(registry, KeyOf[run])
<1> SUFFICES ASSUME IInv, StopsAreKept, NEW run \in Done
             PROVE  /\ run \in Runs /\ KeyOf[run] \in Keys /\ handler[run] = "accepted"
                    /\ ~CanCancel(registry, KeyOf[run])
  OBVIOUS
<1>1. run \in Runs /\ handler[run] = "accepted"
  BY DEF IInv, TypeInv, WorkersHaveRuns, TasksAreAccepted, ReportedWereAccepted, Done, Finished
<1>2. ~CanCancel(registry, KeyOf[run])
  BY DEF StopsAreKept, StopKept, Done
<1> QED
  BY <1>1, <1>2, DispatcherAssumption

\* No step touches the record of a run that is done.
LEMMA DoneRecordsStay ==
    ASSUME StartedOnce
    PROVE  IInv /\ StopsAreKept /\ [Next]_vars =>
             \A run \in Done : registry'.experiments[KeyOf[run]] = registry.experiments[KeyOf[run]]
<1> SUFFICES ASSUME IInv, StopsAreKept, [Next]_vars, NEW run \in Done
             PROVE  registry'.experiments[KeyOf[run]] = registry.experiments[KeyOf[run]]
  OBVIOUS
<1>0. /\ run \in Runs /\ KeyOf[run] \in Keys /\ handler[run] = "accepted"
      /\ ~CanCancel(registry, KeyOf[run]) /\ registry \in Registry
  BY DoneRuns DEF IInv, TypeInv, TypeOK
<1>1. ASSUME NEW r \in Runs, r # run, OnlyTouches(registry, registry', KeyOf[r])
      PROVE  registry'.experiments[KeyOf[run]] = registry.experiments[KeyOf[run]]
  BY <1>0, <1>1 DEF StartedOnce, OnlyTouches
<1>2. ASSUME NEW r \in Runs, Handler(r)
      PROVE  registry'.experiments[KeyOf[run]] = registry.experiments[KeyOf[run]]
  <2>1. KeyOf[r] \in Keys /\ Limit(r) \in Nat
    BY DispatcherAssumption DEF Limit
  <2>2. CASE StartAdmitted(r)
    <3>1. r # run /\ registry' = TryStart(registry, KeyOf[r], Limit(r))
      BY <1>0, <2>2 DEF StartAdmitted
    <3> QED
      BY <1>0, <1>1, <2>1, <3>1, TryStartFacts
  <2>3. CASE InstallCancel(r)
    <3>1. r # run /\ registry' = SetCancel(registry, KeyOf[r], r)
      BY <1>0, <2>3 DEF InstallCancel
    <3> QED
      BY <1>0, <1>1, <2>1, <3>1, SetCancelFacts
  <2>4. CASE RequestCanceled(r)
    <3>1. r # run /\ r \in Answering /\ registry' = Finish(registry, KeyOf[r], "FAILED")
      BY <1>0, <2>4 DEF RequestCanceled, Answering
    <3>2. Known(registry, KeyOf[r]) /\ "FAILED" \in Terminal
      BY <3>1 DEF IInv, TypeInv, HoldersAreKnown, SlotHolders, Terminal
    <3> QED
      BY <1>0, <1>1, <2>1, <3>1, <3>2, FinishGivesMemoryBack
  <2>5. CASE StartRefused(r) \/ RunTimeout(r) \/ \E w \in Workers : HandOff(r, w)
    BY <2>5 DEF StartRefused, RunTimeout, HandOff
  <2> QED
    BY <1>2, <2>2, <2>3, <2>4, <2>5 DEF Handler
<1>3. ASSUME NEW w \in Workers, Worker(w)
      PROVE  registry'.experiments[KeyOf[run]] = registry.experiments[KeyOf[run]]
  <2> DEFINE r == worker[w].run
  <2>1. ASSUME worker[w].at \in {"received", "executed"}
        PROVE  r \in Runs /\ r # run /\ KeyOf[r] \in Keys /\ r \in SlotHolders
    <3>1. w \in WithTask /\ w \notin Finished /\ w \in Busy
      BY <2>1 DEF WithTask, Finished, Busy
    <3>2. r # run
      BY <3>1 DEF IInv, TasksAreAccepted, OneWorkerPerRun, Done, Finished
    <3> QED
      BY <3>1, <3>2, DispatcherAssumption DEF IInv, TypeInv, WorkersHaveRuns, SlotHolders
  <2>2. CASE SetRunning(w)
    <3>1. worker[w].at = "received" /\ registry' = SetStatus(registry, KeyOf[r], "RUNNING")
      BY <2>2 DEF SetRunning
    <3> QED
      BY <1>0, <1>1, <2>1, <3>1, SetStatusFacts
  <2>3. CASE FinishTask(w)
    <3>1. worker[w].at = "executed" /\ registry' = Finish(registry, KeyOf[r], worker[w].status)
      BY <2>3 DEF FinishTask
    <3>2. Known(registry, KeyOf[r]) /\ worker[w].status \in Terminal
      BY <2>1, <3>1 DEF IInv, TypeInv, HoldersAreKnown, WorkersHaveRuns, WithTask
    <3> QED
      BY <1>0, <1>1, <2>1, <3>1, <3>2, FinishGivesMemoryBack
  <2>4. CASE Execute(w) \/ SubmitResult(w) \/ WorkerExit(w)
    BY <2>4 DEF Execute, SubmitResult, WorkerExit
  <2> QED
    BY <1>3, <2>2, <2>3, <2>4 DEF Worker
<1>4. ASSUME NEW key \in Keys, StopExperiment(key)
      PROVE  registry'.experiments[KeyOf[run]] = registry.experiments[KeyOf[run]]
  <2>1. key # KeyOf[run] /\ registry' = Cancel(registry, key)
    BY <1>0, <1>4 DEF StopExperiment
  <2>2. OnlyTouches(registry, registry', key)
    BY <1>0, <2>1, CancelFacts
  <2> QED
    BY <1>0, <2>1, <2>2 DEF OnlyTouches
<1>5. CASE DrainTimeout
  <2>1. registry' = CancelAll(registry)
    BY <1>5 DEF DrainTimeout
  <2> QED
    BY <1>0, <2>1, CancelAllFacts
<1>6. CASE Shutdown \/ ServeReturns \/ WorkersDone \/ UNCHANGED vars
  BY <1>6 DEF Shutdown, ServeReturns, WorkersDone, vars
<1> QED
  BY <1>2, <1>3, <1>4, <1>5, <1>6 DEF Next

\* A worker comes to "finished" by FinishTask only, and a report is what such a
\* worker hands over.
LEMMA NewlyDone ==
    IInv /\ [Next]_vars =>
        /\ \A w \in Finished' : FinishTask(w) \/ (w \in Finished /\ worker'[w] = worker[w])
        /\ \A run \in Runs : \/ submitted'[run] = submitted[run]
                             \/ \E w \in Finished : /\ run = worker[w].run
                                                    /\ submitted'[run] = worker[w].status
<1> SUFFICES ASSUME IInv, [Next]_vars
             PROVE  /\ \A w \in Finished' : FinishTask(w) \/ (w \in Finished /\ worker'[w] = worker[w])
                    /\ \A run \in Runs : \/ submitted'[run] = submitted[run]
                                         \/ \E w \in Finished : /\ run = worker[w].run
                                                                /\ submitted'[run] = worker[w].status
  OBVIOUS
<1>0. worker \in [Workers -> WorkerRecord] /\ submitted \in [Runs -> Terminal \cup {"none"}]
  BY DEF IInv, TypeInv, TypeOK, WorkerRecord
<1>1. ASSUME UNCHANGED <<worker, submitted>>
      PROVE  /\ \A w \in Finished' : w \in Finished /\ worker'[w] = worker[w]
             /\ \A run \in Runs : submitted'[run] = submitted[run]
  BY <1>1 DEF Finished, WithTask
<1>2. ASSUME NEW v \in Workers, \A w \in Workers \ {v} : worker'[w] = worker[w],
             worker'[v].at # "finished"
      PROVE  \A w \in Finished' : w \in Finished /\ worker'[w] = worker[w]
  BY <1>2 DEF Finished, WithTask
<1>3. ASSUME NEW r \in Runs, Handler(r)
      PROVE  /\ \A w \in Finished' : w \in Finished /\ worker'[w] = worker[w]
             /\ \A run \in Runs : submitted'[run] = submitted[run]
  <2>1. CASE \E w \in Workers : HandOff(r, w)
    <3>1. PICK v \in Workers : HandOff(r, v)
      BY <2>1
    <3>2. /\ worker'[v].at = "received" /\ \A w \in Workers \ {v} : worker'[w] = worker[w]
          /\ submitted' = submitted
      BY <1>0, <3>1 DEF HandOff
    <3> QED
      BY <1>2, <3>2
  <2>2. CASE StartRefused(r) \/ StartAdmitted(r) \/ InstallCancel(r) \/ RequestCanceled(r) \/ RunTimeout(r)
    <3>1. UNCHANGED <<worker, submitted>>
      BY <2>2 DEF StartRefused, StartAdmitted, InstallCancel, RequestCanceled, RunTimeout
    <3> QED
      BY <1>1, <3>1
  <2> QED
    BY <1>3, <2>1, <2>2 DEF Handler
<1>4. ASSUME NEW v \in Workers, Worker(v)
      PROVE  /\ \A w \in Finished' : FinishTask(w) \/ (w \in Finished /\ worker'[w] = worker[w])
             /\ \A run \in Runs : \/ submitted'[run] = submitted[run]
                                  \/ \E w \in Finished : /\ run = worker[w].run
                                                         /\ submitted'[run] = worker[w].status
  <2>1. \A w \in Workers \ {v} : worker'[w] = worker[w]
    BY <1>0, <1>4 DEF Worker, SetRunning, Execute, FinishTask, SubmitResult, WorkerExit
  <2>2. CASE FinishTask(v)
    <3>1. submitted' = submitted
      BY <2>2 DEF FinishTask
    <3> QED
      BY <2>1, <2>2, <3>1 DEF Finished, WithTask
  <2>3. CASE SubmitResult(v)
    <3>1. /\ v \in Finished /\ worker'[v].at # "finished"
          /\ submitted' = [submitted EXCEPT ![worker[v].run] = worker[v].status]
      BY <1>0, <2>3 DEF SubmitResult, Finished, WithTask, IdleWorker
    <3>2. \A run \in Runs : submitted'[run] = submitted[run]
                              \/ (run = worker[v].run /\ submitted'[run] = worker[v].status)
      BY <1>0, <3>1
    <3> QED
      BY <1>2, <2>1, <3>1, <3>2
  <2>4. CASE SetRunning(v) \/ Execute(v) \/ WorkerExit(v)
    <3>1. worker'[v].at # "finished" /\ submitted' = submitted
      BY <1>0, <2>4 DEF SetRunning, Execute, WorkerExit, WorkerRecord
    <3> QED
      BY <1>2, <2>1, <3>1
  <2> QED
    BY <1>4, <2>2, <2>3, <2>4 DEF Worker
<1>5. CASE Others \/ UNCHANGED vars
  <2>1. UNCHANGED <<worker, submitted>>
    BY <1>5 DEF Others, StopExperiment, Shutdown, ServeReturns, DrainTimeout, WorkersDone, vars
  <2> QED
    BY <1>1, <2>1
<1> QED
  BY <1>3, <1>4, <1>5 DEF Next, Others

\* The status a run finishes with takes account of the stop.
LEMMA FinishedStop ==
    ASSUME NEW w \in Workers
    PROVE  IInv /\ FinishTask(w) => StopKept(worker[w].run, worker[w].status)'
<1> SUFFICES ASSUME IInv, FinishTask(w) PROVE StopKept(worker[w].run, worker[w].status)'
  OBVIOUS
<1> DEFINE run == worker[w].run
           final == FinalStatus(registry, KeyOf[run], worker[w].status)
<1>1. /\ worker[w].at = "executed" /\ w \in WithTask /\ w \in Busy
      /\ run \in Runs /\ KeyOf[run] \in Keys /\ worker[w].status \in Terminal
      /\ registry \in Registry /\ worker \in [Workers -> WorkerRecord]
  BY DispatcherAssumption
  DEF FinishTask, IInv, TypeInv, TypeOK, WorkersHaveRuns, WithTask, Busy, WorkerRecord
<1>2. Known(registry, KeyOf[run])
  BY <1>1 DEF IInv, TypeInv, HoldersAreKnown, SlotHolders
<1>3. /\ registry' = Finish(registry, KeyOf[run], worker[w].status)
      /\ worker' = [worker EXCEPT ![w].at = "finished", ![w].status = final]
  BY DEF FinishTask
<1>4. worker'[w].run = run /\ worker'[w].status = final
  <2> HIDE DEF final
  <2>1. worker'[w] = [worker[w] EXCEPT !.at = "finished", !.status = final]
    BY <1>1, <1>3
  <2> QED
    BY <1>1, <2>1 DEF WorkerRecord
<1>5. /\ registry'.experiments[KeyOf[run]].status = final
      /\ registry'.experiments[KeyOf[run]].cancelRequested
            = registry.experiments[KeyOf[run]].cancelRequested
  BY <1>1, <1>2, <1>3, FinishKeepsTheStop
<1>6. final \in Terminal
  BY <1>1, FinalStatusType
<1>7. registry.experiments[KeyOf[run]].cancelRequested => final \in {"CANCELED", "FINISHED"}
  BY <1>2 DEF FinalStatus
<1> QED
  BY <1>4, <1>5, <1>6, <1>7 DEF StopKept, CanCancel, IsActiveStatus, Terminal

\* Each step keeps what is said of stops.
LEMMA StopsPreserved ==
    ASSUME StartedOnce
    PROVE  IInv /\ StopsAreKept /\ [Next]_vars => StopsAreKept'
<1> SUFFICES ASSUME IInv, StopsAreKept, [Next]_vars PROVE StopsAreKept'
  OBVIOUS
<1>1. ASSUME NEW run \in Done, NEW status, StopKept(run, status)
      PROVE  /\ ~CanCancel(registry', KeyOf[run])
             /\ registry'.experiments[KeyOf[run]].cancelRequested => status \in {"CANCELED", "FINISHED"}
  BY <1>1, DoneRecordsStay DEF StopKept, CanCancel
<1>2. ASSUME NEW w \in Finished' PROVE StopKept(worker[w].run, worker[w].status)'
  <2>1. CASE FinishTask(w)
    BY <2>1, FinishedStop DEF Finished, WithTask
  <2>2. CASE w \in Finished /\ worker'[w] = worker[w]
    <3>1. worker[w].run \in Done /\ StopKept(worker[w].run, worker[w].status)
      BY <2>2 DEF Done, StopsAreKept
    <3> QED
      BY <1>1, <2>2, <3>1 DEF StopKept
  <2> QED
    BY <2>1, <2>2, NewlyDone
<1>3. ASSUME NEW run \in Runs, submitted'[run] # "none" PROVE StopKept(run, submitted[run])'
  <2>1. PICK status : status = submitted'[run] /\ run \in Done /\ StopKept(run, status)
    BY <1>3, NewlyDone DEF Done, StopsAreKept
  <2> QED
    BY <1>1, <2>1 DEF StopKept
<1> QED
  BY <1>2, <1>3 DEF StopsAreKept

\* When no experiment is started twice, a run whose stop was acknowledged is
\* reported CANCELED, or FINISHED when it beat the stop, and never FAILED.
THEOREM StopsAreHonoured ==
    ASSUME StartedOnce PROVE Spec => []CancelHonoured
<1>1. Init => IInv /\ StopsAreKept
  BY InitIInv DEF Init, StopsAreKept, Finished, WithTask, IdleWorker
<1>2. IInv /\ StopsAreKept /\ [Next]_vars => (IInv /\ StopsAreKept)'
  BY NextPreserves, StopsPreserved
<1>3. IInv /\ StopsAreKept => CancelHonoured
  BY DEF StopsAreKept, StopKept, CancelHonoured
<1> QED
  BY <1>1, <1>2, <1>3, PTL DEF Spec
=============================================================================
