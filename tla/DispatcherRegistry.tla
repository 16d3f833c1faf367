------------------------- MODULE DispatcherRegistry -------------------------
(***************************************************************************)
(* The dispatcher's experiment registry (dispatcher/registry.go): every    *)
(* method of the Go type runs under Registry.mu, so each one is a function *)
(* from the registry to the registry and an atomic step of its callers.    *)
(*                                                                         *)
(* Of an ExperimentResult only the status is kept, of the context's cancel *)
(* function only whose run it cancels.  Byte quantities stay far below     *)
(* 2^63 (the control plane stores them as signed 64-bit integers), so the  *)
(* uint64 sums are plain additions.                                        *)
(***************************************************************************)
EXTENDS Naturals

CONSTANTS
    Keys,       \* experiment keys <<model hash, experiment id>>
    Runs,       \* run contexts, one per StartExperiment call
    NoRun       \* the nil cancel function

ASSUME NoRunAssumption == NoRun \notin Runs

Terminal == {"FINISHED", "FAILED", "CANCELED"}

IsActiveStatus(status) == status \in {"PENDING", "STARTING", "RUNNING"}

ExperimentRecord ==
    [status : {"absent", "STARTING", "RUNNING"} \cup Terminal,
     cancel : Runs \cup {NoRun},
     memoryReserved : Nat,
     cancelRequested : BOOLEAN]

\* The map has no entry for the key.
NoRecord == [status |-> "absent", cancel |-> NoRun,
             memoryReserved |-> 0, cancelRequested |-> FALSE]

Registry ==
    [totalSlots : Nat, usedSlots : Nat,
     totalMemoryBytes : Nat, reservedMemoryBytes : Nat,
     experiments : [Keys -> ExperimentRecord]]

NewRegistry(slots, memory) ==
    [totalSlots |-> slots, usedSlots |-> 0,
     totalMemoryBytes |-> memory, reservedMemoryBytes |-> 0,
     experiments |-> [k \in Keys |-> NoRecord]]

Monus(a, b) == IF a >= b THEN a - b ELSE 0

-----------------------------------------------------------------------------
(* TryStart: the reason it refuses, in the order it looks, or "none". *)

\* Fault: one run too many.
NoFreeSlots_OffByOne(r) == r.totalSlots > 0 /\ r.usedSlots > r.totalSlots

NoFreeSlots(r) == r.totalSlots > 0 /\ r.usedSlots >= r.totalSlots

\* Fault: the new run's own limit is left out.
NotEnoughMemory_OwnLimitIgnored(r, limit) ==
    r.totalMemoryBytes > 0 /\ limit > 0 /\ r.reservedMemoryBytes >= r.totalMemoryBytes

NotEnoughMemory(r, limit) ==
    /\ r.totalMemoryBytes > 0 /\ limit > 0
    /\ r.reservedMemoryBytes + limit > r.totalMemoryBytes

Refusal(r, key, limit) ==
    IF IsActiveStatus(r.experiments[key].status) THEN "experiment_already_running"
    ELSE IF NoFreeSlots(r) THEN "no_free_slots"
    ELSE IF NotEnoughMemory(r, limit) THEN "not_enough_memory"
    ELSE "none"

\* TryStart when it admits: the new record replaces whatever the key held.
TryStart(r, key, limit) ==
    [r EXCEPT !.experiments[key] = [NoRecord EXCEPT !.status = "STARTING",
                                                   !.memoryReserved = limit],
              !.usedSlots = @ + 1,
              !.reservedMemoryBytes = @ + limit]

Known(r, key) == r.experiments[key].status # "absent"

SetCancel(r, key, run) ==
    IF Known(r, key) THEN [r EXCEPT !.experiments[key].cancel = run] ELSE r

SetStatus(r, key, status) ==
    IF Known(r, key) THEN [r EXCEPT !.experiments[key].status = status] ELSE r

-----------------------------------------------------------------------------
(* Cancel and CancelAll mark active records; Canceled names the run        *)
(* contexts whose cancel function they call (nil ones are skipped).        *)

CancelRecord(rec) == [rec EXCEPT !.cancelRequested = TRUE, !.status = "CANCELED"]

CanCancel(r, key) == IsActiveStatus(r.experiments[key].status)

Cancel(r, key) == [r EXCEPT !.experiments[key] = CancelRecord(@)]

ActiveKeys(r) == {k \in Keys : CanCancel(r, k)}

CancelAll(r) ==
    [r EXCEPT !.experiments =
        [k \in Keys |-> IF CanCancel(r, k) THEN CancelRecord(@[k]) ELSE @[k]]]

Canceled(r, keys) == {r.experiments[k].cancel : k \in keys} \ {NoRun}

-----------------------------------------------------------------------------
(* Finish: a requested cancellation overrides every outcome but FINISHED,  *)
(* and the record gives back its slot and what is left of its memory.      *)

\* Fault: the cancellation is forgotten.
FinalStatus_Unchecked(r, key, status) == status

FinalStatus(r, key, status) ==
    IF Known(r, key) /\ r.experiments[key].cancelRequested /\ status # "FINISHED"
    THEN "CANCELED" ELSE status

\* Fault: only the slot is given back.
Finish_SlotOnly(r, key, status) ==
    [r EXCEPT !.experiments[key].status = FinalStatus(r, key, status),
              !.usedSlots = Monus(@, 1)]

\* Fault: a record that Cancel has already made terminal is left alone.
Finish_OnlyActive(r, key, status) ==
    IF IsActiveStatus(r.experiments[key].status)
    THEN [r EXCEPT !.experiments[key].status = FinalStatus(r, key, status),
                   !.experiments[key].memoryReserved = 0,
                   !.reservedMemoryBytes = Monus(@, r.experiments[key].memoryReserved),
                   !.usedSlots = Monus(@, 1)]
    ELSE r

Finish(r, key, status) ==
    IF ~Known(r, key)
    THEN [r EXCEPT !.experiments[key] = [NoRecord EXCEPT !.status = status]]
    ELSE [r EXCEPT !.experiments[key] = [@ EXCEPT !.status = FinalStatus(r, key, status),
                                                  !.memoryReserved = 0],
                   !.reservedMemoryBytes = Monus(@, r.experiments[key].memoryReserved),
                   !.usedSlots = Monus(@, 1)]
=============================================================================
