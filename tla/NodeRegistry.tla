---------------------------- MODULE NodeRegistry ----------------------------
(***************************************************************************)
(* The control plane's registry of dispatcher nodes                        *)
(* (controlplane/node_registry.go).  Every method holds NodeRegistry.mu.   *)
(*                                                                         *)
(* A record keeps the load the node reported last, the load the scheduler  *)
(* has promised it since (the reservation), the consecutive RPC failures,  *)
(* and, in place of LastSeenAt, whether its TTL still runs.                *)
(***************************************************************************)
EXTENDS Naturals

CONSTANTS Nodes, Platforms

NodeStatus == [platform : Platforms, totalSlots : Nat, usedSlots : Nat,
               totalMemory : Nat, reservedMemory : Nat]

NodeRecord == [known : {TRUE}, fresh : BOOLEAN, reported : NodeStatus,
               promisedSlots : Nat, promisedMemory : Nat, failures : Nat]

NoRecord == [known |-> FALSE]

NodeMap == [Nodes -> NodeRecord \cup {NoRecord}]

NoNodes == [n \in Nodes |-> NoRecord]

NewRecord(reported) ==
    [known |-> TRUE, fresh |-> TRUE, reported |-> reported,
     promisedSlots |-> 0, promisedMemory |-> 0, failures |-> 0]

\* Fault: the unsigned subtraction is not guarded.
AtLeastZero_Unguarded(a, b) == a - b

AtLeastZero(a, b) == IF a >= b THEN a - b ELSE 0

Larger(a, b) == IF a > b THEN a ELSE b

-----------------------------------------------------------------------------
\* Fault: a heartbeat starts the record afresh.
Heartbeat_PromisesForgotten(nodes, n, reported) ==
    [nodes EXCEPT ![n] = NewRecord(reported)]

\* Register and Heartbeat: promises and failures outlive the report.
Heartbeat(nodes, n, reported) ==
    [nodes EXCEPT ![n] = IF @.known THEN [@ EXCEPT !.fresh = TRUE, !.reported = reported]
                                    ELSE NewRecord(reported)]

Fresh(nodes, n) == nodes[n].known /\ nodes[n].fresh

\* Fault: the TTL is not looked at.
ActiveNodeIDs_Stale(nodes) == {n \in Nodes : nodes[n].known}

ActiveNodeIDs(nodes) == {n \in Nodes : Fresh(nodes, n)}

Expired(nodes) == {n \in Nodes : nodes[n].known /\ ~nodes[n].fresh}

Evict(nodes, ns) == [n \in Nodes |-> IF n \in ns THEN NoRecord ELSE nodes[n]]

-----------------------------------------------------------------------------
(* PickAndReserve *)

HasFreeSlot(rec) == Larger(rec.reported.usedSlots, rec.promisedSlots) < rec.reported.totalSlots

HasEnoughMemory(rec, limit) ==
    \/ limit = 0
    \/ rec.reported.totalMemory = 0
    \/ Larger(rec.reported.reservedMemory, rec.promisedMemory) + limit <= rec.reported.totalMemory

Candidates(nodes, platform, limit) ==
    {n \in ActiveNodeIDs(nodes) :
        /\ nodes[n].reported.platform = platform
        /\ HasFreeSlot(nodes[n])
        /\ HasEnoughMemory(nodes[n], limit)}

Reserve(nodes, n, limit) ==
    [nodes EXCEPT ![n].promisedSlots = @ + 1, ![n].promisedMemory = @ + limit]

\* What PickAndReserve(platform, limit) may leave behind when it picks n: Go
\* visits the map in any order and evicts the expired records it meets first.
Picks(nodes, n, limit) ==
    {Reserve(Evict(nodes, gone), n, limit) : gone \in SUBSET Expired(nodes)}

-----------------------------------------------------------------------------
ReleaseReservation(nodes, n, limit) ==
    IF ~nodes[n].known THEN nodes
    ELSE [nodes EXCEPT ![n].promisedSlots = AtLeastZero(@, 1),
                       ![n].promisedMemory = AtLeastZero(@, limit)]

MarkNodeFailed(nodes, n, maxFailures) ==
    IF ~nodes[n].known THEN nodes
    ELSE IF nodes[n].failures + 1 >= maxFailures THEN Evict(nodes, {n})
    ELSE [nodes EXCEPT ![n].failures = @ + 1]

MarkNodeSucceeded(nodes, n) ==
    IF ~nodes[n].known THEN nodes ELSE [nodes EXCEPT ![n].failures = 0]

\* Get: an expired record is evicted by whoever asks for it.
AfterGet(nodes, n) == Evict(nodes, Expired(nodes) \cap {n})
=============================================================================
