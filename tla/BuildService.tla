----------------------------- MODULE BuildService -----------------------------
(***************************************************************************)
(* What the control plane may expect of a build request: the promise of    *)
(* the work queue and the codegen server behind it, without the server.    *)
(* A posted request may be built any number of times, the last one after   *)
(* it is settled; each build that succeeds replaces the binary stored for  *)
(* the model; an answer names a binary that a build of this request has    *)
(* stored, or says that it failed; and a request is settled only when an   *)
(* answer has been sent.  Nobody need be listening for the answer.         *)
(*                                                                         *)
(* A digest stands for the contents of a binary.  `go build` runs in a     *)
(* fresh temporary directory without -trimpath (codegen/builder), so two   *)
(* builds of one model may have different digests.                         *)
(***************************************************************************)
EXTENDS Naturals, FiniteSets

CONSTANTS
    Tasks,          \* build requests
    Models,         \* model hashes (for one goos and goarch)
    ModelOf,        \* ModelOf[t]: the model a request asks for
    Broken,         \* the models the generator or the compiler rejects
    Digests, NoDigest

ASSUME BuildAssumption ==
    /\ IsFiniteSet(Tasks)
    /\ ModelOf \in [Tasks -> Models] /\ Broken \subseteq Models
    /\ IsFiniteSet(Digests) /\ NoDigest \notin Digests

VARIABLES
    request,        \* request[t]: none, posted or settled
    made,           \* made[t]: the digests that builds of t have stored
    object,         \* object[m]: what is stored under the binary key of m
    subscribed,     \* the requests whose reply subject has a subscriber
    inbox,          \* inbox[t]: the one-place reply channel of that subscriber
    answered        \* the requests an answer has been sent to

service == <<request, made, object, subscribed, inbox, answered>>

NoResult == [ok |-> FALSE, binary |-> NoDigest, real |-> FALSE]
Success(d) == [ok |-> TRUE, binary |-> d, real |-> TRUE]
Failure == [ok |-> FALSE, binary |-> NoDigest, real |-> TRUE]
Results == {NoResult, Failure} \cup {Success(d) : d \in Digests}

ServiceTypeOK ==
    /\ request \in [Tasks -> {"none", "posted", "settled"}]
    /\ made \in [Tasks -> SUBSET Digests]
    /\ object \in [Models -> Digests \cup {NoDigest}]
    /\ subscribed \subseteq Tasks /\ inbox \in [Tasks -> Results]
    /\ answered \subseteq Tasks

ServiceInit ==
    /\ request = [t \in Tasks |-> "none"]
    /\ made = [t \in Tasks |-> {}]
    /\ object = [m \in Models |-> NoDigest]
    /\ subscribed = {} /\ inbox = [t \in Tasks |-> NoResult]
    /\ answered = {}

Post(t) ==
    /\ request[t] = "none"
    /\ request' = [request EXCEPT ![t] = "posted"]
    /\ UNCHANGED <<made, object, inbox, answered>>

\* ChanSubscribe comes before the request is published.
Subscribe(t) == subscribed' = subscribed \cup {t}
Unsubscribe(t) == subscribed' = subscribed \ {t} /\ inbox' = [inbox EXCEPT ![t] = NoResult]

Produce(t) ==
    /\ request[t] # "none" /\ ModelOf[t] \notin Broken
    /\ \E d \in Digests :
         /\ object' = [object EXCEPT ![ModelOf[t]] = d]
         /\ made' = [made EXCEPT ![t] = @ \cup {d}]
    /\ UNCHANGED <<request, subscribed, inbox, answered>>

\* Core NATS: without a subscriber, or with its channel full, the answer is dropped.
Deliver(t, result) ==
    inbox' = IF t \in subscribed /\ inbox[t] = NoResult
             THEN [inbox EXCEPT ![t] = result] ELSE inbox

Answer(t) ==
    /\ request[t] # "none"
    /\ \E result \in {Failure} \cup {Success(d) : d \in made[t]} : Deliver(t, result)
    /\ answered' \in {answered, answered \cup {t}}
    /\ UNCHANGED <<request, made, object, subscribed>>

Settle(t) ==
    /\ request[t] = "posted" /\ t \in answered
    /\ request' = [request EXCEPT ![t] = "settled"]
    /\ UNCHANGED <<made, object, subscribed, inbox, answered>>

ServiceStep(t) == Produce(t) \/ Answer(t) \/ Settle(t)

\* The other side: it posts, listens and stops listening.
ClientStep(t) ==
    \/ Post(t) /\ subscribed' \in {subscribed, subscribed \cup {t}}
    \/ Unsubscribe(t) /\ UNCHANGED <<request, made, object, answered>>

ServiceSpec == ServiceInit /\ [][\E t \in Tasks : ServiceStep(t) \/ ClientStep(t)]_service
=============================================================================
