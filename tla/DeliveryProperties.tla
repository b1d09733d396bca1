------------------------ MODULE DeliveryProperties ------------------------
(* What must be true of the delivery of messages to consumers. *)
EXTENDS Delivery

\* Type correctness of the channels, the consumer lists, the pool and the event loop.
TypeOK ==
    /\ alive \in BOOLEAN /\ lost \subseteq Connections
    /\ chan \in [Channels -> {"new", "open", "closed"}]
    /\ own \in [Channels -> Queues \union {NoQueue}]
    /\ busy \in [Channels -> Queues \union {NoQueue}]
    /\ stores \subseteq Queues /\ lists \subseteq stores
    /\ consumers \in [Queues -> Seq(Consumer)] /\ rr \in [Queues -> Nat]
    /\ ready \in [Queues -> Seq(1..MaxMsgs)] /\ unacked \in [Queues -> SUBSET (1..MaxMsgs)]
    /\ last \in [Queues -> 0..MaxMsgs]
    /\ tasks \in Seq([chan : Channels, q : Queues])
    /\ io.pc \in {"idle", "insert", "push", "delete"}
    /\ wk.pc \in {"idle", "choose", "call", "ack"}
    /\ subs \subseteq Open
    /\ recovered \in [Queues -> 0..MaxMsgs]

-----------------------------------------------------------------------------
(* Invariants *)

TasksFor(q) == Cardinality({i \in DOMAIN tasks : tasks[i].q = q})
BeingPushed(q) == IF io.pc = "push" /\ io.q = q THEN 1 ELSE 0

\* basic_publish and channel::consume: no message stays in a queue without a task that
\* will take it out, though a task pops whatever is first and not its own message.  What a
\* restart has found has no tasks, so as many messages as that may stay.
NoStrandedReady == \A q \in Queues : Len(ready[q]) <= TasksFor(q) + BeingPushed(q) + recovered[q]

\* Between two starts of the broker each queue's messages, recovered or new, are sent in the
\* order they were published, each at most once and to one consumer (recovery, front,
\* rr_choose and the single thread of the pool).
PushedInOrder ==
    \A q \in Queues : \A i, j \in DOMAIN pushed[q] : i < j => pushed[q][i].n < pushed[q][j].n

\* docs/work-en.md:1001, README.md:345: the consumers of a queue are the channels that
\* were told they are subscribed to it and have not cancelled or closed, each once.
SubscriptionsExact ==
    \A q \in lists :
        /\ {consumers[q][i].chan : i \in DOMAIN consumers[q]} = {c \in subs : busy[c] = q}
        /\ \A i, j \in DOMAIN consumers[q] :
              consumers[q][i].chan = consumers[q][j].chan => i = j

\* rr_choose: while a queue's consumers stay the same, none is chosen twice before every
\* other one has been chosen.
RoundRobin ==
    \A q \in Queues : \A i, j \in DOMAIN turns[q] :
        i < j /\ j - i < Len(consumers[q]) => turns[q][i] /= turns[q][j]

\* mqclient/channel.hpp:46: a client may release a channel in any state, because the
\* broker releases everything that belongs to it.
NothingDangles == ~UsesFreed

-----------------------------------------------------------------------------
(* Actions *)

\* README.md:303-304: a message that waits for its acknowledgement goes only with its queue,
\* by the automatic response of the consumer it was chosen for, or by a request that does
\* nothing else: closing, losing a connection, cancelling, subscribing and every other step
\* of the worker leave it.  A restart makes it ready again, unless message or queue was not
\* to survive.
ManualAckOnly ==
    [][\A q \in Queues : \A n \in unacked[q] \ (unacked'[q] \union ToSet(ready'[q])) :
          \/ io.pc = "delete" /\ io.q = q
          \/ ~alive /\ ~(q \in Durable /\ n \in Persistent)
          \/ wk.pc = "ack" /\ wk.to.auto /\ wk.q = q /\ wk.n = n /\ wk' = WkIdle
          \/ Open /= {} /\ UNCHANGED <<channels, queues, subscriptions, tasks, io, wk, pushed>>]_vars

-----------------------------------------------------------------------------
(* Liveness *)

\* Every message of a queue is taken out by the worker in the end.
Drained == \A q \in Queues : ready[q] /= <<>> ~> ready[q] = <<>> \/ ~alive

Waiting(c, n) ==
    /\ c \in subs
    /\ n \in unacked[busy[c]] \ PushedNumbers(busy[c])

\* README.md:345: once the queue of a subscribed client has a message, it is pushed.
EveryMessagePushed ==
    \A c \in Channels, n \in 1..MaxMsgs : Waiting(c, n) ~> ~alive \/ ~Waiting(c, n)

-----------------------------------------------------------------------------
(* Refinement: each queue, with its consumers and its worker, is a MessageQueue. *)

Queue(q) == INSTANCE MessageQueue WITH
    ready <- ToSet(ready[q]),
    unacked <- unacked[q],
    persistent <- IF q \in Durable THEN Persistent \intersect 1..last[q] ELSE {},
    last <- last[q]

\* Channels, consumers, worker and restarts together keep the promise of message.hpp for
\* every queue, that is \A q \in Queues : Queue(q)!Spec in the form TLC evaluates.
QueuesKeepPromise ==
    /\ \A q \in Queues : Queue(q)!Init
    /\ [][\A q \in Queues : [Queue(q)!Next]_(Queue(q)!vars)]_vars
=============================================================================
