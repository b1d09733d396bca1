------------------------------ MODULE Delivery ------------------------------
(***************************************************************************)
(* How messages reach consumers: channel, channel_manager, connection and  *)
(* consumer_manager of the broker (mqserver/channel.hpp, connection.hpp,   *)
(* consumer.hpp), run by two threads.                                      *)
(*                                                                         *)
(* The thread of the event loop runs one request handler at a time; the    *)
(* one thread of the pool runs channel::consume for each task pushed by    *)
(* basic_publish.  A handler is one action, except where the worker can    *)
(* see the broker between two of its steps.  Task and callback hold a raw  *)
(* pointer to a channel that the event loop may have destroyed: what the   *)
(* worker does then is any of what the build can do with freed memory.     *)
(*                                                                         *)
(* Messages of a queue are numbered from 1 in the order of insertion.      *)
(***************************************************************************)
EXTENDS Naturals, Sequences, FiniteSets, SequencesExt

CONSTANTS
    Channels,     \* channel objects; a channel that is opened again is another object
    Connections,
    Queues,
    Tags,         \* consumer tags
    ConnOf,       \* the connection of each channel
    TagOf,        \* the tag each channel subscribes with
    NoQueue,
    Durable,      \* queues declared durable
    Persistent,   \* numbers of the messages whose publishers ask for persistence
    Closing,      \* whether clients close channels, lose connections and cancel
    Restarting,   \* whether the broker dies and is started again
    MaxMsgs       \* bound: messages inserted into a queue

ASSUME DeliveryAssumption ==
    /\ ConnOf \in [Channels -> Connections]
    /\ TagOf \in [Channels -> Tags]
    /\ NoQueue \notin Queues
    /\ Durable \subseteq Queues /\ Persistent \subseteq Nat
    /\ Closing \in BOOLEAN /\ Restarting \in BOOLEAN
    /\ MaxMsgs \in Nat

VARIABLES
    alive,     \* the broker process has not died
    lost,      \* connections that are gone
    chan,      \* life of each channel
    own,       \* the queue of __consumer of the broker's channel, NoQueue if it is null
    busy,      \* the queue of __consumer of the client's channel, NoQueue if it is null
    stores,    \* queues of the virtual host, each with its queue_message
    lists,     \* queues that have a queue_consumer
    consumers, \* __consumers of each queue_consumer
    rr,        \* __rr_seq
    ready, unacked, last,  \* each queue's messages, and the last number given
    tasks,     \* __task_queue of the pool
    io,        \* the handler the event loop is in
    wk,        \* the task the worker is in
    \* history, of the present life of the broker
    subs,      \* channels told that they are subscribed, until they cancel or close or the queue goes
    pushed,    \* per queue: numbers and channels, in the order they were sent
    recovered, \* per queue: how many messages this life began with
    turns      \* per queue: channels chosen since its list of consumers changed

channels == <<lost, chan, own, busy, subs>>
queues == <<stores, lists>>
subscriptions == <<consumers, rr, turns>>
messages == <<ready, unacked, last, recovered>>
vars == <<alive, channels, queues, subscriptions, messages, tasks, io, wk, pushed>>

Consumer == [tag : Tags, chan : Channels, auto : BOOLEAN]
IoIdle == [pc |-> "idle", chan |-> NoQueue, q |-> NoQueue, todo |-> {}]
WkIdle == [pc |-> "idle", by |-> NoQueue, q |-> NoQueue, n |-> 0, to |-> NoQueue]

Open == {c \in Channels : chan[c] = "open"}
PushedNumbers(q) == {pushed[q][i].n : i \in DOMAIN pushed[q]}

Init ==
    /\ alive = TRUE /\ lost = {}
    /\ chan = [c \in Channels |-> "new"]
    /\ own = [c \in Channels |-> NoQueue] /\ busy = [c \in Channels |-> NoQueue]
    /\ stores = {} /\ lists = {}
    /\ consumers = [q \in Queues |-> <<>>] /\ rr = [q \in Queues |-> 0]
    /\ ready = [q \in Queues |-> <<>>] /\ unacked = [q \in Queues |-> {}]
    /\ last = [q \in Queues |-> 0]
    /\ tasks = <<>> /\ io = IoIdle /\ wk = WkIdle
    /\ subs = {} /\ pushed = [q \in Queues |-> <<>>]
    /\ turns = [q \in Queues |-> <<>>]
    /\ recovered = [q \in Queues |-> 0]

\* The event loop takes a request of channel c.
Request(c) == alive /\ io.pc = "idle" /\ c \in Open

-----------------------------------------------------------------------------
(* Channels and connections *)

OpenChannel(c) ==
    /\ alive /\ io.pc = "idle"
    /\ chan[c] = "new" /\ ConnOf[c] \notin lost
    /\ chan' = [chan EXCEPT ![c] = "open"]
    /\ UNCHANGED <<alive, lost, own, busy, subs, queues, subscriptions, messages, tasks, io, wk, pushed>>

\* The numbers of a finite set, in order.
Increasing(S) ==
    CHOOSE s \in [1..Cardinality(S) -> S] : \A i, j \in DOMAIN s : i < j => s[i] < s[j]

\* The list without the first consumer that has the tag, for each of the tags.
WithoutTags(list, tags) ==
    LET first == {i \in DOMAIN list :
                    list[i].tag \in tags /\ \A j \in 1..(i - 1) : list[j].tag /= list[i].tag}
        kept == Increasing(DOMAIN list \ first)
    IN [i \in DOMAIN kept |-> list[kept[i]]]

\* Fault: the destructor of a channel leaves its consumer.
WithAllChannels(closed, q) == consumers[q]

\* What the destructors of the channels in gone leave of queue q's consumers; each
\* removes the consumer it knows by tag and queue.
WithoutChannels(closed, q) ==
    IF q \in lists
    THEN WithoutTags(consumers[q], {TagOf[c] : c \in {d \in closed : own[d] = q}})
    ELSE consumers[q]

Changed(q) == consumers'[q] /= consumers[q]

Destroy(closed) ==
    /\ chan' = [c \in Channels |-> IF c \in closed THEN "closed" ELSE chan[c]]
    /\ own' = [c \in Channels |-> IF c \in closed THEN NoQueue ELSE own[c]]
    /\ busy' = [c \in Channels |-> IF c \in closed THEN NoQueue ELSE busy[c]]
    /\ subs' = subs \ closed
    /\ consumers' = [q \in Queues |-> WithoutChannels(closed, q)]
    /\ turns' = [q \in Queues |-> IF Changed(q) THEN <<>> ELSE turns[q]]
    /\ UNCHANGED <<alive, queues, rr, messages, tasks, io, wk, pushed>>

CloseChannel(c) ==
    /\ Closing
    /\ Request(c)
    /\ Destroy({c})
    /\ UNCHANGED lost

\* onConnection with a connection that is gone: delete_connection destroys its channels.
Disconnect(k) ==
    /\ Closing
    /\ alive /\ io.pc = "idle"
    /\ k \notin lost
    /\ lost' = lost \union {k}
    /\ Destroy({c \in Open : ConnOf[c] = k})

-----------------------------------------------------------------------------
(* Queues *)

\* Declaring a queue that exists changes nothing.
DeclareQueue(c, q) ==
    /\ Request(c)
    /\ q \notin stores
    /\ stores' = stores \union {q} /\ lists' = lists \union {q}
    /\ UNCHANGED <<alive, channels, subscriptions, messages, tasks, io, wk, pushed>>

\* Fault: destroy_queue_consumer empties the list and leaves it in the map.
DeleteConsumersKeepsList(c, q) ==
    /\ Request(c)
    /\ q \in stores
    /\ lists' = lists
    /\ consumers' = [consumers EXCEPT ![q] = <<>>] /\ rr' = [rr EXCEPT ![q] = 0]
    /\ turns' = [turns EXCEPT ![q] = <<>>]
    /\ subs' = {d \in subs : busy[d] /= q}
    /\ io' = [IoIdle EXCEPT !.pc = "delete", !.q = q]
    /\ UNCHANGED <<alive, lost, chan, own, busy, stores, messages, tasks, wk, pushed>>

\* delete_queue first destroys the queue_consumer ...
DeleteConsumers(c, q) ==
    /\ Request(c)
    /\ q \in stores
    /\ lists' = lists \ {q}
    /\ consumers' = [consumers EXCEPT ![q] = <<>>] /\ rr' = [rr EXCEPT ![q] = 0]
    /\ turns' = [turns EXCEPT ![q] = <<>>]
    /\ subs' = {d \in subs : busy[d] /= q}
    /\ io' = [IoIdle EXCEPT !.pc = "delete", !.q = q]
    /\ UNCHANGED <<alive, lost, chan, own, busy, stores, messages, tasks, wk, pushed>>

\* ... and then the messages, the bindings and the queue.
DeleteMessages ==
    /\ alive /\ io.pc = "delete"
    /\ stores' = stores \ {io.q}
    /\ ready' = [ready EXCEPT ![io.q] = <<>>] /\ unacked' = [unacked EXCEPT ![io.q] = {}]
    /\ io' = IoIdle
    /\ UNCHANGED <<alive, channels, lists, subscriptions, last, recovered, tasks, wk, pushed>>

-----------------------------------------------------------------------------
(* Publishing and acknowledging *)

\* The exchange's bindings route the message to the queues of todo, in some order.
Publish(c, todo) ==
    /\ Request(c)
    /\ todo \subseteq stores /\ todo /= {}
    /\ \A q \in todo : last[q] < MaxMsgs
    /\ io' = [pc |-> "insert", chan |-> c, q |-> NoQueue, todo |-> todo]
    /\ UNCHANGED <<alive, channels, queues, subscriptions, messages, tasks, wk, pushed>>

\* Fault: push_front instead of push_back.
InsertInFront(q) ==
    /\ alive /\ io.pc = "insert"
    /\ q \in io.todo
    /\ last' = [last EXCEPT ![q] = @ + 1]
    /\ ready' = [ready EXCEPT ![q] = <<last[q] + 1>> \o @]
    /\ io' = [io EXCEPT !.pc = "push", !.q = q]
    /\ UNCHANGED <<alive, channels, queues, subscriptions, unacked, recovered, tasks, wk, pushed>>

\* The message enters one of the queues ...
InsertMessage(q) ==
    /\ alive /\ io.pc = "insert"
    /\ q \in io.todo
    /\ last' = [last EXCEPT ![q] = @ + 1]
    /\ ready' = [ready EXCEPT ![q] = Append(@, last[q] + 1)]
    /\ io' = [io EXCEPT !.pc = "push", !.q = q]
    /\ UNCHANGED <<alive, channels, queues, subscriptions, unacked, recovered, tasks, wk, pushed>>

\* Fault: a task is pushed only if the pool has none.
PushTaskIfNone ==
    /\ alive /\ io.pc = "push"
    /\ tasks' = IF tasks = <<>> THEN <<[chan |-> io.chan, q |-> io.q]>> ELSE tasks
    /\ io' = IF io.todo = {io.q} THEN IoIdle
             ELSE [io EXCEPT !.pc = "insert", !.q = NoQueue, !.todo = @ \ {io.q}]
    /\ UNCHANGED <<alive, channels, queues, subscriptions, messages, wk, pushed>>

\* ... and then a task for that queue enters the pool.
PushTask ==
    /\ alive /\ io.pc = "push"
    /\ tasks' = Append(tasks, [chan |-> io.chan, q |-> io.q])
    /\ io' = IF io.todo = {io.q} THEN IoIdle
             ELSE [io EXCEPT !.pc = "insert", !.q = NoQueue, !.todo = @ \ {io.q}]
    /\ UNCHANGED <<alive, channels, queues, subscriptions, messages, wk, pushed>>

\* queue_message::remove: only a message that waits for it is deleted.
Acknowledge(q, n) == unacked' = [unacked EXCEPT ![q] = @ \ {n}]

\* basic_ack deletes the message of any queue, whoever it was sent to and if it was sent at
\* all; the number of a message that does not wait changes nothing.
Ack(c, q, n) ==
    /\ Request(c)
    /\ n \in unacked[q]
    /\ Acknowledge(q, n)
    /\ UNCHANGED <<alive, channels, queues, subscriptions, ready, last, recovered, tasks, io, wk, pushed>>

-----------------------------------------------------------------------------
(* Subscribing *)

\* queue_consumer::create refuses a tag that is taken; basic_consume stores what it
\* returns in __consumer, null or not, and answers true.
Subscribe(c, q, auto) ==
    /\ Request(c)
    /\ busy[c] = NoQueue
    /\ q \in stores
    /\ LET free == \A i \in DOMAIN consumers[q] : consumers[q][i].tag /= TagOf[c]
           new == [tag |-> TagOf[c], chan |-> c, auto |-> auto]
       IN /\ consumers' = [consumers EXCEPT ![q] = IF free THEN Append(@, new) ELSE @]
          /\ own' = [own EXCEPT ![c] = IF free THEN q ELSE NoQueue]
    /\ busy' = [busy EXCEPT ![c] = q] /\ subs' = subs \union {c}
    /\ turns' = [turns EXCEPT ![q] = IF Changed(q) THEN <<>> ELSE @]
    /\ UNCHANGED <<alive, lost, chan, queues, rr, messages, tasks, io, wk, pushed>>

\* basic_cancel removes by tag and queue, and leaves __consumer of the broker's channel.
Cancel(c) ==
    /\ Closing
    /\ Request(c)
    /\ busy[c] /= NoQueue
    /\ LET q == busy[c]
       IN /\ consumers' = IF q \in lists
                          THEN [consumers EXCEPT ![q] = WithoutTags(@, {TagOf[c]})]
                          ELSE consumers
          /\ turns' = [turns EXCEPT ![q] = IF Changed(q) THEN <<>> ELSE @]
    /\ busy' = [busy EXCEPT ![c] = NoQueue] /\ subs' = subs \ {c}
    /\ UNCHANGED <<alive, lost, chan, own, queues, rr, messages, tasks, io, wk, pushed>>

-----------------------------------------------------------------------------
(* channel::consume, run by the worker *)

Dangling(c) == chan[c] /= "open"

\* The channel whose members the worker reads in its next step has been destroyed.
UsesFreed ==
    \/ wk.pc = "idle" /\ tasks /= <<>> /\ Dangling(Head(tasks).chan)
    \/ wk.pc \in {"choose", "ack"} /\ Dangling(wk.by)
    \/ wk.pc = "call" /\ Dangling(wk.to.chan)

\* The process may die of it; otherwise the worker goes on with what the memory holds.
WorkerDies ==
    /\ alive /\ UsesFreed
    /\ alive' = FALSE
    /\ UNCHANGED <<channels, queues, subscriptions, messages, tasks, io, wk, pushed>>

\* Fault: the message taken out does not wait for an acknowledgement.
PopForgets ==
    /\ alive /\ wk.pc = "idle" /\ tasks /= <<>>
    /\ tasks' = Tail(tasks)
    /\ LET q == Head(tasks).q
       IN IF ready[q] = <<>>
          THEN UNCHANGED <<ready, unacked, wk>>
          ELSE /\ ready' = [ready EXCEPT ![q] = Tail(@)]
               /\ unacked' = [unacked EXCEPT ![q] = @]
               /\ wk' = [pc |-> "choose", by |-> Head(tasks).chan, q |-> q, n |-> Head(ready[q]), to |-> NoQueue]
    /\ UNCHANGED <<alive, channels, queues, subscriptions, last, recovered, io, pushed>>

\* Fault: the worker waits until there are two tasks.
PopLeavesOne ==
    /\ alive /\ wk.pc = "idle" /\ Len(tasks) > 1
    /\ tasks' = Tail(tasks)
    /\ LET q == Head(tasks).q
       IN IF ready[q] = <<>>
          THEN UNCHANGED <<ready, unacked, wk>>
          ELSE /\ ready' = [ready EXCEPT ![q] = Tail(@)]
               /\ unacked' = [unacked EXCEPT ![q] = @ \union {Head(ready[q])}]
               /\ wk' = [pc |-> "choose", by |-> Head(tasks).chan, q |-> q, n |-> Head(ready[q]), to |-> NoQueue]
    /\ UNCHANGED <<alive, channels, queues, subscriptions, last, recovered, io, pushed>>

\* The first message of the task's queue, if there is one, waits for an acknowledgement.
Pop ==
    /\ alive /\ wk.pc = "idle" /\ tasks /= <<>>
    /\ tasks' = Tail(tasks)
    /\ LET q == Head(tasks).q
       IN IF ready[q] = <<>>
          THEN UNCHANGED <<ready, unacked, wk>>
          ELSE /\ ready' = [ready EXCEPT ![q] = Tail(@)]
               /\ unacked' = [unacked EXCEPT ![q] = @ \union {Head(ready[q])}]
               /\ wk' = [pc |-> "choose", by |-> Head(tasks).chan, q |-> q, n |-> Head(ready[q]), to |-> NoQueue]
    /\ UNCHANGED <<alive, channels, queues, subscriptions, last, recovered, io, pushed>>

\* Fault: __rr_seq does not advance.
ChooseFirst ==
    /\ alive /\ wk.pc = "choose"
    /\ LET q == wk.q
           idx == (rr[q] % Len(consumers[q])) + 1
       IN IF q \notin lists \/ consumers[q] = <<>>
          THEN /\ wk' = WkIdle
               /\ UNCHANGED subscriptions
          ELSE /\ wk' = [wk EXCEPT !.pc = "call", !.to = consumers[q][idx]]
               /\ rr' = rr
               /\ turns' = [turns EXCEPT ![q] = Append(@, consumers[q][idx].chan)]
               /\ UNCHANGED consumers
    /\ UNCHANGED <<alive, channels, queues, messages, tasks, io, pushed>>

\* consumer_manager::choose.  The manager is unlocked between finding the queue_consumer
\* and rr_choose; a queue_consumer destroyed in between keeps its consumers, so the
\* choice might as well have been made before.
Choose ==
    /\ alive /\ wk.pc = "choose"
    /\ LET q == wk.q
           idx == (rr[q] % Len(consumers[q])) + 1
       IN IF q \notin lists \/ consumers[q] = <<>>
          THEN /\ wk' = WkIdle
               /\ UNCHANGED subscriptions
          ELSE /\ wk' = [wk EXCEPT !.pc = "call", !.to = consumers[q][idx]]
               /\ rr' = [rr EXCEPT ![q] = @ + 1]
               /\ turns' = [turns EXCEPT ![q] = Append(@, consumers[q][idx].chan)]
               /\ UNCHANGED consumers
    /\ UNCHANGED <<alive, channels, queues, messages, tasks, io, pushed>>

\* Fault: every message is acknowledged when it is sent.
CallbackAlwaysAcks ==
    /\ alive /\ wk.pc = "call"
    /\ \/ pushed' = [pushed EXCEPT ![wk.q] = Append(@, [n |-> wk.n, to |-> wk.to.chan])]
       \/ Dangling(wk.to.chan) /\ UNCHANGED pushed
    /\ wk' = [wk EXCEPT !.pc = "ack"]
    /\ UNCHANGED <<alive, channels, queues, subscriptions, messages, tasks, io>>

\* Fault: the message is not always sent.
CallbackMaySkip ==
    /\ alive /\ wk.pc = "call"
    /\ \/ pushed' = [pushed EXCEPT ![wk.q] = Append(@, [n |-> wk.n, to |-> wk.to.chan])]
       \/ UNCHANGED pushed
    /\ wk' = IF wk.to.auto THEN [wk EXCEPT !.pc = "ack"] ELSE WkIdle
    /\ UNCHANGED <<alive, channels, queues, subscriptions, messages, tasks, io>>

\* The consumer's callback sends the message on its channel's connection.  If that
\* channel is destroyed the message may be sent or not.
Callback ==
    /\ alive /\ wk.pc = "call"
    /\ \/ pushed' = [pushed EXCEPT ![wk.q] = Append(@, [n |-> wk.n, to |-> wk.to.chan])]
       \/ Dangling(wk.to.chan) /\ UNCHANGED pushed
    /\ wk' = IF wk.to.auto THEN [wk EXCEPT !.pc = "ack"] ELSE WkIdle
    /\ UNCHANGED <<alive, channels, queues, subscriptions, messages, tasks, io>>

AutoAck ==
    /\ alive /\ wk.pc = "ack"
    /\ Acknowledge(wk.q, wk.n)
    /\ wk' = WkIdle
    /\ UNCHANGED <<alive, channels, queues, subscriptions, ready, last, recovered, tasks, io, pushed>>

-----------------------------------------------------------------------------
(* The broker dies, between any two steps of its threads, and is started again *)

Die ==
    /\ Restarting /\ alive
    /\ alive' = FALSE
    /\ UNCHANGED <<channels, queues, subscriptions, messages, tasks, io, wk, pushed>>

\* What recovery() finds in the file of a queue's messages, and in no file at all.
Stored(q) == IF q \in Durable \intersect stores THEN (ToSet(ready[q]) \union unacked[q]) \intersect Persistent ELSE {}

\* Fault: the messages that waited for an acknowledgement come last.
StoredInOrder_unacked_last(q) ==
    Increasing(Stored(q) \ unacked[q]) \o Increasing(Stored(q) \intersect unacked[q])

StoredInOrder(q) == Increasing(Stored(q))

\* Every connection was lost with the process.  The constructors read the durable queues
\* and their messages back, and make an empty list of consumers for each queue.  There is
\* no task for what they have read.
Restart ==
    /\ Restarting /\ ~alive
    /\ alive' = TRUE
    /\ LET had == {c \in Channels : chan[c] /= "new"}
       IN /\ lost' = lost \union {ConnOf[c] : c \in had}
          /\ chan' = [c \in Channels |-> IF c \in had THEN "closed" ELSE "new"]
    /\ own' = [c \in Channels |-> NoQueue] /\ busy' = [c \in Channels |-> NoQueue] /\ subs' = {}
    /\ stores' = stores \intersect Durable /\ lists' = stores'
    /\ consumers' = [q \in Queues |-> <<>>] /\ rr' = [q \in Queues |-> 0] /\ turns' = [q \in Queues |-> <<>>]
    /\ ready' = [q \in Queues |-> StoredInOrder(q)] /\ unacked' = [q \in Queues |-> {}]
    /\ recovered' = [q \in Queues |-> Cardinality(Stored(q))]
    /\ pushed' = [q \in Queues |-> <<>>]
    /\ tasks' = <<>> /\ io' = IoIdle /\ wk' = WkIdle
    /\ UNCHANGED last

-----------------------------------------------------------------------------

Client(c) ==
    \/ OpenChannel(c) \/ CloseChannel(c) \/ Cancel(c)
    \/ \E q \in Queues : DeclareQueue(c, q) \/ (Closing /\ DeleteConsumers(c, q))
    \/ \E todo \in SUBSET Queues : Publish(c, todo)
    \/ \E q \in Queues, n \in 1..MaxMsgs : Ack(c, q, n)
    \/ \E q \in Queues, auto \in BOOLEAN : Subscribe(c, q, auto)

\* The rest of a handler that has begun.
Handler == DeleteMessages \/ PushTask \/ \E q \in Queues : InsertMessage(q)

Worker == Pop \/ Choose \/ Callback \/ AutoAck

Next ==
    \/ \E c \in Channels : Client(c)
    \/ \E k \in Connections : Disconnect(k)
    \/ Handler
    \/ Worker
    \/ WorkerDies
    \/ Die
    \/ Restart

Spec == Init /\ [][Next]_vars

\* The event loop finishes a handler, and the thread of the pool runs.
Fairness == WF_vars(Handler) /\ WF_vars(Worker)

FairSpec == Spec /\ Fairness
=============================================================================
