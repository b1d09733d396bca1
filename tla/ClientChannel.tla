---------------------------- MODULE ClientChannel ----------------------------
(***************************************************************************)
(* The client library (mqclient/connection.hpp, channel.hpp): one          *)
(* connection with one channel, used by three threads.  The caller sends   *)
(* requests and waits for their answers, the thread of the event loop      *)
(* files the answers and hands pushed messages to the pool, and the thread *)
(* of the pool runs the consumer's callback, which acknowledges and so     *)
(* waits for an answer too.                                                *)
(*                                                                         *)
(* The broker is what src/HareMQ/mqserver does with one channel: a request *)
(* is answered, or not at all if its channel is unknown.  The thread of    *)
(* its pool chooses the consumer of a message and leaves the sending to    *)
(* the event loop, which may first handle requests and answer them.  The   *)
(* connection keeps order each way.  Request ids (uuids) and consumer tags *)
(* are numbers.                                                            *)
(***************************************************************************)
EXTENDS Naturals, Sequences, FiniteSets, SequencesExt

CONSTANTS
    Closing,   \* whether the caller closes the channel and drops it
    Manual,    \* whether the callback acknowledges
    Losing,    \* whether the connection may be lost
    MaxCalls,  \* bound: requests
    MaxMsgs,   \* bound: messages pushed
    MaxTags    \* bound: consumer tags

ASSUME ClientAssumption ==
    /\ Closing \in BOOLEAN /\ Manual \in BOOLEAN /\ Losing \in BOOLEAN
    /\ MaxCalls \in Nat /\ MaxMsgs \in Nat /\ MaxTags \in Nat

VARIABLES
    alive,      \* the client process has not died
    connected,  \* the connection has not been lost
    latch,      \* __latch has been counted down
    conn,       \* __conn is set
    caller,     \* what the caller does: its call and the id it waits for
    worker,     \* what the thread of the pool does
    sent,       \* the last request id
    registered, \* channel_manager knows the channel
    consumer,   \* the tag of __consumer, 0 if it is null
    answers,    \* __basic_resp and __basic_query_resp: ids and whether the broker said ok
    tasks,      \* __task_queue of the pool: messages, and whether their channel was found
    toBroker, toClient, \* the connection, each way
    opened, pending, \* the broker: it has the channel; the answer it owes
    subscribed, \* the broker: the tag of the channel's consumer in the queue's list, or 0
    outgoing,   \* the broker: messages the pool has given to a consumer and not yet sent
    taken,      \* history: the tag of the consumer that others took out of the list, or 0
    ended,      \* history: messages chosen when a subscription last ended
    last,       \* history: messages chosen
    called,     \* history: messages the callback was called with, in order
    missed,     \* history: messages that found no consumer
    acked       \* history: messages acknowledged, in the order the broker learns of it

client == <<latch, conn, sent, registered, consumer, answers, tasks>>
wire == <<toBroker, toClient>>
broker == <<opened, subscribed, pending, outgoing, taken, ended, last, acked>>
vars == <<alive, connected, client, caller, worker, wire, broker, called, missed>>

NoAnswer == [id |-> 0, ok |-> FALSE, of |-> "none"]
Ready == [pc |-> "ready", call |-> "none", id |-> 0, n |-> 0]
Calls == {"open", "declare", "delete", "query", "consume", "cancel", "close"}

\* The map an answer is filed in: a query has one of its own.
MapOf(call) == IF call = "query" THEN "query" ELSE "common"

\* A request reaches the broker, or goes nowhere if the connection is lost.
Sent(request) == IF connected THEN Append(toBroker, request) ELSE toBroker

Init ==
    /\ alive = TRUE /\ connected = TRUE /\ latch = FALSE /\ conn = FALSE
    /\ caller = [Ready EXCEPT !.pc = "connecting"] /\ worker = Ready
    /\ sent = 0 /\ registered = FALSE /\ consumer = 0
    /\ answers = {} /\ tasks = <<>>
    /\ toBroker = <<>> /\ toClient = <<>>
    /\ opened = FALSE /\ subscribed = 0 /\ pending = NoAnswer
    /\ outgoing = <<>> /\ taken = 0 /\ ended = 0
    /\ last = 0 /\ called = <<>> /\ missed = {} /\ acked = <<>>

-----------------------------------------------------------------------------
(* Connecting: onConnection counts the latch down before it sets __conn.   *)

CountDown ==
    /\ alive /\ ~latch
    /\ latch' = TRUE
    /\ UNCHANGED <<alive, connected, conn, sent, registered, consumer, answers, tasks, caller, worker, wire, broker, called, missed>>

SetConnection ==
    /\ alive /\ latch /\ ~conn
    /\ conn' = TRUE
    /\ UNCHANGED <<alive, connected, latch, sent, registered, consumer, answers, tasks, caller, worker, wire, broker, called, missed>>

\* The constructor returns and openChannel makes a channel with a copy of __conn: if that
\* is null, the send that follows dereferences it.
OpenChannel ==
    /\ alive /\ latch /\ caller.pc = "connecting"
    /\ registered' = TRUE
    /\ alive' = conn
    /\ IF conn
       THEN /\ sent' = sent + 1
            /\ toBroker' = Sent([call |-> "open", id |-> sent + 1, n |-> 0])
            /\ caller' = [pc |-> "waiting", call |-> "open", id |-> sent + 1, n |-> 0]
       ELSE UNCHANGED <<sent, toBroker, caller>>
    /\ UNCHANGED <<connected, latch, conn, consumer, answers, tasks, worker, toClient, broker, called, missed>>

-----------------------------------------------------------------------------
(* Calls: send a request, wait for its answer, return. *)

\* Fault: the next request will have the same id.
RequestOldId(call, n) ==
    /\ sent < MaxCalls
    /\ sent' = sent
    /\ toBroker' = Sent([call |-> call, id |-> sent + 1, n |-> n])

Request(call, n) ==
    /\ sent < MaxCalls
    /\ sent' = sent + 1
    /\ toBroker' = Sent([call |-> call, id |-> sent + 1, n |-> n])

\* Fault: the channel is forgotten before the close is answered.
CallClosesFirst(call, tag) ==
    /\ alive /\ caller.pc = "ready"
    /\ call = "consume" => consumer = 0
    /\ call = "cancel" => consumer /= 0
    /\ call = "close" => Closing
    /\ tag \in IF call = "consume" THEN 1..MaxTags ELSE {0}
    /\ Request(call, tag)
    /\ caller' = [pc |-> "waiting", call |-> call, id |-> sent + 1, n |-> tag]
    /\ registered' = (registered /\ call /= "close")
    /\ UNCHANGED <<alive, connected, latch, conn, consumer, answers, tasks, worker, toClient, broker, called, missed>>

\* Fault: __consumer is reset before the cancellation is answered.
CallResetsFirst(call, tag) ==
    /\ alive /\ caller.pc = "ready"
    /\ call = "consume" => consumer = 0
    /\ call = "cancel" => consumer /= 0
    /\ call = "close" => Closing
    /\ tag \in IF call = "consume" THEN 1..MaxTags ELSE {0}
    /\ Request(call, tag)
    /\ caller' = [pc |-> "waiting", call |-> call, id |-> sent + 1, n |-> tag]
    /\ consumer' = IF call = "cancel" THEN 0 ELSE consumer
    /\ UNCHANGED <<alive, connected, latch, conn, registered, answers, tasks, worker, toClient, broker, called, missed>>

\* A channel is subscribed once and cancels what it has; nothing asks if it is still open.
Call(call, tag) ==
    /\ alive /\ caller.pc = "ready"
    /\ call = "consume" => consumer = 0
    /\ call = "cancel" => consumer /= 0
    /\ call = "close" => Closing
    /\ tag \in IF call = "consume" THEN 1..MaxTags ELSE {0}
    /\ Request(call, tag)
    /\ caller' = [pc |-> "waiting", call |-> call, id |-> sent + 1, n |-> tag]
    /\ UNCHANGED <<alive, connected, latch, conn, registered, consumer, answers, tasks, worker, toClient, broker, called, missed>>

\* The last pointer to a closed channel goes, when no task or callback has one: the
\* destructor cancels what __consumer still says.
Drop ==
    /\ alive /\ caller.pc = "ready"
    /\ sent > 0 /\ ~registered
    /\ (\A i \in DOMAIN tasks : ~tasks[i].known) /\ worker.pc = "ready"
    /\ IF consumer /= 0
       THEN /\ Request("cancel", 0)
            /\ caller' = [pc |-> "waiting", call |-> "drop", id |-> sent + 1, n |-> 0]
       ELSE /\ caller' = [Ready EXCEPT !.pc = "dropped"]
            /\ UNCHANGED <<sent, toBroker>>
    /\ UNCHANGED <<alive, connected, latch, conn, registered, consumer, answers, tasks, worker, toClient, broker, called, missed>>

\* Fault: an answer that was read stays in the map.
ReturnKeepsAnswer ==
    /\ alive /\ caller.pc = "waiting"
    /\ \E a \in answers :
         /\ a.id = caller.id /\ a.of = MapOf(caller.call)
         /\ answers' = answers
         /\ consumer' = CASE caller.call = "consume" -> IF a.ok THEN caller.n ELSE 0
                          [] caller.call \in {"cancel", "drop"} -> 0
                          [] OTHER -> consumer
    /\ registered' = (registered /\ caller.call /= "close")
    /\ caller' = [Ready EXCEPT !.pc = IF caller.call = "drop" THEN "dropped" ELSE "ready"]
    /\ UNCHANGED <<alive, connected, latch, conn, sent, tasks, worker, wire, broker, called, missed>>

\* Fault: a cancellation does not reset __consumer.
ReturnKeepsConsumer ==
    /\ alive /\ caller.pc = "waiting"
    /\ \E a \in answers :
         /\ a.id = caller.id /\ a.of = MapOf(caller.call)
         /\ answers' = answers \ {a}
         /\ consumer' = CASE caller.call = "consume" -> IF a.ok THEN caller.n ELSE 0
                          [] caller.call \in {"drop"} -> 0
                          [] OTHER -> consumer
    /\ registered' = (registered /\ caller.call /= "close")
    /\ caller' = [Ready EXCEPT !.pc = IF caller.call = "drop" THEN "dropped" ELSE "ready"]
    /\ UNCHANGED <<alive, connected, latch, conn, sent, tasks, worker, wire, broker, called, missed>>

\* wait_response finds the answer to its own request.
Return ==
    /\ alive /\ caller.pc = "waiting"
    /\ \E a \in answers :
         /\ a.id = caller.id /\ a.of = MapOf(caller.call)
         /\ answers' = answers \ {a}
         /\ consumer' = CASE caller.call = "consume" -> IF a.ok THEN caller.n ELSE 0
                          [] caller.call \in {"cancel", "drop"} -> 0
                          [] OTHER -> consumer
    /\ registered' = (registered /\ caller.call /= "close")
    /\ caller' = [Ready EXCEPT !.pc = IF caller.call = "drop" THEN "dropped" ELSE "ready"]
    /\ UNCHANGED <<alive, connected, latch, conn, sent, tasks, worker, wire, broker, called, missed>>

-----------------------------------------------------------------------------
(* The thread of the event loop *)

\* Fault: there is room for one answer, and a new one replaces it.
ReceiveIntoOneSlot ==
    /\ alive /\ toClient /= <<>>
    /\ LET m == Head(toClient)
       IN /\ answers' = IF m.kind = "answer" /\ registered THEN {m.answer} ELSE answers
          /\ tasks' = IF m.kind = "message" THEN Append(tasks, [n |-> m.n, tag |-> m.tag, known |-> registered]) ELSE tasks
    /\ toClient' = Tail(toClient)
    /\ UNCHANGED <<alive, connected, latch, conn, sent, registered, consumer, caller, worker, toBroker, broker, called, missed>>

\* An answer is filed with its channel, if that is known; a message becomes a task, with
\* what was found of its channel.
Receive ==
    /\ alive /\ toClient /= <<>>
    /\ LET m == Head(toClient)
       IN /\ answers' = IF m.kind = "answer" /\ registered THEN answers \union {m.answer} ELSE answers
          /\ tasks' = IF m.kind = "message" THEN Append(tasks, [n |-> m.n, tag |-> m.tag, known |-> registered]) ELSE tasks
    /\ toClient' = Tail(toClient)
    /\ UNCHANGED <<alive, connected, latch, conn, sent, registered, consumer, caller, worker, toBroker, broker, called, missed>>

-----------------------------------------------------------------------------
(* The thread of the pool *)

\* Fault: a task stays in the queue of the pool.
ConsumeTwice ==
    /\ alive /\ worker.pc = "ready" /\ tasks /= <<>> /\ Head(tasks).known
    /\ tasks' \in {tasks, Tail(tasks)}
    /\ LET m == Head(tasks)
       IN IF consumer = m.tag
          THEN /\ called' = Append(called, m.n)
               /\ worker' = [Ready EXCEPT !.pc = "callback", !.n = m.n]
               /\ UNCHANGED missed
          ELSE /\ missed' = missed \union {m.n}
               /\ UNCHANGED <<called, worker>>
    /\ UNCHANGED <<alive, connected, latch, conn, sent, registered, consumer, answers, caller, wire, broker>>

\* channel::consume reads __consumer without a lock, and drops the message if it is null or
\* has another tag.
Consume ==
    /\ alive /\ worker.pc = "ready" /\ tasks /= <<>> /\ Head(tasks).known
    /\ tasks' = Tail(tasks)
    /\ LET m == Head(tasks)
       IN IF consumer = m.tag
          THEN /\ called' = Append(called, m.n)
               /\ worker' = [Ready EXCEPT !.pc = "callback", !.n = m.n]
               /\ UNCHANGED missed
          ELSE /\ missed' = missed \union {m.n}
               /\ UNCHANGED <<called, worker>>
    /\ UNCHANGED <<alive, connected, latch, conn, sent, registered, consumer, answers, caller, wire, broker>>

\* The task calls a channel that was not found, through a null pointer.
ConsumeUnknown ==
    /\ alive /\ worker.pc = "ready" /\ tasks /= <<>> /\ ~Head(tasks).known
    /\ alive' = FALSE
    /\ UNCHANGED <<connected, client, caller, worker, wire, broker, called, missed>>

\* The callback acknowledges, unless __consumer has become null, and waits ...
Acknowledge ==
    /\ alive /\ worker.pc = "callback"
    /\ IF Manual /\ consumer /= 0
       THEN /\ Request("ack", worker.n)
            /\ worker' = [worker EXCEPT !.pc = "waiting", !.id = sent + 1]
       ELSE /\ worker' = Ready
            /\ UNCHANGED <<sent, toBroker>>
    /\ UNCHANGED <<alive, connected, latch, conn, registered, consumer, answers, tasks, caller, toClient, broker, called, missed>>

\* The caller's cancel has freed the consumer whose callback is running.
CallbackFreed ==
    /\ alive /\ worker.pc /= "ready" /\ consumer = 0
    /\ alive' = FALSE
    /\ UNCHANGED <<connected, client, caller, worker, wire, broker, called, missed>>

\* ... and ends.
CallbackEnds ==
    /\ alive /\ worker.pc = "waiting"
    /\ \E a \in answers : a.id = worker.id /\ a.of = "common" /\ answers' = answers \ {a}
    /\ worker' = Ready
    /\ UNCHANGED <<alive, connected, latch, conn, sent, registered, consumer, tasks, caller, wire, broker, called, missed>>

-----------------------------------------------------------------------------
(* The broker *)

\* The broker's consumer after a request: subscribed, unless there is no such queue; gone
\* with a cancellation or its channel; or with its queue, if that is the one deleted.
Subscription(m, ok, its) ==
    CASE m.call = "consume" /\ opened /\ ok -> m.n
      [] m.call \in {"cancel", "close"} \/ its -> 0
      [] OTHER -> subscribed

\* Only open and close are answered when the channel is unknown; a cancellation is answered
\* false.  The channel that is closed may be the one the thread of the pool is about to send
\* on: Delivery has what that can do, and here the message is sent or not.
BrokerHandles ==
    /\ pending = NoAnswer /\ toBroker /= <<>>
    /\ \E ok, its \in BOOLEAN : LET m == Head(toBroker)
       IN /\ m.call /= "consume" => ok = (m.call /= "cancel")
          /\ its => m.call = "delete" /\ subscribed /= 0
          /\ opened' = CASE m.call = "open" -> TRUE [] m.call = "close" -> FALSE [] OTHER -> opened
          /\ subscribed' = Subscription(m, ok, its)
          /\ taken' = CASE its -> subscribed [] m.call \in {"consume", "cancel", "close"} -> 0 [] OTHER -> taken
          /\ ended' = IF m.call \in {"cancel", "close"} THEN last ELSE ended
          /\ \/ UNCHANGED outgoing
             \/ m.call = "close" /\ outgoing /= <<>> /\ outgoing' = Front(outgoing)
          /\ acked' = IF m.call = "ack" /\ opened THEN Append(acked, m.n) ELSE acked
          /\ pending' = IF opened \/ m.call \in {"open", "close"} THEN [id |-> m.id, ok |-> ok, of |-> MapOf(m.call)] ELSE NoAnswer
    /\ toBroker' = Tail(toBroker)
    /\ UNCHANGED <<alive, connected, client, caller, worker, toClient, last, called, missed>>

BrokerAnswers ==
    /\ pending /= NoAnswer
    /\ toClient' = Append(toClient, [kind |-> "answer", answer |-> pending])
    /\ pending' = NoAnswer
    /\ UNCHANGED <<alive, connected, client, caller, worker, toBroker, opened, subscribed, outgoing, taken, ended, last, acked, called, missed>>

\* Another client deletes the queue, or cancels with the tag of this consumer.
OthersTake ==
    /\ pending = NoAnswer /\ subscribed /= 0
    /\ subscribed' = 0 /\ taken' = subscribed
    /\ UNCHANGED <<alive, connected, client, caller, worker, wire, opened, pending, outgoing, ended, last, acked, called, missed>>

\* The thread of the pool chooses the consumer; what its callback sends is queued ...
BrokerChooses ==
    /\ subscribed /= 0 /\ last < MaxMsgs
    /\ last' = last + 1
    /\ outgoing' = Append(outgoing, [n |-> last + 1, tag |-> subscribed])
    /\ UNCHANGED <<alive, connected, client, caller, worker, wire, opened, subscribed, pending, taken, ended, acked, called, missed>>

\* ... and written by the event loop, between two requests.
BrokerPushes ==
    /\ pending = NoAnswer /\ outgoing /= <<>>
    /\ toClient' = Append(toClient, [kind |-> "message", n |-> Head(outgoing).n, tag |-> Head(outgoing).tag])
    /\ outgoing' = Tail(outgoing)
    /\ UNCHANGED <<alive, connected, client, caller, worker, toBroker, opened, subscribed, pending, taken, ended, last, acked, called, missed>>

\* The connection is lost: what is on its way is, but for what the client has not read of
\* what reached it, and so is what the broker had for the connection.  onConnection of the
\* client only says so in the log.
Disconnect ==
    /\ Losing /\ conn /\ connected
    /\ connected' = FALSE
    /\ toBroker' = <<>>
    /\ toClient' \in {SubSeq(toClient, 1, n) : n \in 0..Len(toClient)}
    /\ opened' = FALSE /\ subscribed' = 0 /\ pending' = NoAnswer
    /\ outgoing' = <<>> /\ taken' = 0 /\ ended' = last
    /\ UNCHANGED <<alive, client, caller, worker, last, acked, called, missed>>

-----------------------------------------------------------------------------

Caller == OpenChannel \/ Return \/ Drop \/ \E call \in Calls \ {"open"}, tag \in 0..MaxTags : Call(call, tag)
Loop == CountDown \/ SetConnection \/ Receive
Pool == Consume \/ ConsumeUnknown \/ Acknowledge \/ CallbackEnds
Broker == BrokerHandles \/ BrokerAnswers \/ OthersTake \/ BrokerChooses \/ BrokerPushes

Next == Caller \/ Loop \/ Pool \/ CallbackFreed \/ Broker \/ Disconnect

Spec == Init /\ [][Next]_vars

\* Threads that can go on do; the broker handles and answers what reaches it.
Fairness ==
    /\ WF_vars(OpenChannel \/ Return) /\ WF_vars(Loop) /\ WF_vars(Pool)
    /\ WF_vars(BrokerHandles \/ BrokerAnswers)

FairSpec == Spec /\ Fairness

-----------------------------------------------------------------------------

\* Every variable of the client stays in its domain (channel.hpp:34-42).
TypeOK ==
    /\ alive \in BOOLEAN /\ connected \in BOOLEAN /\ latch \in BOOLEAN /\ conn \in BOOLEAN
    /\ caller.pc \in {"connecting", "ready", "waiting", "dropped"}
    /\ caller.call \in Calls \union {"none", "drop"}
    /\ worker.pc \in {"ready", "callback", "waiting"}
    /\ sent \in 0..(MaxCalls + 1)
    /\ registered \in BOOLEAN /\ consumer \in 0..MaxTags
    /\ answers \subseteq [id : 1..sent, ok : BOOLEAN, of : {"common", "query"}]
    /\ tasks \in Seq([n : 1..MaxMsgs, tag : 1..MaxTags, known : BOOLEAN])
    /\ opened \in BOOLEAN /\ subscribed \in 0..MaxTags /\ taken \in 0..MaxTags
    /\ pending \in [id : 0..sent, ok : BOOLEAN, of : {"common", "query", "none"}]
    /\ outgoing \in Seq([n : 1..MaxMsgs, tag : 1..MaxTags])
    /\ last \in 0..MaxMsgs /\ ended \in 0..last /\ missed \subseteq 1..MaxMsgs
    /\ called \in Seq(1..MaxMsgs) /\ acked \in Seq(1..MaxMsgs)

\* Requests of one thread never wait for, nor leave behind, an answer of the other's: at
\* most one answer is filed for each waiting thread, and none that nobody waits for
\* (channel.hpp:246-254, 222-226).
AnswersAwaited ==
    {a.id : a \in answers} \subseteq {t.id : t \in {u \in {caller, worker} : u.pc = "waiting"}}

\* Between two calls of the caller, the broker has the consumer that the client's open
\* channel has, and no other: they differ only when the queue was deleted or another client
\* has cancelled with its tag, and then the client is the one that still has it
\* (channel.hpp:116-124, 176-210 of the client, 140-145, 185-199 of the broker).
SubscriptionAgrees ==
    caller.pc = "ready" /\ registered /\ connected => consumer = IF subscribed /= 0 THEN subscribed ELSE taken

\* The callback is called in the order of the pushes and never twice for one, and the
\* broker learns of acknowledgements in that order and of none the callback did not make.
CallsInOrder ==
    /\ \A i, j \in DOMAIN called : i < j => called[i] < called[j]
    /\ \A i, j \in DOMAIN acked : i < j => acked[i] < acked[j]
    /\ \A i \in DOMAIN acked : Contains(called, acked[i])

\* A message of a subscription that has not ended finds the channel it is for; one chosen
\* before the end of it may come behind the answer to the close, and its task calls a null
\* pointer (connection.hpp:98-105 does not check).
PushFindsChannel ==
    /\ \A i \in DOMAIN tasks : ~tasks[i].known => tasks[i].n <= ended
    /\ toClient /= <<>> /\ Head(toClient).kind = "message" /\ ~registered => Head(toClient).n <= ended

\* A message of a subscription that has not ended is never dropped but while the call that
\* subscribes has not returned (channel.hpp:176-198, 233-244).
LiveNotDropped == [][\A n \in missed' \ missed : n <= ended \/ caller.call = "consume"]_vars

\* While the connection lasts, every call on an open channel returns, closing it included,
\* and so does every callback unless the channel is closed under it (channel.hpp:246-254;
\* a call on a closed channel is not answered).
CallsReturn ==
    /\ caller.pc = "waiting" /\ registered ~> caller.pc /= "waiting" \/ ~alive \/ ~connected
    /\ worker.pc = "waiting" ~> worker.pc /= "waiting" \/ ~registered \/ ~alive \/ ~connected

\* mqclient/channel.hpp:46: if the destructor did not unsubscribe that would be no problem,
\* since the broker lets go of everything when the channel is released.  Here: the
\* destructor, which does unsubscribe, returns.
DestructorReturns == caller.call = "drop" ~> caller.pc = "dropped" \/ ~alive

\* Every call returns, even one whose connection is lost (connection.hpp:118-125 wakes no
\* one).
CallsReturnLost == caller.pc = "waiting" /\ registered ~> caller.pc /= "waiting" \/ ~alive

\* docs/muduo-en.md:231: connecting must block until the connection is established, hence
\* the latch.  Here: no channel is made from a connection that is not set.
ConnectedFirst == registered => conn

\* README.md:345: once the queue has a message, it will be pushed to the client that
\* subscribed to it.  Here: no message of a subscription is dropped while the call that
\* subscribes has not returned.
NothingMissed == [][missed' /= missed => caller.call /= "consume"]_vars
=============================================================================
