# A verification development of HareMQ

HareMQ is a message broker in C++ (`HareMQ/mqserver`), a client library
(`HareMQ/mqclient`) and the code they share (`HareMQ/mqcommon`), over muduo, protobuf
and sqlite.  This directory holds TLA+ models of it, the TLC configurations that check
them, and theorems checked by TLAPS.  Line numbers below are those of the files under
`src/HareMQ`.

    tlc -config QueueSafe.cfg MCQueueMessage      # check one run
    tlapm QueueMessageProofs.tla                  # check the proofs of one module

## 1. The system

### Parts, state and operations

| part | source | state | operations |
|---|---|---|---|
| message store of a queue | `mqserver/message.hpp` (`queue_message`, `message_mapper`) | list of messages to push, map of persistent messages, map of messages waiting for an acknowledgement, two counters; a data file and a temporary one | recovery, insert, front, remove, gc, clear |
| message manager | `message.hpp` (`message_manager`) | queue name -> message store | init, destroy, insert, front, ack, clear |
| virtual host | `virtual_host.hpp`, `exchange.hpp`, `queue.hpp`, `binding.hpp` | three maps in memory, three tables in sqlite | declare and delete an exchange or a queue, bind, unbind, publish, consume, acknowledge, clear; constructors read the tables back |
| router | `route.hpp` | none | legality of keys, direct, fanout, topic |
| connections, channels, consumers | `connection.hpp`, `channel.hpp`, `consumer.hpp` | connections, their channels, a list of consumers per queue with a round-robin counter | open, close, disconnect, subscribe, cancel, publish, acknowledge, delete a queue; `channel::consume` on the pool |
| broker server | `broker_server.hpp` | dispatcher, TCP server | one handler per type of request |
| thread pool | `mqcommon/thread_pool.hpp` | task queue, mutex, condition variable, stop flag | entry, push, stop |
| client library | `mqclient/connection.hpp`, `channel.hpp`, `consumer.hpp`, `async_worker.hpp` | connection and latch, map of channels, map of answers, one consumer per channel | open, close, declare..., subscribe, cancel, acknowledge; answers and pushed messages arrive on the loop |
| command-line client | `mqclient/client.cc` | what it reads next | one command per line: declare, delete, bind, unbind, publish, subscribe, statistics |
| protobuf messages | `mqcommon/protocol.pb.*`, `msg.pb.*` | their fields | accessors, clear, parse, write, measure |
| helpers | `mqcommon/helper.hpp`, `logger.hpp` | - | sqlite, file, uuid, split |
| fixed clients, demos, unit tests | `mqclient/publish_client.cc`, `consume_client.cc`, `demo/`, `mqtest/` | - | - |

### How they interact

The broker has two threads.  The thread of muduo's event loop runs every handler, one at
a time; a handler looks up the connection and the channel and calls the channel, the
channel calls the virtual host, and the virtual host calls its managers.  `basic_publish`
stores the message in each queue the router selects and pushes one task for it to the
pool.  The pool has one thread (`broker_server.hpp`), which runs `channel::consume`: it
takes a message out of the queue, chooses a consumer, runs its callback (which sends over
the consumer's connection) and acknowledges at once if the consumer asked for automatic
responses.  The client has three threads: the caller of the library, the event loop, and
one pool thread that runs the user's callback, in which the user acknowledges.  A command
typed at the client becomes a call of the library, a protobuf message, its bytes, and on the
other side a message again, a handler, a call of the virtual host and an answer.

### What is hard in it

* **Crashes.**  Only the disk survives: the data file of each queue, rewritten by gc with
  a temporary file, a removal and a rename; and three tables without transactions.
* **Partial failures.**  Some results of the file system and of sqlite are checked, others
  are dropped.
* **Two threads, raw pointers.**  A task and a consumer's callback bind `this` of a channel
  the event loop may destroy.  The worker takes a message before it looks for a consumer.
* **Blocking without timeouts.**  `wait_response` of the client waits until an answer is
  filed; `stop()` of the pool waits for its threads.
* **Order.**  Messages of a queue are pushed in the order of publication only because the
  pool has one thread; answers and pushed messages race in the client.
* **Loss of the connection.**  The broker forgets the channels; the client only logs it.
* **Conversions.**  Four layers list the same three flags in different orders; lengths are
  measured by one function and used by another; a text may not be UTF-8; a data file may end
  anywhere, or have a hole.
* **Boundaries.**  Empty words in keys, empty args, offsets that collections move, lengths
  that take a second byte.

`PROJECT.json` lists each hazard at its line with the properties that watch over it.

### What makes each part correct

* *Message store*: a persistent message that was accepted and not acknowledged is on the
  disk, once, and its object knows where; nothing acknowledged comes back; order of
  publication is the order of delivery; collection keeps the counters and the file in step.
* *Virtual host*: a binding joins an exchange and a queue that exist; the tables hold
  exactly what is durable in memory; a crash inside a handler leaves tables from which
  restarting gives a state some complete requests could have given.
* *Delivery*: through restarts of the broker, a message leaves a queue through one push; no message waits while a consumer
  is there and the worker has nothing to do; with manual responses a message is deleted
  only by an acknowledgement; consumers take turns; the list of consumers is what the
  channels were told.
* *Thread pool*: no task is lost, repeated or stranded while threads sleep.
* *Client*: an answer reaches whoever waits for it; client and broker agree on the
  subscription; no call blocks for ever.
* *Router and args*: the algorithms agree with their definitions.
* *Messages and commands*: what arrives is what was sent; what the broker does is what was
  typed.
* *Data file*: whatever a short write or a crash leaves, what was written before it is read.

## 2. Modules

    MessageQueue  <--refines--  QueueMessage           Catalogue  <--refines--  VirtualHost
         ^                          |                                              |
         |                QueueMessageProperties                        VirtualHostProperties
         |                 |        |                                       |      |
         |   MCQueueMessage  QueueMessageProofs                 MCVirtualHost  VirtualHostProofs
         |                          |
         |                 QueueMessageRefinement
         |
         +--refines (per queue)--  Delivery -- DeliveryProperties -+- MCDelivery
                                                                   +- DeliveryProofs
    ThreadPool -+- MCThreadPool          ClientChannel -- ClientChannelProofs
                +- ThreadPoolProofs

    Strings <-- Router, Args -- ConversionProofs
                     |
                     +------------------------------------------------+
    Wire <-- Protocol <-- BrokerServer, Commands (+ Strings) <-- Session --+-- MCConversions
                 ^--------- MessageFile ------------------------------+
                                                             Session -- SessionProofs

`MessageQueue` is the hinge between two components: `QueueMessage` shows that the code on
one disk implements it, with crashes, and `Delivery` shows that the queues as the broker's
two threads use them do no more than it allows.  `Delivery` may therefore treat a queue as
that short abstraction, and `VirtualHost` treats its content by kind alone.

Lower down, `QueueMessage` takes a data file for a sequence of records and `MessageFile` has
its bytes; `ClientChannel` and `Delivery` have the order of requests and of their effects,
and `Session` has what is in them.

### QueueMessage (`mqserver/message.hpp`)

A public operation holds the queue's mutex, so operations do not interleave; each is
still split at every change of the disk, for the process can die there and the call can
fail there.  `pc` says where the running operation is.

| TLA+ | code |
|---|---|
| `file`, `exists`, `tmp` | the data file as a sequence of records, whether it has a name, the temporary file |
| `obj` | the `Message` objects of this life; the containers hold references to them, because gc updates offsets through one container and remove reads them through another |
| `msgs`, `durable`, `waitAck` | `__msgs`, `__durable_msgs`, `__wait_ack_msgs` |
| `Start`, `LoadRecord`, `LoadDone`, `RemoveOld`, `Rename` | the constructor and `message_mapper::gc`, step by step |
| `StartWithoutFile`, `LoadFails`, `TmpWriteFails`, `RemoveFails`, `RenameFails` | the same calls failing, with the early returns they lead to |
| `LoadDamaged`, `LoadThrows` | what `__load` makes of the bytes behind a record that is not whole: other messages, none, or a string of a length that throws |
| `Recover`, `Relink` | what `recovery` and `queue_message::gc` do with the result |
| `Insert`, `Front`, `Ack`, `Clear` | `insert`, `front`, `remove`, `clear` |
| `InsertHeaderFails`, `InsertBodyFails`, `InsertRejected`, `Overwritten`, `ClearFails` | the writes of `insert` and of the overwriting in `remove`, and the removal in `clear`, failing |
| `Crash` | the death of the process at any of `CrashAt` |

`valid_count` and `total_count` are the counters, with the wrap of an unsigned `0 - 1`.
`pub`, `accepted`, `acked` and `handed` are history: what publishers were told.  Constants: `MaxMsgs` (bound),
`GCMin` (2000 in the code), `SizeMax` (width of the counter), `UniqueIds`, and the faults
`CrashAt`, `IOFails`.  Records all have one length, so an offset is an index.

A write that fails may leave a torn record, and so may one that answers true, since only
`close()` finds out (`MaybeShort`).  The code does not look for torn records: it appends behind
them, and a later `__load` reads over them (`Lost`, `Misreads`).  What it reads there is free:
the rest of the file may be passed over, taken for a message, for one that was never published,
or for a length at which the process dies.

### Delivery (`mqserver/channel.hpp`, `connection.hpp`, `consumer.hpp`)

Two actors.  `Handler` runs one request: an action of its own, except that `basic_publish`
(message, then task) and the handlers that close a channel or delete a queue are split
where the worker can look between.  `Worker` runs `channel::consume`: take, choose,
callback, automatic response.  Using a destroyed channel is undefined, so the callback then
may send or not, and the worker may die (`WorkerDies`).

With `Restarting` the process may die between any two steps (`Die`) and is started again
(`Restart`): all connections are gone, `Durable` queues come back with those of their
`Persistent` messages that nobody acknowledged, in the order of publication, each queue has
an empty list of consumers, and no task exists.  The histories `pushed` and `subs`
are of one life of the broker; `recovered` counts what it began with.

`Ack` has no guard but an open channel: the broker looks neither at who the message was sent
to nor at whether the channel is subscribed (`channel.hpp:180-183`, `message.hpp:228-246`), so any
channel may acknowledge any message of any queue, and an id that does not wait changes nothing.

### VirtualHost (`mqserver/virtual_host.hpp`, `exchange.hpp`, `queue.hpp`, `binding.hpp`)

Memory and tables of the three managers.  A handler that executes one statement is one
action; one that executes several has a step each, with `Crash` between.  A crash leaves
the tables, `Restart` runs the three constructors in their order; a select that fails is not
noticed, and what it had read until then is taken for the table (`LoadedFrom`).  `Fails` says
what may fail (inserts, deletes, selects, and the removal of a queue's file), `Clearing` whether
`clear()` is called.  `VirtualHostProperties` maps
the state to `Catalogue`: while the host is down, or a handler is half done, the catalogue
already shows what a restart would show.

### ThreadPool (`mqcommon/thread_pool.hpp`)

Each thread of `entry()`: lock, test the predicate, sleep, wake, swap the queue into a
local one, unlock, run.  `stop()` sets the atomic flag and notifies without the mutex, so a
thread has a state `falsified` between the test and the sleep.  Wake-ups may be spurious,
up to `MaxSpurious`.

### ClientChannel (`mqclient/connection.hpp`, `channel.hpp`)

Caller, event loop and pool thread, with the broker reduced to what
`broker_server.hpp` does with one channel: answer in order, not answer a request for a
channel it does not know, push from the moment of the subscription.  Its pool thread chooses a
consumer and hands the message to its event loop (`BrokerChooses`), which sends it later
(`BrokerPushes`): in between the loop may answer a cancellation or a close, and the message
then comes behind the answer, where `connection.hpp:98-105` uses a channel it did not find
(`known = FALSE`, and the client may die).  A queue may be deleted by this client
(`delete`) or by others (`OthersTake`): the broker's consumer goes, the client's
`__consumer` stays, and `taken` remembers which.  A callback runs only if the tag of the message
is that of `__consumer`.  Uuids are numbers.
A callback may be freed while it runs (the caller resets `__consumer`); what the process
does after that is undefined, and the model includes its death.  Answers to `basic_query`
have a map of their own.  With `Losing`, `Disconnect` may happen at any moment: what is on its way is
lost, the broker forgets the channel, and the client, which only writes a log line
(`connection.hpp:118`), goes on sending into nothing.

### Router, Args (`route.hpp`; `set_args`, `get_args`)

`Router` computes the table of `__dp_matching` as a recursive function of the place in the
table (`Cell`, `Table`) and compares its last cell with a definition of matching by words; keys
grow symbol by symbol so that TLC meets every pair within the bounds.  `Args` is a map, the row
it was written into as one string, and restarts that read the row; the order in which an
`unordered_map` lists its pairs is a choice, and of two pairs with one key the first counts, as
with its `insert`.  Both cut strings with `Strings!Split`, which says where the words of a
string stand: a run of separators separates once, and only the first word and the last may be
empty.

### Wire, Protocol (`mqcommon/protocol.pb.*`, `msg.pb.*`)

All eighteen generated classes follow one pattern, block by block, so the pattern is written
once, in `Wire`, as operators over the list of a class's fields: `Cleared` (`Clear`), `Merge`
(`_InternalParse`, one item after another: `NextField`, and `NextScalar` within submessages),
`Serialize` (`_InternalSerialize`) and `ByteSizeLong` of submessages.  `Protocol` has, for
each class, its objects (what its accessors set and read) and its fields in the order in
which it writes them.  As in the code, a submessage is written with a length that a different
function has measured; unset fields are not written; unknown fields are skipped (nothing
reads them later); of a repeated field the last value counts; a failed parse leaves what was
read before.  `Message` itself (payload, offset, length) is only held in memory.

### BrokerServer, Commands, Session (`broker_server.hpp`, both `channel.hpp`, `client.cc`)

`Commands` is `run_cmd`: which lines it accepts and the request it has the channel build.
`BrokerServer` gives, for each request, the calls its handler makes, arguments in the order
of the parameters, and the answer; the verdict of the host is a free choice here.  `Session`
runs requests through all of it, one at a time (`MaxMessage` is the limit of muduo's codec,
64 MB there):

| action | code |
|---|---|
| `Call` | a program calls the library, with any arguments |
| `Type`, `TypeMessage`, `TypeQuit` | `run_cmd`; the messages of `publish` and `publish_mode`; the end of `subscribe` |
| `BrokerReads` | codec, dispatcher and handler; a message that does not parse, or is longer than `MaxMessage`, costs the connection |
| `BrokerPushes` | `consume_cb` |
| `ClientReads`, `Return` | codec and dispatcher of the client; `run_cmd` goes on or returns |

### MessageFile (`message_mapper`, `file_helper`)

The bytes of a data file: `InsertRecord` appends a length and a payload with two writes,
`RemoveRecord` overwrites a payload in place, `Dies` stops at any byte.  A write may stop at any
byte, and `insert` may or may not learn of it: a stream that fails in `close()` has already said
true.  Offsets have the width `OffsetMod`.  `Recovers` is a start, with three outcomes: the file
is read to its end and gc writes all of it again, with writes that may be short like any other;
the file ends in the middle of a record, and what was read before it is served without being
written; or a length is read that no string can have, `std::string(msg_size)` (`message.hpp:124`)
throws, and the process is gone (`process = "throws"`).  Nothing is written then, so every
later start ends there too.

`MCConversions` runs `Router`, `Args`, `Session` and `MessageFile`, which share no state, side
by side: each moves only while the others are where they began.

## 3. Runs

| run | question and answer | bounds |
|---|---|---|
| `QueueSafe` | Does a queue lose, revive or reorder messages? No, with crashes everywhere except the two incomplete moments of the disk; and it implements `MessageQueue`. | 4 messages, threshold of collection 1 |
| `QueueFaults` | Each operation on the files fails or is done in part, and the process dies at any step: a message still leaves the memory of a living queue only by an acknowledgement. | 3 messages, 1 torn record per collection |
| `QueueLostOnCrash` | A crash between removal and rename (`message.hpp:97`) loses all persistent messages. | violation of `NothingLost` |
| `DeliverySafe` | Two channels on two connections, a broker that dies and restarts: order, exact subscriptions, turns, no stranded message but those a restart has found, a waiting message goes by an automatic response, a request that touches nothing else, or with its queue; each queue is a `MessageQueue`, restarts included. | 3 messages, 2 of them persistent, 1 durable queue, 2 channels |
| `DeliveryLive` | Is every message taken out of its queue? Yes, while channels stay open. | 2 messages per queue, 2 queues |
| `DeliveryNoConsumer` | A message published before the first subscription is taken out and never pushed (`channel.hpp:66`). | violation of `EveryMessagePushed` |
| `Pool` | Every task is in one place and is run, in order per thread, and no notification is missed. | 2 threads, 3 tasks, 2 spurious wake-ups |
| `HostSafe` | Bindings connect, tables mirror memory, a crash between two statements is invisible: the host implements `Catalogue`. | 2 exchanges, 2 queues, 1 key |
| `HostFaults` | With failing inserts and selects, files that cannot be removed and dropped tables, what `declare_queue` and `bind` answered true for stays. | 1 exchange, 2 queues, 2 keys |
| `Conversions` | The table matches exactly what the definition matches, legality is what the documents say of symbols, and args come back from the tables with nothing but a pair of empty strings added. Every message of every class arrives as it was sent, or its text is not UTF-8 and the connection is lost. A typed line is refused exactly when it has not the words of its usage (of a publication only their number counts: any word is a mode), and otherwise the host is called with the typed words in their places, a publication with the empty key and durable exactly for the mode `DURABLE`. What a data file holds before a damage is read at every start, though not always served. | all binding keys up to 5 symbols and routing keys up to 4; all maps of 3 keys and 4 values; 3 texts, 2 ids, 4 maps; 0 to 6 words per line; messages up to 500 bytes; 3 records, 1 short write |
| `Client` | Answers are awaited and callbacks in order; client and broker agree but for a queue that was deleted; only a message chosen before its subscription ended misses its channel, and one of a subscription that lasts is dropped only while `basic_consume` has not returned; calls on an open channel return while the connection lasts; it may be lost at any moment. | 7 calls, 3 messages, 2 tags |
| `ClientDestructor` | The destructor of a closed channel that was subscribed waits for ever (`mqclient/channel.hpp:47`). | violation of `DestructorReturns` |

### Departures with a configuration of their own

These configurations are kept beside the runs.  Each ends in a counterexample to the property
it names, which is what it is for (`ClientEarly` and `SessionKey`, with two properties, under
`tlc -continue`):

| configuration | module | what it shows |
|---|---|---|
| `QueueTornRecord` | `MCQueueMessage` | a crash between the two writes of a record (`message.hpp:152`) ends in the assertion at `:295` |
| `QueueSameId` | `MCQueueMessage` | two messages with one id reach the branch that should not occur (`:300`) |
| `DeliverySameTag` | `MCDelivery` | the second channel with a tag is told true and is not subscribed (`channel.hpp:193`) |
| `DeliveryClosed` | `MCDelivery` | the worker uses channels the event loop destroyed, for which it then answers automatically (`channel.hpp:57-80`) |
| `DeliveryRecovered` | `MCDelivery` | messages a restart has recovered have no tasks: without another publication they are never pushed (`broker_server.hpp:60`, `message.hpp:182`) |
| `PoolStop` | `MCThreadPool` | `stop()` can notify between a test of the predicate and the sleep, and waits for ever (`thread_pool.hpp:46`) |
| `HostLosesExchange` | `MCVirtualHost` | `declare_exchange` answers true when its insert failed (`exchange.hpp:180`) |
| `HostStaleBinding` | `MCVirtualHost` | a delete that fails leaves a binding that outlives its exchange (`binding.hpp:87`) |
| `RouterHashWord` | `MCConversions` | `#` does not match routing keys with a word `#`, which nothing rejects (`route.hpp:78`) |
| `ClientEarly` | `ClientChannel` | a channel made before the connection is set (`connection.hpp:120`); a message pushed before `basic_consume` returns is dropped (`channel.hpp:195`) |
| `ClientLost` | `ClientChannel` | a call whose connection is lost waits for ever (`connection.hpp:118`) |
| `SessionKey` | `MCConversions` | `publish` never uses the key it takes (`client.cc:351`), so the message has no routing key; the word `UNDURABLE` of its usage becomes `UNKNOWMODE` (`client.cc:342-349`), as does any word but `DURABLE` and `DIRECT` |
| `FileShortWrite` | `MCConversions` | a short write that only `close()` notices loses a message `insert` said true of (`helper.hpp:181`) |
| `FileOffsetWraps` | `MCConversions` | beyond the width of `offset` a removal destroys another record (`message.hpp:158`) |

`StartsAgain` of `MessageFile` is violated on the instance of `Conversions` too: after a damage
and one more insertion, a start may read a length that throws, and so does every start after it.

Small ones that need no run: `publish_mode` sends all its messages with one id
(`client.cc:341`), which is what `QueueSameId` is about; `subscribe` returns true, after the word
`quit`, even if the subscription failed (`client.cc:381`); `exit` returns before the channel is
closed (`client.cc:96`).

**Why the bounds are enough.**  A collection needs one garbage record and one valid one to
move (two messages), and to go wrong a second collection that uses the moved offsets
(three); four leaves room for one published in between.  `GCMin = 1` makes collections as
frequent as they can be; the proof covers every value.  The races of `Delivery` are between
one handler and one task: two messages make tasks overtake and two channels make turns; the
third message lets the counter go round, and comes behind two that a restart has found.  Two exchanges and two queues are what a wrong
row of a delete statement needs.  Binding keys of five symbols hold three words, with empty
ones, and `#` between two words.  Of texts only three things matter to the wire format:
empty ones are not written, 128 bytes need a second byte of length, and some are not UTF-8;
maps have none, one or two pairs.  A short write damages one record, one before it shows what
must survive and one after it what a start makes of the rest.  Every property has a mutant of the code, listed in
`PROJECT.json` and defined next to what it replaces, that the run's own bounds detect.

**Deadlock.**  Runs with counters that end (`MaxMsgs`, `MaxCalls`, ...) stop at their
bound and turn the check off; `VirtualHost` has none and is checked for deadlock.

**Fairness.**  `Delivery`: weak fairness of the handler in progress and of the worker, which
are loops on threads of their own; clients are under no obligation to do anything.
`ThreadPool`: weak fairness of every thread and of `stop()`, strong fairness of taking the
mutex, which others release again and again; pushes and stops are free.  `ClientChannel`:
weak fairness of the three threads where the code can go on and of the broker, which
handles what arrives; the user's next call and the loss of the connection are free.  No fairness elsewhere, and no
liveness claimed there.

## 4. Theorems

Every theorem holds for every value of the constants its module's `ASSUME` admits:
`QueueMessageAssumption`, `VirtualHostAssumption`, `ThreadPoolAssumption` (threads are a
finite set and not empty), `DeliveryAssumption`, `ClientAssumption`, `RouterAssumption`,
`ArgsAssumption`, `ProtocolAssumption` (ids, texts and maps of texts are some) and
`SessionAssumption` (lines and bodies are made of bytes, and the codec takes less than 2^28 of
them, so that a length has at most four bytes of seven bits) say what kind of thing each constant
is and no more; the bounds (`MaxMsgs`, `MaxTasks`, `MaxCalls`, ...) are any
natural numbers.  What a theorem supposes beyond that is in the second column, with the
configurations whose counterexamples show what happens without it.

| theorem | supposes | proves |
|---|---|---|
| `QueueMessageProofs!TypeCorrect` | - | `TypeOK` |
| `QueueMessageProofs!QueueSafety`, `NeverResurrected`, `OrderedDelivery` | `SafeFaults`: unique ids, no failing file operation, no crash at the two incomplete moments (`QueueSameId`, `QueueLostOnCrash`, `QueueTornRecord`) | `NothingLost`, `NoResurrection`, `DeliveryInOrder` |
| `QueueMessageRefinement!AssertionHolds`, `GarbageCollected` | `SafeFaults` | `GcAssertion`, `GarbageBounded` |
| `QueueMessageRefinement!QueueImplementsPromise` | `SafeFaults` | `KeepsPromise`: refinement of `MessageQueue` |
| `QueueMessageRefinement!MessagesLeaveByAck` | `UniqueIds` | the action property `LeavesOnlyByAck`, whichever file operation fails or is done in part |
| `VirtualHostProofs!HostTypeCorrect` | - | `TypeOK` |
| `VirtualHostProofs!DeclaredQueuesKept`, `BoundKept` | - | `QueuesKept`, `BindingsKept`, whatever fails and with `clear()` |
| `VirtualHostProofs!HostSafety`, `NoDanglingBinding`, `QueuesTakeMessages` | `NoFaults`: no failing statement or removal, no `clear()` (`HostLosesExchange`, `HostStaleBinding`) | `Mirrored`, `Connected`, `Deliverable` |
| `VirtualHostProofs!HostImplementsCatalogue` | `NoFaults` | `KeepsPromise`: refinement of `Catalogue` |
| `ThreadPoolProofs!NotificationNeverLost`, `TasksInOrder`, `TasksRunOnce` | - | `NoLostTask`, `InOrder`, `Accounted` |
| `ClientChannelProofs!ClientTypes`, `AnswersFindTheirThread`, `ClientAndBrokerAgree`, `CallbacksInOrder`, `PushedToAKnownChannel` | - | `TypeOK`, `AnswersAwaited`, `SubscriptionAgrees`, `CallsInOrder`, `PushFindsChannel` |
| `ClientChannelProofs!DroppedOnlyWhileSubscribing` | - | the action property `LiveNotDropped` |
| `DeliveryProofs!DeliveryTypes`, `SentInOrder`, `EveryMessageHasATask`, `ConsumersTakeTurns` | - | `TypeOK`, `PushedInOrder`, `NoStrandedReady`, `RoundRobin` |
| `DeliveryProofs!ConsumersAreSubscribers` | `TagsDiffer`: different channels use different tags (`DeliverySameTag`) | `SubscriptionsExact` |
| `DeliveryProofs!LeavesByAcknowledgement` | - | the action property `ManualAckOnly` |
| `DeliveryProofs!DeliveryImplementsQueues` | - | `QueuesKeepPromise`: each queue refines `MessageQueue` |
| `ConversionProofs!TableMatches`, `LegalityIsTheRules` | - | `TopicMatches`, `LegalByTheRules`, for keys of every length |
| `ConversionProofs!ArgsSurvive` | `NoSeparators`: no key holds `&` or `=` and no value `&`. `client.cc:291-309` cuts what is typed at them, so what it declares is such; a program that calls the library has to keep to it | `PairsSurvive`, for maps of every size and texts of every length |
| `SessionProofs!EverythingArrives` | - | `Delivered`, for every class of message, texts of every length and maps of every size |
| `SessionProofs!EveryLineIsDone` | `ArgsRead`: the meaning `ArgMeaning` gives a text of `other_args` is what the client's splitting reads in it | `TypedIsDone`, for lines of any number of words, texts of every length and every message |

### The arguments

A proof about a component has a lemma for each action, or for each group of actions that
touch the same variables, and under it a step for each part of the invariant the action can
disturb.  The inductive invariants are conjunctions of named parts.  TLC agrees with each
on the instances of the runs.

*Message store.*  `NothingLost` is not inductive: an acknowledgement invalidates the record
at the offset its object remembers, so one must know that the object remembers the right
one, and a collection changes all offsets while the file is away.
`QueueMessageProperties!Inductive` therefore relates the file, the heap and the containers:
`InvDisk` (valid records are exactly the messages owed), `InvFile` (records in order of
publication), `InvObjects`, `InvTracked` (an owed message has an object in the map and is
either in the list or waits), `InvOffsets` (outside gc, the object of an owed message points
at its record), `InvGc` (what each phase of gc has done so far) and `InvPhase`, `InvHistory`
for the glue.  `InvCounts` adds that `__valid_count` is the number of owed messages, which
is cardinality and not order, and gives both `GcAssertion` and the bound on garbage.  For the
refinement, `Promise` reads the ready messages of a queue that is down from its disk; a crash
is then `MessageQueue`'s restart, and recovery, load, relink and both halves of gc are
stutters.  `MessagesLeaveByAck` has an invariant of its own, `InvIdentity`, which
survives every failure: it says only whose records and objects these are, so what a torn record
makes of the file does not break it.

*Virtual host.*  `Connected` says nothing of the middle of a handler, and `Mirrored` nothing
of a dead process, so neither survives a deletion or a restart by itself.  `Sound` adds what
they need: `HalfDone` (a deletion whose first step is done has left no binding of that name,
a declaration has made the message store first), `Placed` (message files belong to queues of
the table, and an unfinished deletion is the only way to be without a store), `OneKey` and
`NothingHeld` (the tables a crash leaves determine what the constructors rebuild), and that
the tables exist.  While the process lives `OneKey` and `NothingHeld` follow from the rest
(`LivingSound`); `Crash` and `Restart` are where they are used.  The refinement needs one
thing more, `NothingLeft`: a name that stands for no queue holds no messages, since
`Catalogue` lets a queue begin empty only.  Then each step of a handler is a step of
`Catalogue` by itself, `Crash` is its `Restart`, and `VirtualHost`'s `Restart` shows nothing
new.  `QueuesKept` and `BindingsKept` hold under every fault because of an order, which
`Announced` states: a handler that removes rows has told the clients first.  Without faults a
select reads its whole table (`WholeTablesRead`), which is where a restart needs `NoFaults`.

*Thread pool.*  A thread between its test of the predicate and its sleep holds the mutex
that `push()` needs, so the invariant relates who holds it, where each thread is, and what is
queued; order and uniqueness follow from the numbers of what was run, what is in a thread's
local queue and what waits.

*Client.*  `OnePlace` (an id is on its way to the broker, owed, on its way back or filed, but
not twice) with `RequestsAwaited` and `AnswersKnown` is why caller and callback, which wait
on one condition variable, never take each other's answers.  `Agreed` says what the caller's
answer will say of the subscription at each place it can be, `Says` standing for the broker's
consumer or the one that others took.  `Ended` puts a number on the last message of the
subscriptions that are over: a message whose channel is not found is not above it.  `Live` says
that a message above it has the tag the client has or is about to have.  `Ordered` follows
messages through the broker's loop, the connection and the client's tasks.

*Delivery.*  `Numbered` puts what was sent, the message in the worker's hands and what waits
into one rising sequence, and `Existence` says what a half-done deletion has taken away.
Together they give the order of pushes and the refinement of `MessageQueue` per queue.
`Served` counts tasks, the task about to be pushed and what a restart has found against the
messages that wait; a task takes whatever is first, so it is a count and not a matching.
`Round` ties `__rr_seq` to the turns since the list last changed, modulo its length.
`Subscribed` needs `Tagged`, because the list is searched by tag and the clients know
channels.

*Recursive definitions.*  What `Router`, `Args` and `Wire` compute is defined by recursion, and
the library offers induction over numbers with an operator as a parameter, which the
installed provers cannot instantiate.  The proofs go through the library's statement about
sets instead: `<` is well founded on `Nat`, so a set of counterexamples has a smallest one.
The same serves where order needs it (the least number of a set, a finite set of numbers
as a rising sequence, division with remainder).  A recursive function is a `CHOOSE`; that a
function with its equation exists, and that it has one solution, is shown first, once for each
shape of recursion.

*Router and args.*  A cell of the table says whether a prefix of the routing key matches a prefix
of the binding key; that this is what the definition by words says, cell by cell, is the
smallest-counterexample argument over the sum of both lengths.  Legality needs where the words
of a key stand between its separators.  For args, a row is a concatenation of
pairs: its words are laid out one after the other with known places, `Split` finds these
places and no other, and `Cut` finds the first `=` of each; that the first of two pairs with
one key counts does not matter, since a map has one.  Behind the last `&` stands an empty word,
which is read as a pair of two empty strings; nothing else is ever added.

*Wire and session.*  The bytes of an object are a sequence of pieces, one for each set field or
pair of a map, in any order of the pairs.  The reader is followed one item at a time: after so
many items it stands at the end of a piece and holds a `Partial` object, that of the fields
before; a text that is not UTF-8 makes it refuse the message, and nothing else can.  `Fits`
says of a class and an object what this needs (numbers of fields below 16 and different, types
of values), and is shown for each of the sixteen classes.  Over it, `SessionInv` says what
is on the way at each stage of a request: the bytes are one of the encodings of the request or the answer.
TLC checks it on the instance of `Conversions` too.  `TypedInv` carries what was typed through the same
stages: which lines were taken, the prompt's properties have the mode `run_cmd` makes of the
typed word and an empty key, the request is the one it makes of the line, and what was done is
what the line means.  Each handler is expanded
once (`HandlersDo`, `PublicationDone`), so a flag in the wrong place in any of the four layers
that list it would leave that lemma without a proof.  `ArgMeaning` is a table that
stands beside the code, and `Conversions` gives it meanings that are written out by hand; with an arbitrary table,
the theorem has to suppose that it says what the code reads.

**Only model-checked.**  Liveness (`Drained`, `EveryMessagePushed`, `TasksRun`,
`CallsReturn`, `DestructorReturns`): the prover has none under fairness.  `FileReadable`: the
reader of `MessageFile` is a `RECURSIVE` operator, and the property needs more than the
assumptions of its constants, since beyond the bounds a damaged record may by chance be read as a
payload (with a body that is not UTF-8, or its fields in another order) that gc then
rewrites as bytes of another length or that no longer parse.

## 5. Not modelled

* The fixed clients, demos and unit tests: they only exercise the classes.
* muduo, sqlite and protobuf's library: a connection is a pair of ordered channels, a
  statement succeeds or fails; registration of handlers, sockets, the codec's own framing and
  checksum, arenas, reflection and unknown groups are left out.
* In `client.cc`: printed texts, its config file, and the end of standard input, at which it
  spins.  Words it knows are abbreviated to one letter.
* Logging, paths and directories; the statistics `basic_query` returns are any text.
* UTF-8 beyond ASCII: bytes from 128 on stand for what is not UTF-8.
* In the client: a second channel.
* `stat()` failing on a data file (its size is then 0), and a directory that cannot be created
  (the broker aborts).

## 6. Plan

Done: every component above, its runs, and a theorem for every safety and action property
of the runs but `FileReadable`.

Next, in this order:

1. `MessageFile`: its reader as a recursive function, the condition on damaged records that
   `FileReadable` needs, and the theorem under it.
2. `ThreadPool` under `Delivery`: that a pool of one thread is what `Delivery` takes for its
   sequence of tasks, as a refinement.
3. `ClientChannel`: a second channel.
