----------------------------- MODULE VirtualHost -----------------------------
(***************************************************************************)
(* The virtual host of the broker (mqserver/virtual_host.hpp) with its     *)
(* managers of exchanges, queues and bindings (exchange.hpp, queue.hpp,    *)
(* binding.hpp): what they keep in memory, what they keep in the tables of *)
(* the sqlite file, and what is left when the broker dies and starts again.*)
(*                                                                         *)
(* Only the event loop calls these handlers, one at a time.  A statement   *)
(* of SQL and the change of memory beside it are one step, since a crash   *)
(* after the statement loses the memory either way; a handler that         *)
(* executes several statements has a step for each.  The messages of a     *)
(* queue (message.hpp, module QueueMessage) appear here only by kind.      *)
(***************************************************************************)
EXTENDS Naturals

CONSTANTS
    Exchanges, Queues,  \* names
    Keys, NoKey,        \* binding keys
    NoName,
    Fails,              \* what may fail: statements of SQL and the removal of a file
    Clearing            \* whether virtual_host::clear is called

ASSUME VirtualHostAssumption ==
    /\ NoKey \notin Keys
    /\ NoName \notin Exchanges \union Queues
    /\ Fails \subseteq {"insert", "remove", "select", "unlink"}
    /\ Clearing \in BOOLEAN

VARIABLES
    up,         \* the broker runs
    exchanges,  \* __exchanges of exchange_manager: "none", "transient" or "durable"
    queues,     \* __msg_queues of msg_queue_manager
    bindings,   \* __bindings of binding_manager: the key, or NoKey
    stores,     \* queues with a queue_message in message_manager
    held,       \* the kinds of messages each queue_message holds
    tables,     \* tables that exist
    exTable, qTable, bTable, \* their rows
    kept,       \* queues whose message file holds messages
    op,         \* the handler in progress
    told        \* history: what clients were told exists and is durable

memory == <<exchanges, queues, bindings, stores, held>>
disk == <<tables, exTable, qTable, bTable, kept>>
vars == <<up, memory, disk, op, told>>

Pairs == Exchanges \X Queues
Kinds == {"none", "transient", "durable"}
Kind(durable) == IF durable THEN "durable" ELSE "transient"
Row == [e : Exchanges, q : Queues, key : Keys]
Tables == {"exchange", "queue", "binding"}
NothingTold == [ex |-> {}, qu |-> {}, bi |-> {}]
Idle == [pc |-> "idle", name |-> NoName, durable |-> FALSE, todo |-> {}]

\* A new installation, or a broker that starts on an empty directory.
Init ==
    /\ up = TRUE
    /\ exchanges = [e \in Exchanges |-> "none"] /\ queues = [q \in Queues |-> "none"]
    /\ bindings = [p \in Pairs |-> NoKey]
    /\ stores = {} /\ held = [q \in Queues |-> {}]
    /\ tables = Tables /\ exTable = {} /\ qTable = {} /\ bTable = {} /\ kept = {}
    /\ op = Idle /\ told = NothingTold

-----------------------------------------------------------------------------
(* Statements of SQL.  sqlite_helper::exec reports whether one succeeded.  *)

\* An insert into a table that exists, of a row whose primary key is free, may fail
\* all the same.
Insert(table, free, ok) == ok \in BOOLEAN /\ (ok => table \in tables /\ free)
                           /\ (~ok => table \notin tables \/ ~free \/ "insert" \in Fails)

\* The rows left by a delete, whose result no mapper looks at.
Remove(table, rows, removed, left) ==
    \/ table \in tables /\ left = rows \ removed
    \/ (table \notin tables \/ "remove" \in Fails) /\ left = rows

Request == up /\ op.pc = "idle"

-----------------------------------------------------------------------------
(* Exchanges *)

\* declare_exchange does not look at what the insert returns.
DeclareExchange(e, durable) ==
    /\ Request
    /\ exchanges[e] = "none"
    /\ exchanges' = [exchanges EXCEPT ![e] = Kind(durable)]
    /\ IF durable
       THEN \E ok \in BOOLEAN :
              /\ Insert("exchange", e \notin exTable, ok)
              /\ exTable' = IF ok THEN exTable \union {e} ELSE exTable
              /\ told' = [told EXCEPT !.ex = @ \union {e}]
       ELSE UNCHANGED <<exTable, told>>
    /\ UNCHANGED <<up, queues, bindings, stores, held, tables, qTable, bTable, kept, op>>

\* Fault: the rows of the bindings stay.
UnbindExchangeInMemory(e) ==
    /\ Request
    /\ bTable' = bTable
    /\ bindings' = [p \in Pairs |-> IF p[1] = e THEN NoKey ELSE bindings[p]]
    /\ told' = [told EXCEPT !.ex = @ \ {e}, !.bi = {p \in @ : p[1] /= e}]
    /\ op' = [Idle EXCEPT !.pc = "delete exchange", !.name = e]
    /\ UNCHANGED <<up, exchanges, queues, stores, held, tables, exTable, qTable, kept>>

\* delete_exchange first removes every binding of the exchange ...
UnbindExchange(e) ==
    /\ Request
    /\ Remove("binding", bTable, {r \in bTable : r.e = e}, bTable')
    /\ bindings' = [p \in Pairs |-> IF p[1] = e THEN NoKey ELSE bindings[p]]
    /\ told' = [told EXCEPT !.ex = @ \ {e}, !.bi = {p \in @ : p[1] /= e}]
    /\ op' = [Idle EXCEPT !.pc = "delete exchange", !.name = e]
    /\ UNCHANGED <<up, exchanges, queues, stores, held, tables, exTable, qTable, kept>>

\* ... and then the exchange, if there is one.
DeleteExchange ==
    /\ up /\ op.pc = "delete exchange"
    /\ IF exchanges[op.name] = "durable"
       THEN Remove("exchange", exTable, {op.name}, exTable')
       ELSE UNCHANGED exTable
    /\ exchanges' = [exchanges EXCEPT ![op.name] = "none"]
    /\ op' = Idle
    /\ UNCHANGED <<up, queues, bindings, stores, held, tables, qTable, bTable, kept, told>>

-----------------------------------------------------------------------------
(* Queues *)

\* Fault: declare_queue does not give the queue its queue_message.
InitQueueMissing(q, durable) ==
    /\ Request
    /\ queues[q] = "none"
    /\ stores' = stores
    /\ held' = IF q \in stores \/ q \notin kept THEN held ELSE [held EXCEPT ![q] = {"durable"}]
    /\ op' = [Idle EXCEPT !.pc = "declare queue", !.name = q, !.durable = durable]
    /\ UNCHANGED <<up, exchanges, queues, bindings, disk, told>>

\* declare_queue first gives the queue its queue_message, which recovers what the file
\* holds ...
InitQueue(q, durable) ==
    /\ Request
    /\ queues[q] = "none"
    /\ stores' = stores \union {q}
    /\ held' = IF q \in stores \/ q \notin kept THEN held ELSE [held EXCEPT ![q] = {"durable"}]
    /\ op' = [Idle EXCEPT !.pc = "declare queue", !.name = q, !.durable = durable]
    /\ UNCHANGED <<up, exchanges, queues, bindings, disk, told>>

\* Fault: the result of the insert is ignored.
DeclareQueueUnchecked ==
    /\ up /\ op.pc = "declare queue"
    /\ LET q == op.name
       IN IF op.durable
          THEN \E ok \in BOOLEAN :
                 /\ Insert("queue", q \notin qTable, ok)
                 /\ qTable' = IF ok THEN qTable \union {q} ELSE qTable
                 /\ queues' = [queues EXCEPT ![q] = "durable"]
                 /\ told' = [told EXCEPT !.qu = @ \union {q}]
          ELSE /\ queues' = [queues EXCEPT ![q] = "transient"]
               /\ UNCHANGED <<qTable, told>>
    /\ op' = Idle
    /\ UNCHANGED <<up, exchanges, bindings, stores, held, tables, exTable, bTable, kept>>

\* ... and then declares it, unless the insert fails.
DeclareQueue ==
    /\ up /\ op.pc = "declare queue"
    /\ LET q == op.name
       IN IF op.durable
          THEN \E ok \in BOOLEAN :
                 /\ Insert("queue", q \notin qTable, ok)
                 /\ qTable' = IF ok THEN qTable \union {q} ELSE qTable
                 /\ queues' = [queues EXCEPT ![q] = IF ok THEN "durable" ELSE @]
                 /\ told' = [told EXCEPT !.qu = IF ok THEN @ \union {q} ELSE @]
          ELSE /\ queues' = [queues EXCEPT ![q] = "transient"]
               /\ UNCHANGED <<qTable, told>>
    /\ op' = Idle
    /\ UNCHANGED <<up, exchanges, bindings, stores, held, tables, exTable, bTable, kept>>

\* queue_message::clear does not look at what the removal of the file returns.
Unlink(q, left) == left = kept \ {q} \/ ("unlink" \in Fails /\ left = kept)

\* Fault: the file of a deleted queue stays.
DestroyMessagesInMemory(q) ==
    /\ Request
    /\ stores' = stores \ {q} /\ held' = [held EXCEPT ![q] = {}]
    /\ kept' = kept
    /\ told' = [told EXCEPT !.qu = @ \ {q}, !.bi = {p \in @ : p[2] /= q}]
    /\ op' = [Idle EXCEPT !.pc = "unbind queue", !.name = q]
    /\ UNCHANGED <<up, exchanges, queues, bindings, tables, exTable, qTable, bTable>>

\* delete_queue destroys the messages and their file, then the bindings, then the queue.
DestroyMessages(q) ==
    /\ Request
    /\ stores' = stores \ {q} /\ held' = [held EXCEPT ![q] = {}]
    /\ IF q \in stores THEN Unlink(q, kept') ELSE UNCHANGED kept
    /\ told' = [told EXCEPT !.qu = @ \ {q}, !.bi = {p \in @ : p[2] /= q}]
    /\ op' = [Idle EXCEPT !.pc = "unbind queue", !.name = q]
    /\ UNCHANGED <<up, exchanges, queues, bindings, tables, exTable, qTable, bTable>>

UnbindQueue ==
    /\ up /\ op.pc = "unbind queue"
    /\ Remove("binding", bTable, {r \in bTable : r.q = op.name}, bTable')
    /\ bindings' = [p \in Pairs |-> IF p[2] = op.name THEN NoKey ELSE bindings[p]]
    /\ op' = [op EXCEPT !.pc = "delete queue"]
    /\ UNCHANGED <<up, exchanges, queues, stores, held, tables, exTable, qTable, kept, told>>

\* Fault: the name of a deleted queue stays in the map.
DeleteQueueMarks ==
    /\ up /\ op.pc = "delete queue"
    /\ IF queues[op.name] = "durable"
       THEN Remove("queue", qTable, {op.name}, qTable')
       ELSE UNCHANGED qTable
    /\ queues' = [queues EXCEPT ![op.name] = "deleted"]
    /\ op' = Idle
    /\ UNCHANGED <<up, exchanges, bindings, stores, held, tables, exTable, bTable, kept, told>>

DeleteQueue ==
    /\ up /\ op.pc = "delete queue"
    /\ IF queues[op.name] = "durable"
       THEN Remove("queue", qTable, {op.name}, qTable')
       ELSE UNCHANGED qTable
    /\ queues' = [queues EXCEPT ![op.name] = "none"]
    /\ op' = Idle
    /\ UNCHANGED <<up, exchanges, bindings, stores, held, tables, exTable, bTable, kept, told>>

-----------------------------------------------------------------------------
(* Bindings *)

\* Fault: the result of the insert is ignored.
BindUnchecked(e, q, key) ==
    /\ Request
    /\ exchanges[e] /= "none" /\ queues[q] /= "none" /\ bindings[<<e, q>>] = NoKey
    /\ IF exchanges[e] = "durable" /\ queues[q] = "durable"
       THEN \E ok \in BOOLEAN :
              /\ Insert("binding", TRUE, ok)
              /\ bTable' = IF ok THEN bTable \union {[e |-> e, q |-> q, key |-> key]} ELSE bTable
              /\ bindings' = [bindings EXCEPT ![<<e, q>>] = key]
              /\ told' = [told EXCEPT !.bi = @ \union {<<e, q>>}]
       ELSE /\ bindings' = [bindings EXCEPT ![<<e, q>>] = key]
            /\ UNCHANGED <<bTable, told>>
    /\ UNCHANGED <<up, exchanges, queues, stores, held, tables, exTable, qTable, kept, op>>

\* A binding is durable if both its ends are; a failed insert is answered false.
Bind(e, q, key) ==
    /\ Request
    /\ exchanges[e] /= "none" /\ queues[q] /= "none" /\ bindings[<<e, q>>] = NoKey
    /\ IF exchanges[e] = "durable" /\ queues[q] = "durable"
       THEN \E ok \in BOOLEAN :
              /\ Insert("binding", TRUE, ok)
              /\ bTable' = IF ok THEN bTable \union {[e |-> e, q |-> q, key |-> key]} ELSE bTable
              /\ bindings' = [bindings EXCEPT ![<<e, q>>] = IF ok THEN key ELSE @]
              /\ told' = [told EXCEPT !.bi = IF ok THEN @ \union {<<e, q>>} ELSE @]
       ELSE /\ bindings' = [bindings EXCEPT ![<<e, q>>] = key]
            /\ UNCHANGED <<bTable, told>>
    /\ UNCHANGED <<up, exchanges, queues, stores, held, tables, exTable, qTable, kept, op>>

\* Fault: the row of the binding stays.
UnbindInMemory(e, q) ==
    /\ Request
    /\ bindings[<<e, q>>] /= NoKey
    /\ bTable' = bTable
    /\ bindings' = [bindings EXCEPT ![<<e, q>>] = NoKey]
    /\ told' = [told EXCEPT !.bi = @ \ {<<e, q>>}]
    /\ UNCHANGED <<up, exchanges, queues, stores, held, tables, exTable, qTable, kept, op>>

Unbind(e, q) ==
    /\ Request
    /\ bindings[<<e, q>>] /= NoKey
    /\ Remove("binding", bTable, {r \in bTable : r.e = e /\ r.q = q}, bTable')
    /\ bindings' = [bindings EXCEPT ![<<e, q>>] = NoKey]
    /\ told' = [told EXCEPT !.bi = @ \ {<<e, q>>}]
    /\ UNCHANGED <<up, exchanges, queues, stores, held, tables, exTable, qTable, kept, op>>

-----------------------------------------------------------------------------
(* Messages *)

\* A publish to exchange e is routed to the queues of todo.
Publish(e, todo, durable) ==
    /\ Request
    /\ exchanges[e] /= "none"
    /\ todo /= {} /\ \A q \in todo : bindings[<<e, q>>] /= NoKey
    /\ op' = [pc |-> "publish", name |-> e, durable |-> durable, todo |-> todo]
    /\ UNCHANGED <<up, memory, disk, told>>

\* basic_publish: a queue that does not exist gets nothing, a transient queue holds
\* transient messages only.
InsertMessage(q) ==
    /\ up /\ op.pc = "publish"
    /\ q \in op.todo
    /\ LET durable == op.durable /\ queues[q] = "durable"
       IN IF queues[q] /= "none" /\ q \in stores
          THEN /\ held' = [held EXCEPT ![q] = @ \union {Kind(durable)}]
               /\ kept' = IF durable THEN kept \union {q} ELSE kept
          ELSE UNCHANGED <<held, kept>>
    /\ op' = IF op.todo = {q} THEN Idle ELSE [op EXCEPT !.todo = @ \ {q}]
    /\ UNCHANGED <<up, exchanges, queues, bindings, stores, tables, exTable, qTable, bTable, told>>

\* Consumers receive and acknowledge all that the queue holds; the worker of the pool
\* takes part in this, in the middle of any handler.  What clear could not remove stays.
Drain(q) ==
    /\ up
    /\ q \in stores /\ held[q] /= {}
    /\ held' = [held EXCEPT ![q] = {}] /\ Unlink(q, kept')
    /\ UNCHANGED <<up, exchanges, queues, bindings, stores, tables, exTable, qTable, bTable, op, told>>

-----------------------------------------------------------------------------
(* virtual_host::clear drops the tables, which only a constructor creates. *)

ClearExchanges ==
    /\ Clearing /\ Request
    /\ tables' = tables \ {"exchange"} /\ exTable' = {}
    /\ exchanges' = [e \in Exchanges |-> "none"]
    /\ told' = NothingTold
    /\ op' = [Idle EXCEPT !.pc = "clear queues"]
    /\ UNCHANGED <<up, queues, bindings, stores, held, qTable, bTable, kept>>

ClearQueues ==
    /\ up /\ op.pc = "clear queues"
    /\ tables' = tables \ {"queue"} /\ qTable' = {}
    /\ queues' = [q \in Queues |-> "none"]
    /\ op' = [Idle EXCEPT !.pc = "clear bindings"]
    /\ UNCHANGED <<up, exchanges, bindings, stores, held, exTable, bTable, kept, told>>

ClearBindings ==
    /\ up /\ op.pc = "clear bindings"
    /\ tables' = tables \ {"binding"} /\ bTable' = {}
    /\ bindings' = [p \in Pairs |-> NoKey]
    /\ op' = [Idle EXCEPT !.pc = "clear messages", !.todo = stores]
    /\ UNCHANGED <<up, exchanges, queues, stores, held, exTable, qTable, kept, told>>

\* Each queue_message is emptied and its file removed; the map keeps it.
ClearMessages ==
    /\ up /\ op.pc = "clear messages"
    /\ IF op.todo = {}
       THEN op' = Idle /\ UNCHANGED <<held, kept>>
       ELSE \E q \in op.todo :
              /\ held' = [held EXCEPT ![q] = {}] /\ Unlink(q, kept')
              /\ op' = [op EXCEPT !.todo = @ \ {q}]
    /\ UNCHANGED <<up, exchanges, queues, bindings, stores, tables, exTable, qTable, bTable, told>>

-----------------------------------------------------------------------------
(* The end of the process and the constructor of the next one *)

Crash ==
    /\ up
    /\ up' = FALSE
    /\ exchanges' = [e \in Exchanges |-> "none"] /\ queues' = [q \in Queues |-> "none"]
    /\ bindings' = [p \in Pairs |-> NoKey]
    /\ stores' = {} /\ held' = [q \in Queues |-> {}]
    /\ op' = Idle
    /\ UNCHANGED <<disk, told>>

\* The bindings the table holds for a pair; the callback of the select keeps the first
\* it meets, and the select states no order.
Rows(p) == {r \in bTable : r.e = p[1] /\ r.q = p[2]}

LoadedFrom(loaded, rows) ==
    \A p \in Pairs : IF Rows(p) \intersect rows = {} THEN loaded[p] = NoKey
                     ELSE \E r \in Rows(p) \intersect rows : loaded[p] = r.key

\* What a mapper reads of its table.  It does not look at what the select returns: one that
\* fails has called back for some of the rows.
Selected(rows) == IF "select" \in Fails THEN SUBSET rows ELSE {rows}

Restart ==
    /\ ~up
    /\ up' = TRUE
    /\ tables' = Tables
    /\ \E ex \in Selected(exTable) : exchanges' = [e \in Exchanges |-> IF e \in ex THEN "durable" ELSE "none"]
    /\ \E qu \in Selected(qTable) :
         /\ queues' = [q \in Queues |-> IF q \in qu THEN "durable" ELSE "none"]
         /\ stores' = qu
         /\ held' = [q \in Queues |-> IF q \in qu \intersect kept THEN {"durable"} ELSE {}]
    /\ bindings' \in [Pairs -> Keys \union {NoKey}]
    /\ \E bi \in Selected(bTable) : LoadedFrom(bindings', bi)
    /\ UNCHANGED <<exTable, qTable, bTable, kept, op, told>>

-----------------------------------------------------------------------------

Handler ==
    \/ \E e \in Exchanges, durable \in BOOLEAN : DeclareExchange(e, durable)
    \/ \E e \in Exchanges : UnbindExchange(e)
    \/ DeleteExchange
    \/ \E q \in Queues, durable \in BOOLEAN : InitQueue(q, durable)
    \/ DeclareQueue
    \/ \E q \in Queues : DestroyMessages(q)
    \/ UnbindQueue \/ DeleteQueue
    \/ \E e \in Exchanges, q \in Queues : Unbind(e, q) \/ \E key \in Keys : Bind(e, q, key)
    \/ \E e \in Exchanges, todo \in SUBSET Queues, durable \in BOOLEAN : Publish(e, todo, durable)
    \/ \E q \in Queues : InsertMessage(q)
    \/ ClearExchanges \/ ClearQueues \/ ClearBindings \/ ClearMessages

Next ==
    \/ Handler
    \/ \E q \in Queues : Drain(q)
    \/ Crash
    \/ Restart

Spec == Init /\ [][Next]_vars
=============================================================================
