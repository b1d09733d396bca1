-------------------------- MODULE VirtualHostProofs --------------------------
(* Theorems about VirtualHost, for any names, any keys and any number of them.  First  *)
(* what holds whatever fails; then, when no statement fails and clear() is not called, *)
(* that a virtual host keeps its tables and its memory in step through every handler,  *)
(* crash and restart, and so implements Catalogue.                                     *)
EXTENDS VirtualHostProperties, TLAPS

\* The name a handler works on is of the right sort.
Named ==
    /\ op.pc = "delete exchange" => op.name \in Exchanges
    /\ op.pc \in {"declare queue", "unbind queue", "delete queue"} => op.name \in Queues

TypeInv == TypeOK /\ Named

\* The parts of TypeOK that are records.
ToldType == [ex : SUBSET Exchanges, qu : SUBSET Queues, bi : SUBSET Pairs]
OpType == [pc : Places, name : Exchanges \union Queues \union {NoName},
           durable : BOOLEAN, todo : SUBSET Queues]

LEMMA InitType ==
    Init => TypeInv
BY DEF Init, TypeInv, TypeOK, Named, Idle, NothingTold, Kinds, Tables, Places

LEMMA ToldMore ==
    ASSUME told \in ToldType
    PROVE  /\ \A e \in Exchanges : [told EXCEPT !.ex = @ \union {e}] \in ToldType
           /\ \A q \in Queues : [told EXCEPT !.qu = @ \union {q}] \in ToldType
           /\ \A p \in Pairs : [told EXCEPT !.bi = @ \union {p}] \in ToldType
           /\ [told EXCEPT !.qu = @] = told /\ [told EXCEPT !.bi = @] = told
BY DEF ToldType

LEMMA ExchangeType ==
    ASSUME TypeInv,
           \/ \E e \in Exchanges, durable \in BOOLEAN : DeclareExchange(e, durable)
           \/ \E e \in Exchanges : UnbindExchange(e)
           \/ DeleteExchange
    PROVE  TypeInv'
<1> USE DEF TypeInv, TypeOK, Named
<1>1. ASSUME NEW e \in Exchanges, NEW durable \in BOOLEAN, DeclareExchange(e, durable)
      PROVE  TypeInv'
  <2>1. told' \in ToldType
    <3>1. told' = told \/ told' = [told EXCEPT !.ex = @ \union {e}]
      BY <1>1 DEF DeclareExchange
    <3> QED
      BY <3>1, ToldMore DEF ToldType
  <2>2. exchanges' \in [Exchanges -> Kinds]
    BY <1>1 DEF DeclareExchange, Kind, Kinds
  <2>3. exTable' \subseteq Exchanges
    BY <1>1 DEF DeclareExchange
  <2>4. UNCHANGED <<up, queues, bindings, stores, held, tables, qTable, bTable, kept, op>>
    BY <1>1 DEF DeclareExchange
  <2> QED
    BY <2>1, <2>2, <2>3, <2>4 DEF ToldType
<1>2. ASSUME NEW e \in Exchanges, UnbindExchange(e)
      PROVE  TypeInv'
  <2>1. told' \in ToldType
    BY <1>2 DEF UnbindExchange, ToldType
  <2>2. bTable' \subseteq Row /\ bindings' \in [Pairs -> Keys \union {NoKey}]
    BY <1>2 DEF UnbindExchange, Remove
  <2>3. op' \in OpType /\ op'.pc = "delete exchange" /\ op'.name = e
    BY <1>2 DEF UnbindExchange, OpType, Idle, Places
  <2>4. UNCHANGED <<up, exchanges, queues, stores, held, tables, exTable, qTable, kept>>
    BY <1>2 DEF UnbindExchange
  <2> QED
    BY <2>1, <2>2, <2>3, <2>4 DEF ToldType, OpType
<1>3. CASE DeleteExchange
    BY <1>3 DEF DeleteExchange, Remove, Idle, Places, Kinds
<1> QED
    BY <1>1, <1>2, <1>3

LEMMA QueueType ==
    ASSUME TypeInv,
           \/ \E q \in Queues, durable \in BOOLEAN : InitQueue(q, durable)
           \/ DeclareQueue
           \/ \E q \in Queues : DestroyMessages(q)
           \/ UnbindQueue \/ DeleteQueue
    PROVE  TypeInv'
<1> USE DEF TypeInv, TypeOK, Named
<1>1. ASSUME NEW q \in Queues, NEW durable \in BOOLEAN, InitQueue(q, durable)
      PROVE  TypeInv'
  <2>1. stores' \subseteq Queues /\ held' \in [Queues -> SUBSET {"transient", "durable"}]
    BY <1>1 DEF InitQueue
  <2>2. op' \in OpType /\ op'.pc = "declare queue" /\ op'.name = q
    BY <1>1 DEF InitQueue, OpType, Idle, Places
  <2>3. UNCHANGED <<up, exchanges, queues, bindings, tables, exTable, qTable, bTable, kept, told>>
    BY <1>1 DEF InitQueue, disk
  <2> QED
    BY <2>1, <2>2, <2>3 DEF OpType
<1>2. CASE DeclareQueue
  <2>1. op.name \in Queues
    BY <1>2 DEF DeclareQueue
  <2>2. told' \in ToldType
    <3>1. told' \in {told, [told EXCEPT !.qu = @], [told EXCEPT !.qu = @ \union {op.name}]}
      BY <1>2 DEF DeclareQueue
    <3> QED
      BY <2>1, <3>1, ToldMore DEF ToldType
  <2>3. queues' \in [Queues -> Kinds]
    <3>1. \E k \in {"durable", "transient", queues[op.name]} :
            queues' = [queues EXCEPT ![op.name] = k]
      BY <1>2, Zenon DEF DeclareQueue
    <3> QED
      BY <2>1, <3>1 DEF Kinds
  <2>4. qTable' \subseteq Queues
    <3>1. qTable' = qTable \/ qTable' = qTable \union {op.name}
      BY <1>2, Zenon DEF DeclareQueue
    <3> QED
      BY <2>1, <3>1
  <2>5. op' = Idle /\ UNCHANGED <<up, exchanges, bindings, stores, held, tables, exTable, bTable, kept>>
    BY <1>2 DEF DeclareQueue
  <2> QED
    BY <2>2, <2>3, <2>4, <2>5 DEF ToldType, Idle, Places
<1>3. ASSUME NEW q \in Queues, DestroyMessages(q)
      PROVE  TypeInv'
  <2>1. told' \in ToldType
    BY <1>3 DEF DestroyMessages, ToldType
  <2>2. /\ stores' \subseteq Queues /\ held' \in [Queues -> SUBSET {"transient", "durable"}]
        /\ kept' \subseteq Queues
    BY <1>3 DEF DestroyMessages, Unlink
  <2>3. op' \in OpType /\ op'.pc = "unbind queue" /\ op'.name = q
    BY <1>3 DEF DestroyMessages, OpType, Idle, Places
  <2>4. UNCHANGED <<up, exchanges, queues, bindings, tables, exTable, qTable, bTable>>
    BY <1>3 DEF DestroyMessages
  <2> QED
    BY <2>1, <2>2, <2>3, <2>4 DEF ToldType, OpType
<1>4. CASE UnbindQueue
    BY <1>4 DEF UnbindQueue, Remove, Places
<1>5. CASE DeleteQueue
    BY <1>5 DEF DeleteQueue, Remove, Idle, Places, Kinds
<1> QED
    BY <1>1, <1>2, <1>3, <1>4, <1>5

LEMMA BindingType ==
    ASSUME TypeInv, NEW e \in Exchanges, NEW q \in Queues,
           Unbind(e, q) \/ \E key \in Keys : Bind(e, q, key)
    PROVE  TypeInv'
<1> USE DEF TypeInv, TypeOK, Named
<1>1. CASE Unbind(e, q)
    BY <1>1 DEF Unbind, Remove
<1>2. ASSUME NEW key \in Keys, Bind(e, q, key)
      PROVE  TypeInv'
  <2>1. <<e, q>> \in Pairs /\ [e |-> e, q |-> q, key |-> key] \in Row
    BY DEF Pairs, Row
  <2>2. told' \in ToldType
    <3>1. told' \in {told, [told EXCEPT !.bi = @], [told EXCEPT !.bi = @ \union {<<e, q>>}]}
      BY <1>2 DEF Bind
    <3> QED
      BY <2>1, <3>1, ToldMore DEF ToldType
  <2>3. bTable' \subseteq Row
    <3>1. bTable' \in {bTable, bTable \union {[e |-> e, q |-> q, key |-> key]}}
      BY <1>2 DEF Bind
    <3> QED
      BY <2>1, <3>1
  <2>4. bindings' \in [Pairs -> Keys \union {NoKey}]
    <3>1. \E v \in Keys \union {NoKey} : bindings' = [bindings EXCEPT ![<<e, q>>] = v]
      BY <1>2, Zenon DEF Bind
    <3> QED
      BY <2>1, <3>1
  <2>5. UNCHANGED <<up, exchanges, queues, stores, held, tables, exTable, qTable, kept, op>>
    BY <1>2 DEF Bind
  <2> QED
    BY <2>2, <2>3, <2>4, <2>5 DEF ToldType
<1> QED
    BY <1>1, <1>2

LEMMA MessageType ==
    ASSUME TypeInv,
           \/ \E e \in Exchanges, todo \in SUBSET Queues, durable \in BOOLEAN : Publish(e, todo, durable)
           \/ \E q \in Queues : InsertMessage(q) \/ Drain(q)
    PROVE  TypeInv'
<1> USE DEF TypeInv, TypeOK, Named
<1>1. ASSUME NEW e \in Exchanges, NEW todo \in SUBSET Queues, NEW durable \in BOOLEAN,
             Publish(e, todo, durable)
      PROVE  TypeInv'
  <2>1. op' \in OpType /\ op'.pc = "publish"
    BY <1>1 DEF Publish, OpType, Places
  <2>2. UNCHANGED <<up, exchanges, queues, bindings, stores, held, tables, exTable, qTable, bTable, kept, told>>
    BY <1>1 DEF Publish, memory, disk
  <2> QED
    BY <2>1, <2>2 DEF OpType
<1>2. ASSUME NEW q \in Queues, InsertMessage(q)
      PROVE  TypeInv'
  <2>1. op' \in OpType /\ op'.pc \in {"idle", "publish"}
    BY <1>2 DEF InsertMessage, OpType, Idle, Places
  <2>2. held' \in [Queues -> SUBSET {"transient", "durable"}] /\ kept' \subseteq Queues
    BY <1>2 DEF InsertMessage, Kind
  <2>3. UNCHANGED <<up, exchanges, queues, bindings, stores, tables, exTable, qTable, bTable, told>>
    BY <1>2 DEF InsertMessage
  <2> QED
    BY <2>1, <2>2, <2>3 DEF OpType
<1>3. ASSUME NEW q \in Queues, Drain(q)
      PROVE  TypeInv'
    BY <1>3 DEF Drain, Unlink
<1>4. CASE \E e \in Exchanges, todo \in SUBSET Queues, durable \in BOOLEAN : Publish(e, todo, durable)
  <2>1. PICK e \in Exchanges, todo \in SUBSET Queues, durable \in BOOLEAN : Publish(e, todo, durable)
    BY ONLY <1>4
  <2> QED
    BY ONLY <1>1, <2>1
<1> QED
    BY <1>2, <1>3, <1>4, Zenon

LEMMA ClearType ==
    ASSUME TypeInv, ClearExchanges \/ ClearQueues \/ ClearBindings \/ ClearMessages
    PROVE  TypeInv'
<1> USE DEF TypeInv, TypeOK, Named
<1>1. CASE ClearExchanges
    BY <1>1 DEF ClearExchanges, Idle, Places, Kinds, NothingTold
<1>2. CASE ClearQueues
    BY <1>2 DEF ClearQueues, Idle, Places, Kinds
<1>3. CASE ClearBindings
    BY <1>3 DEF ClearBindings, Idle, Places
<1>4. CASE ClearMessages
  <2>1. op' \in OpType /\ op'.pc \in {"idle", "clear messages"}
    <3>1. op.pc = "clear messages"
      BY <1>4 DEF ClearMessages
    <3>2. op' = Idle \/ \E q \in op.todo : op' = [op EXCEPT !.todo = @ \ {q}]
      BY <1>4, Zenon DEF ClearMessages
    <3>3. ASSUME NEW q \in op.todo, op' = [op EXCEPT !.todo = @ \ {q}]
          PROVE  op' \in OpType /\ op'.pc = "clear messages"
      BY <3>1, <3>3 DEF OpType
    <3>4. ASSUME op' = Idle
          PROVE  op' \in OpType /\ op'.pc = "idle"
      BY <3>4 DEF OpType, Idle, Places
    <3> QED
      BY <3>2, <3>3, <3>4
  <2>2. held' \in [Queues -> SUBSET {"transient", "durable"}] /\ kept' \subseteq Queues
    BY <1>4 DEF ClearMessages, Unlink
  <2>3. UNCHANGED <<up, exchanges, queues, bindings, stores, tables, exTable, qTable, bTable, told>>
    BY <1>4 DEF ClearMessages
  <2> QED
    BY <2>1, <2>2, <2>3 DEF OpType
<1> QED
    BY <1>1, <1>2, <1>3, <1>4

LEMMA ProcessType ==
    ASSUME TypeInv, Crash \/ Restart
    PROVE  TypeInv'
<1> USE DEF TypeInv, TypeOK, Named
<1>1. CASE Crash
    BY <1>1 DEF Crash, Idle, Places, Kinds, disk
<1>2. CASE Restart
  <2>1. /\ up' = TRUE /\ tables' = Tables /\ bindings' \in [Pairs -> Keys \union {NoKey}]
        /\ UNCHANGED <<exTable, qTable, bTable, kept, op, told>>
    BY <1>2 DEF Restart
  <2>2. exchanges' \in [Exchanges -> Kinds]
    <3>1. PICK ex \in Selected(exTable) : exchanges' = [e \in Exchanges |-> IF e \in ex THEN "durable" ELSE "none"]
      BY <1>2 DEF Restart
    <3> QED
      BY <3>1 DEF Kinds
  <2>3. PICK qu \in Selected(qTable) :
          /\ queues' = [q \in Queues |-> IF q \in qu THEN "durable" ELSE "none"]
          /\ stores' = qu
          /\ held' = [q \in Queues |-> IF q \in qu \intersect kept THEN {"durable"} ELSE {}]
    BY <1>2 DEF Restart
  <2>4. stores' \subseteq Queues
    BY <2>3 DEF Selected
  <2>5. queues' \in [Queues -> Kinds] /\ held' \in [Queues -> SUBSET {"transient", "durable"}]
    BY <2>3 DEF Kinds
  <2> QED
    BY <2>1, <2>2, <2>4, <2>5 DEF Tables
<1> QED
    BY <1>1, <1>2

LEMMA NextType ==
    TypeInv /\ [Next]_vars => TypeInv'
<1> SUFFICES ASSUME TypeInv, [Next]_vars PROVE TypeInv'
    OBVIOUS
<1>1. CASE Next
    BY <1>1, ExchangeType, QueueType, BindingType, MessageType, ClearType, ProcessType
       DEF Next, Handler
<1>2. CASE UNCHANGED vars
    BY <1>2 DEF TypeInv, TypeOK, Named, vars, memory, disk
<1> QED
    BY <1>1, <1>2

\* In every state of the virtual host, whatever statements fail and whether or not clear()
\* is called, maps, tables and the handler in progress are well formed
\* (virtual_host.hpp:18-22).
THEOREM HostTypeCorrect == Spec => []TypeOK
<1>1. Init => TypeInv
    BY InitType
<1>2. TypeInv /\ [Next]_vars => TypeInv'
    BY NextType
<1>3. TypeInv => TypeOK
    BY DEF TypeInv
<1> QED
    BY <1>1, <1>2, <1>3, PTL DEF Spec

-----------------------------------------------------------------------------
(* What clients were told of stays in the tables *)

KeptInv == QueuesKept /\ BindingsKept /\ Announced

LEMMA InitKept ==
    Init => KeptInv
BY DEF Init, KeptInv, QueuesKept, BindingsKept, Announced, NothingTold, Idle

\* A step that takes no row away, tells nobody of anything new, and does not enter the
\* middle of a deletion.
LEMMA KeptFrame ==
    ASSUME KeptInv, UNCHANGED told, qTable \subseteq qTable', bTable \subseteq bTable',
           op' = op \/ op'.pc \in {"idle", "delete exchange", "declare queue", "publish",
                                   "clear messages"}
    PROVE  KeptInv'
<1>1. QueuesKept' /\ BindingsKept'
    BY DEF KeptInv, QueuesKept, BindingsKept
<1>2. Announced'
    BY DEF KeptInv, Announced
<1> QED
    BY <1>1, <1>2 DEF KeptInv

LEMMA ExchangeKept ==
    ASSUME TypeInv, KeptInv,
           \/ \E e \in Exchanges, durable \in BOOLEAN : DeclareExchange(e, durable)
           \/ \E e \in Exchanges : UnbindExchange(e)
           \/ DeleteExchange
    PROVE  KeptInv'
<1>1. ASSUME NEW e \in Exchanges, NEW durable \in BOOLEAN, DeclareExchange(e, durable)
      PROVE  KeptInv'
  <2>1. op' = op /\ UNCHANGED <<qTable, bTable>>
    BY <1>1 DEF DeclareExchange
  <2>2. told'.qu = told.qu /\ told'.bi = told.bi
    BY <1>1 DEF DeclareExchange, TypeInv, TypeOK
  <2> QED
    BY <2>1, <2>2 DEF KeptInv, QueuesKept, BindingsKept, Announced
<1>2. ASSUME NEW e \in Exchanges, UnbindExchange(e)
      PROVE  KeptInv'
  <2>1. /\ told'.qu = told.qu /\ told'.bi = {p \in told.bi : p[1] /= e}
        /\ qTable' = qTable /\ op'.pc = "delete exchange"
    BY <1>2 DEF UnbindExchange, TypeInv, TypeOK, Idle
  <2>2. \A r \in bTable : r.e /= e => r \in bTable'
    BY <1>2 DEF UnbindExchange, Remove
  <2>3. QueuesKept' /\ Announced'
    BY <2>1 DEF KeptInv, QueuesKept, Announced
  <2>4. BindingsKept'
    <3>1. SUFFICES ASSUME NEW p \in told.bi, p[1] /= e
                   PROVE  \E r \in bTable' : <<r.e, r.q>> = p
      BY <2>1 DEF BindingsKept
    <3>2. PICK r \in bTable : <<r.e, r.q>> = p
      BY DEF KeptInv, BindingsKept
    <3>3. r.e /= e
      BY <3>1, <3>2
    <3> QED
      BY <2>2, <3>2, <3>3
  <2> QED
    BY <2>3, <2>4 DEF KeptInv
<1>3. CASE DeleteExchange
  <2>1. UNCHANGED <<qTable, bTable, told>> /\ op' = Idle
    BY <1>3 DEF DeleteExchange
  <2> QED
    BY <2>1, KeptFrame DEF Idle
<1> QED
    BY <1>1, <1>2, <1>3

LEMMA QueueKept ==
    ASSUME TypeInv, KeptInv,
           \/ \E q \in Queues, durable \in BOOLEAN : InitQueue(q, durable)
           \/ DeclareQueue
           \/ \E q \in Queues : DestroyMessages(q)
           \/ UnbindQueue \/ DeleteQueue
    PROVE  KeptInv'
<1>1. ASSUME NEW q \in Queues, NEW durable \in BOOLEAN, InitQueue(q, durable)
      PROVE  KeptInv'
  <2>1. UNCHANGED <<qTable, bTable, told>> /\ op'.pc = "declare queue"
    BY <1>1 DEF InitQueue, disk, Idle
  <2> QED
    BY <2>1, KeptFrame
<1>2. CASE DeclareQueue
  <2>1. op' = Idle /\ bTable' = bTable
    BY <1>2 DEF DeclareQueue
  <2>2. /\ told'.bi = told.bi /\ qTable \subseteq qTable'
        /\ told'.qu \subseteq told.qu \union (qTable' \intersect {op.name})
    <3>1. \/ UNCHANGED <<qTable, told>>
          \/ told' = [told EXCEPT !.qu = @] /\ qTable' = qTable
          \/ told' = [told EXCEPT !.qu = @ \union {op.name}] /\ qTable' = qTable \union {op.name}
      BY <1>2 DEF DeclareQueue
    <3> QED
      BY <3>1 DEF TypeInv, TypeOK
  <2> QED
    BY <2>1, <2>2 DEF KeptInv, QueuesKept, BindingsKept, Announced, Idle
<1>3. ASSUME NEW q \in Queues, DestroyMessages(q)
      PROVE  KeptInv'
  <2>1. /\ told'.qu = told.qu \ {q} /\ told'.bi = {p \in told.bi : p[2] /= q}
        /\ op'.pc = "unbind queue" /\ op'.name = q /\ UNCHANGED <<qTable, bTable>>
    BY <1>3 DEF DestroyMessages, TypeInv, TypeOK, Idle
  <2> QED
    BY <2>1 DEF KeptInv, QueuesKept, BindingsKept, Announced
<1>4. CASE UnbindQueue
  <2>1. /\ op.pc = "unbind queue" /\ op'.pc = "delete queue" /\ op'.name = op.name
        /\ UNCHANGED <<qTable, told>>
    BY <1>4 DEF UnbindQueue, TypeInv, TypeOK
  <2>2. \A r \in bTable : r.q /= op.name => r \in bTable'
    BY <1>4 DEF UnbindQueue, Remove
  <2>3. QueuesKept' /\ Announced'
    BY <2>1 DEF KeptInv, QueuesKept, Announced
  <2>4. BindingsKept'
    <3>1. SUFFICES ASSUME NEW p \in told.bi
                   PROVE  \E r \in bTable' : <<r.e, r.q>> = p
      BY <2>1 DEF BindingsKept
    <3>2. PICK r \in bTable : <<r.e, r.q>> = p
      BY DEF KeptInv, BindingsKept
    <3>3. r.q /= op.name
      BY <2>1, <3>1, <3>2 DEF KeptInv, Announced
    <3> QED
      BY <2>2, <3>2, <3>3
  <2> QED
    BY <2>3, <2>4 DEF KeptInv
<1>5. CASE DeleteQueue
  <2>1. op.pc = "delete queue" /\ op' = Idle /\ UNCHANGED <<bTable, told>>
    BY <1>5 DEF DeleteQueue
  <2>2. \A q \in qTable : q /= op.name => q \in qTable'
    BY <1>5 DEF DeleteQueue, Remove
  <2> QED
    BY <2>1, <2>2 DEF KeptInv, QueuesKept, BindingsKept, Announced, Idle
<1> QED
    BY <1>1, <1>2, <1>3, <1>4, <1>5

LEMMA BindingKept ==
    ASSUME TypeInv, KeptInv, NEW e \in Exchanges, NEW q \in Queues,
           Unbind(e, q) \/ \E key \in Keys : Bind(e, q, key)
    PROVE  KeptInv'
<1>1. CASE Unbind(e, q)
  <2>1. /\ told'.qu = told.qu /\ told'.bi = told.bi \ {<<e, q>>}
        /\ UNCHANGED <<qTable, op>>
    BY <1>1 DEF Unbind, TypeInv, TypeOK
  <2>2. \A r \in bTable : ~(r.e = e /\ r.q = q) => r \in bTable'
    BY <1>1 DEF Unbind, Remove
  <2>3. QueuesKept' /\ Announced'
    BY <2>1 DEF KeptInv, QueuesKept, Announced
  <2>4. BindingsKept'
    <3>1. SUFFICES ASSUME NEW p \in told.bi, p /= <<e, q>>
                   PROVE  \E r \in bTable' : <<r.e, r.q>> = p
      BY <2>1 DEF BindingsKept
    <3>2. PICK r \in bTable : <<r.e, r.q>> = p
      BY DEF KeptInv, BindingsKept
    <3>3. ~(r.e = e /\ r.q = q)
      BY <3>1, <3>2
    <3> QED
      BY <2>2, <3>2, <3>3
  <2> QED
    BY <2>3, <2>4 DEF KeptInv
<1>2. ASSUME NEW key \in Keys, Bind(e, q, key)
      PROVE  KeptInv'
  <2> DEFINE row == [e |-> e, q |-> q, key |-> key]
  <2>1. op.pc = "idle" /\ UNCHANGED <<qTable, op>>
    BY <1>2 DEF Bind, Request
  <2>2. <<row.e, row.q>> = <<e, q>>
    OBVIOUS
  <2>3. \/ bTable' = bTable /\ told'.bi = told.bi
        \/ bTable' = bTable \union {row} /\ told'.bi \subseteq told.bi \union {<<e, q>>}
    <3>1. \/ bTable' = bTable /\ told' = told
          \/ bTable' = bTable /\ told' = [told EXCEPT !.bi = @]
          \/ bTable' = bTable \union {row} /\ told' = [told EXCEPT !.bi = @ \union {<<e, q>>}]
      BY <1>2 DEF Bind
    <3> HIDE DEF row
    <3> QED
      BY <3>1 DEF TypeInv, TypeOK
  <2>4. told'.qu = told.qu
    <3>1. told' = told \/ \E s : told' = [told EXCEPT !.bi = s]
      BY <1>2, Zenon DEF Bind
    <3> QED
      BY <3>1 DEF TypeInv, TypeOK
  <2> HIDE DEF row
  <2>5. BindingsKept'
    BY <2>2, <2>3 DEF KeptInv, BindingsKept
  <2>6. QueuesKept' /\ Announced'
    BY <2>1, <2>4 DEF KeptInv, QueuesKept, Announced
  <2> QED
    BY <2>5, <2>6 DEF KeptInv
<1> QED
    BY <1>1, <1>2

LEMMA MessageKept ==
    ASSUME TypeInv, KeptInv,
           \/ \E e \in Exchanges, todo \in SUBSET Queues, durable \in BOOLEAN : Publish(e, todo, durable)
           \/ \E q \in Queues : InsertMessage(q) \/ Drain(q)
    PROVE  KeptInv'
<1>1. UNCHANGED <<qTable, bTable, told>>
  <2>1. ASSUME NEW e \in Exchanges, NEW todo \in SUBSET Queues, NEW durable \in BOOLEAN,
               Publish(e, todo, durable)
        PROVE  UNCHANGED <<qTable, bTable, told>>
    BY <2>1 DEF Publish, disk
  <2>2. ASSUME NEW q \in Queues, InsertMessage(q) \/ Drain(q)
        PROVE  UNCHANGED <<qTable, bTable, told>>
    BY <2>2 DEF InsertMessage, Drain
  <2> QED
    BY <2>1, <2>2, Zenon
<1>2. op' = op \/ op'.pc \in {"idle", "publish"}
  <2>1. ASSUME NEW e \in Exchanges, NEW todo \in SUBSET Queues, NEW durable \in BOOLEAN,
               Publish(e, todo, durable)
        PROVE  op'.pc = "publish"
    BY <2>1 DEF Publish
  <2>2. ASSUME NEW q \in Queues, InsertMessage(q) \/ Drain(q)
        PROVE  op' = op \/ op'.pc \in {"idle", "publish"}
    BY <2>2 DEF InsertMessage, Drain, Idle, TypeInv, TypeOK
  <2> QED
    BY <2>1, <2>2, Zenon
<1> QED
    BY <1>1, <1>2, KeptFrame

LEMMA ClearKept ==
    ASSUME TypeInv, KeptInv, ClearExchanges \/ ClearQueues \/ ClearBindings \/ ClearMessages
    PROVE  KeptInv'
<1>1. CASE ClearExchanges
  <2>1. told'.qu = {} /\ told'.bi = {} /\ op'.pc = "clear queues"
    BY <1>1 DEF ClearExchanges, NothingTold, Idle
  <2> QED
    BY <2>1 DEF KeptInv, QueuesKept, BindingsKept, Announced
<1>2. CASE ClearQueues
  <2>1. /\ op.pc = "clear queues" /\ op'.pc = "clear bindings"
        /\ UNCHANGED <<bTable, told>>
    BY <1>2 DEF ClearQueues, Idle
  <2> QED
    BY <2>1 DEF KeptInv, QueuesKept, BindingsKept, Announced
<1>3. CASE ClearBindings
  <2>1. /\ op.pc = "clear bindings" /\ op'.pc = "clear messages"
        /\ UNCHANGED <<qTable, told>>
    BY <1>3 DEF ClearBindings, Idle
  <2> QED
    BY <2>1 DEF KeptInv, QueuesKept, BindingsKept, Announced
<1>4. CASE ClearMessages
  <2>1. UNCHANGED <<qTable, bTable, told>> /\ op'.pc \in {"idle", "clear messages"}
    <3>1. op.pc = "clear messages" /\ UNCHANGED <<qTable, bTable, told>>
      BY <1>4 DEF ClearMessages
    <3>2. op' = Idle \/ \E q \in op.todo : op' = [op EXCEPT !.todo = @ \ {q}]
      BY <1>4, Zenon DEF ClearMessages
    <3>3. op \in [pc : Places, name : Exchanges \union Queues \union {NoName},
                   durable : BOOLEAN, todo : SUBSET Queues]
      BY DEF TypeInv, TypeOK
    <3>4. \A q : [op EXCEPT !.todo = @ \ {q}].pc = op.pc
      BY <3>3
    <3>5. Idle.pc = "idle"
      BY DEF Idle
    <3>6. op'.pc = "idle" \/ op'.pc = op.pc
      BY <3>2, <3>4, <3>5, Zenon
    <3> QED
      BY <3>1, <3>6
  <2> QED
    BY <2>1, KeptFrame
<1> QED
    BY <1>1, <1>2, <1>3, <1>4

LEMMA NextKept ==
    ASSUME TypeInv, KeptInv, [Next]_vars
    PROVE  KeptInv'
<1>1. CASE Next
  <2>1. CASE Crash \/ Restart
    <3>1. UNCHANGED <<qTable, bTable, told>> /\ (op' = op \/ op'.pc = "idle")
      BY <2>1 DEF Crash, Restart, disk, Idle
    <3> QED
      BY <3>1, KeptFrame
  <2> QED
    BY <1>1, <2>1, ExchangeKept, QueueKept, BindingKept, MessageKept, ClearKept
       DEF Next, Handler
<1>2. CASE UNCHANGED vars
    BY <1>2 DEF vars, memory, disk, KeptInv, QueuesKept, BindingsKept, Announced
<1> QED
    BY <1>1, <1>2

LEMMA KeptAlways ==
    Spec => []KeptInv
<1>1. Init => TypeInv /\ KeptInv
    BY InitType, InitKept
<1>2. TypeInv /\ KeptInv /\ [Next]_vars => TypeInv' /\ KeptInv'
    BY NextType, NextKept
<1> QED
    BY <1>1, <1>2, PTL DEF Spec

\* A durable queue of which declare_queue said true stays in the table until its deletion
\* begins, whatever statement fails, table is dropped or process dies: declare_queue looks
\* at what its insert returns (queue.hpp:148-152).
THEOREM DeclaredQueuesKept == Spec => []QueuesKept
<1>1. KeptInv => QueuesKept
    BY DEF KeptInv
<1> QED
    BY <1>1, KeptAlways, PTL

\* So does the row of a binding of which bind said true (binding.hpp:129-133).
THEOREM BoundKept == Spec => []BindingsKept
<1>1. KeptInv => BindingsKept
    BY DEF KeptInv
<1> QED
    BY <1>1, KeptAlways, PTL

-----------------------------------------------------------------------------

LEMMA RowFacts ==
    /\ \A r \in Row : /\ r.e \in Exchanges /\ r.q \in Queues /\ r.key \in Keys
                      /\ r.key /= NoKey /\ <<r.e, r.q>> \in Pairs
    /\ \A r, s \in Row : r.e = s.e /\ r.q = s.q /\ r.key = s.key => r = s
    /\ \A e \in Exchanges, q \in Queues : <<e, q>> \in Pairs /\ <<e, q>>[1] = e /\ <<e, q>>[2] = q
BY VirtualHostAssumption DEF Row, Pairs, VirtualHostAssumption

\* While the process lives, Mirrored says which rows there are, and so that a pair has one.
LEMMA LivingSound ==
    ASSUME up', TypeInv', tables' = Tables, Connected', Mirrored', HalfDone', Placed'
    PROVE  Sound'
<1>1. OneKey'
  <2>1. ASSUME NEW r \in bTable', NEW s \in bTable', r.e = s.e, r.q = s.q
        PROVE  r = s
    <3>1. r \in Row /\ s \in Row /\ bindings'[<<r.e, r.q>>] = r.key /\ bindings'[<<s.e, s.q>>] = s.key
      BY DEF Mirrored
    <3> QED
      BY <2>1, <3>1, RowFacts
  <2> QED
    BY <2>1 DEF OneKey
<1>2. NothingHeld'
    BY DEF NothingHeld
<1> QED
    BY <1>1, <1>2 DEF Sound

\* A step that leaves exchanges, queues, bindings and their tables alone.
LEMMA CatalogueFrame ==
    ASSUME TypeInv, Sound, up, TypeInv', HalfDone', Placed',
           UNCHANGED <<up, exchanges, queues, bindings, tables, exTable, qTable, bTable>>
    PROVE  Sound'
<1>1. Connected'
    BY DEF Sound, Connected
<1>2. Mirrored'
    BY DEF Sound, Mirrored
<1> QED
    BY <1>1, <1>2, LivingSound DEF Sound

LEMMA InitSound ==
    Init => Sound
<1> SUFFICES ASSUME Init PROVE Sound
    OBVIOUS
<1>1. Connected /\ OneKey
    BY RowFacts DEF Init, Connected, OneKey
<1>2. Mirrored
    BY RowFacts DEF Init, Mirrored
<1>3. NothingHeld /\ HalfDone /\ Placed /\ tables = Tables
    BY DEF Init, NothingHeld, HalfDone, Placed, Idle
<1> QED
    BY <1>1, <1>2, <1>3 DEF Sound

-----------------------------------------------------------------------------
(* Exchanges *)

LEMMA DeclareExchangeSound ==
    ASSUME NoFaults, TypeInv, TypeInv', Sound,
           NEW e \in Exchanges, NEW durable \in BOOLEAN, DeclareExchange(e, durable)
    PROVE  Sound'
<1>1. /\ up /\ up' /\ op.pc = "idle" /\ exchanges[e] = "none"
      /\ exchanges' = [exchanges EXCEPT ![e] = Kind(durable)]
      /\ UNCHANGED <<queues, bindings, stores, held, tables, qTable, bTable, kept, op>>
    BY DEF DeclareExchange, Request
<1>2. exTable = {x \in Exchanges : exchanges[x] = "durable"}
    BY <1>1 DEF Sound, Mirrored
<1>3. exTable' = IF durable THEN exTable \union {e} ELSE exTable
  <2>1. e \notin exTable /\ "exchange" \in tables /\ "insert" \notin Fails
    BY <1>1, <1>2 DEF Sound, Tables, NoFaults
  <2> QED
    BY <2>1 DEF DeclareExchange, Insert
<1>4. Kind(durable) = (IF durable THEN "durable" ELSE "transient") /\ exchanges \in [Exchanges -> Kinds]
    BY DEF Kind, TypeInv, TypeOK
<1>5. exTable' = {x \in Exchanges : exchanges'[x] = "durable"}
    BY <1>1, <1>2, <1>3, <1>4
<1>6. Connected'
    BY <1>1, <1>3, <1>4 DEF Sound, Connected
<1>7. Mirrored'
  <2>1. bTable = {r \in Row : /\ exchanges[r.e] = "durable" /\ queues[r.q] = "durable"
                              /\ bindings[<<r.e, r.q>>] = r.key}
    BY <1>1 DEF Sound, Mirrored
  <2>2. \A r \in Row : bindings[<<r.e, r.q>>] = r.key => r.e /= e
    BY <1>1, RowFacts DEF Sound, Connected
  <2>3. bTable' = {r \in Row : /\ exchanges'[r.e] = "durable" /\ queues'[r.q] = "durable"
                               /\ bindings'[<<r.e, r.q>>] = r.key}
    BY <1>1, <1>4, <2>1, <2>2, RowFacts
  <2>4. qTable' = {q \in Queues : queues'[q] = "durable"}
    BY <1>1 DEF Sound, Mirrored
  <2> QED
    BY <1>5, <2>3, <2>4 DEF Mirrored
<1>8. HalfDone' /\ Placed'
    BY <1>1 DEF Sound, HalfDone, Placed
<1> QED
    BY <1>1, <1>6, <1>7, <1>8, LivingSound DEF Sound

LEMMA UnbindExchangeSound ==
    ASSUME NoFaults, TypeInv, TypeInv', Sound, NEW e \in Exchanges, UnbindExchange(e)
    PROVE  Sound'
<1>1. /\ up /\ up' /\ op.pc = "idle"
      /\ bindings' = [p \in Pairs |-> IF p[1] = e THEN NoKey ELSE bindings[p]]
      /\ op'.pc = "delete exchange" /\ op'.name = e
      /\ UNCHANGED <<exchanges, queues, stores, held, tables, exTable, qTable, kept>>
    BY DEF UnbindExchange, Request, Idle
<1>2. bTable' = {r \in bTable : r.e /= e}
  <2>1. "binding" \in tables /\ "remove" \notin Fails
    BY DEF Sound, Tables, NoFaults
  <2>2. bTable' = bTable \ {r \in bTable : r.e = e}
    BY <2>1 DEF UnbindExchange, Remove
  <2> QED
    BY <2>2
<1>3. \A x \in Exchanges, q \in Queues :
        bindings'[<<x, q>>] = IF x = e THEN NoKey ELSE bindings[<<x, q>>]
    BY <1>1, RowFacts
<1>4. Connected'
  <2>1. \A x \in Exchanges, q \in Queues :
          bindings'[<<x, q>>] /= NoKey => exchanges'[x] /= "none" /\ queues'[q] /= "none"
    <3>1. \A x \in Exchanges, q \in Queues :
            bindings[<<x, q>>] /= NoKey => exchanges[x] /= "none" /\ queues[q] /= "none"
      BY DEF Sound, Connected
    <3>2. exchanges' = exchanges /\ queues' = queues
      BY <1>1
    <3> QED
      BY ONLY <1>3, <3>1, <3>2
  <2>2. \A r \in bTable' : r.e \in exTable' /\ r.q \in qTable'
    BY <1>1, <1>2 DEF Sound, Connected
  <2> QED
    BY <2>1, <2>2 DEF Connected
<1>5. Mirrored'
  <2>1. bTable = {r \in Row : /\ exchanges[r.e] = "durable" /\ queues[r.q] = "durable"
                              /\ bindings[<<r.e, r.q>>] = r.key}
    BY <1>1 DEF Sound, Mirrored
  <2>2. bTable' = {r \in Row : /\ exchanges'[r.e] = "durable" /\ queues'[r.q] = "durable"
                               /\ bindings'[<<r.e, r.q>>] = r.key}
    <3>1. \A r \in Row : r.e \in Exchanges /\ r.q \in Queues /\ r.key /= NoKey
      BY RowFacts
    <3>2. exchanges' = exchanges /\ queues' = queues
      BY <1>1
    <3> QED
      BY ONLY <1>2, <1>3, <2>1, <3>1, <3>2
  <2> QED
    BY <1>1, <2>2 DEF Sound, Mirrored
<1>6. HalfDone'
    BY <1>1, <1>3 DEF HalfDone
<1>7. Placed'
    BY <1>1 DEF Sound, Placed
<1> QED
    BY <1>1, <1>4, <1>5, <1>6, <1>7, LivingSound DEF Sound

LEMMA DeleteExchangeSound ==
    ASSUME NoFaults, TypeInv, TypeInv', Sound, DeleteExchange
    PROVE  Sound'
<1> DEFINE e == op.name
<1>1. /\ up /\ up' /\ op.pc = "delete exchange" /\ e \in Exchanges
      /\ exchanges' = [exchanges EXCEPT ![e] = "none"]
      /\ op'.pc = "idle"
      /\ UNCHANGED <<queues, bindings, stores, held, tables, qTable, bTable, kept>>
    BY DEF DeleteExchange, Idle, TypeInv, Named
<1>2. /\ exTable = {x \in Exchanges : exchanges[x] = "durable"}
      /\ \A q \in Queues : bindings[<<e, q>>] = NoKey
      /\ exchanges \in [Exchanges -> Kinds]
    BY <1>1 DEF Sound, Mirrored, HalfDone, TypeInv, TypeOK
<1>3. exTable' = exTable \ {e}
  <2>1. "exchange" \in tables /\ "remove" \notin Fails
    BY DEF Sound, Tables, NoFaults
  <2> QED
    BY <1>2, <2>1 DEF DeleteExchange, Remove
<1>4. bTable = {r \in Row : /\ exchanges[r.e] = "durable" /\ queues[r.q] = "durable"
                            /\ bindings[<<r.e, r.q>>] = r.key}
    BY <1>1 DEF Sound, Mirrored
<1>5. \A r \in Row : bindings[<<r.e, r.q>>] = r.key => r.e /= e
    BY <1>2, RowFacts
<1>6. Connected'
    BY <1>1, <1>2, <1>3, <1>4, <1>5 DEF Sound, Connected
<1>7. Mirrored'
  <2>1. bTable' = {r \in Row : /\ exchanges'[r.e] = "durable" /\ queues'[r.q] = "durable"
                               /\ bindings'[<<r.e, r.q>>] = r.key}
    <3>1. \A r \in Row : r.e \in Exchanges /\ r.e /= e => exchanges'[r.e] = exchanges[r.e]
      BY <1>1, <1>2
    <3>2. \A r \in Row : r.e \in Exchanges
      BY RowFacts
    <3>3. exchanges'[e] /= "durable" /\ queues' = queues /\ bindings' = bindings /\ bTable' = bTable
      BY <1>1, <1>2
    <3> QED
      BY ONLY <1>4, <1>5, <3>1, <3>2, <3>3
  <2>2. exTable' = {x \in Exchanges : exchanges'[x] = "durable"}
    BY <1>1, <1>2, <1>3
  <2>3. qTable' = {q \in Queues : queues'[q] = "durable"}
    BY <1>1 DEF Sound, Mirrored
  <2> QED
    BY <2>1, <2>2, <2>3 DEF Mirrored
<1>8. HalfDone' /\ Placed'
    BY <1>1 DEF Sound, HalfDone, Placed
<1> QED
    BY <1>1, <1>6, <1>7, <1>8, LivingSound DEF Sound

-----------------------------------------------------------------------------
(* Queues *)

LEMMA InitQueueSound ==
    ASSUME NoFaults, TypeInv, TypeInv', Sound,
           NEW q \in Queues, NEW durable \in BOOLEAN, InitQueue(q, durable)
    PROVE  Sound'
<1>1. /\ up /\ up' /\ op.pc = "idle" /\ queues[q] = "none"
      /\ stores' = stores \union {q}
      /\ op'.pc = "declare queue" /\ op'.name = q
      /\ UNCHANGED <<exchanges, queues, bindings, tables, exTable, qTable, bTable, kept>>
    BY DEF InitQueue, Request, Idle, disk
<1>2. held' = held
    BY <1>1 DEF InitQueue, Sound, Placed
<1>3. HalfDone'
    BY <1>1 DEF HalfDone
<1>4. Placed'
    BY <1>1, <1>2 DEF Sound, Placed
<1> QED
    BY <1>1, <1>3, <1>4, CatalogueFrame

LEMMA DeclareQueueSound ==
    ASSUME NoFaults, TypeInv, TypeInv', Sound, DeclareQueue
    PROVE  Sound'
<1> DEFINE n == op.name
<1>1. /\ up /\ up' /\ op.pc = "declare queue" /\ n \in Queues /\ op.durable \in BOOLEAN
      /\ queues[n] = "none" /\ n \in stores /\ queues \in [Queues -> Kinds]
      /\ op'.pc = "idle"
      /\ UNCHANGED <<exchanges, bindings, stores, held, tables, exTable, bTable, kept>>
    BY DEF DeclareQueue, Sound, HalfDone, Idle, TypeInv, TypeOK, Named
<1>2. qTable = {q \in Queues : queues[q] = "durable"}
    BY <1>1 DEF Sound, Mirrored
<1>3. /\ qTable' = IF op.durable THEN qTable \union {n} ELSE qTable
      /\ queues' = [queues EXCEPT ![n] = IF op.durable THEN "durable" ELSE "transient"]
  <2>1. n \notin qTable /\ "queue" \in tables /\ "insert" \notin Fails
    BY <1>1, <1>2 DEF Sound, Tables, NoFaults
  <2> QED
    BY <1>1, <2>1 DEF DeclareQueue, Insert
<1>4. qTable' = {q \in Queues : queues'[q] = "durable"}
    BY <1>1, <1>2, <1>3
<1>5. Connected'
    BY <1>1, <1>3 DEF Sound, Connected
<1>6. Mirrored'
  <2>1. bTable = {r \in Row : /\ exchanges[r.e] = "durable" /\ queues[r.q] = "durable"
                              /\ bindings[<<r.e, r.q>>] = r.key}
    BY <1>1 DEF Sound, Mirrored
  <2>2. \A r \in Row : bindings[<<r.e, r.q>>] = r.key => r.q /= n
    <3>1. \A e \in Exchanges : bindings[<<e, n>>] = NoKey
      BY <1>1 DEF Sound, Connected
    <3> QED
      BY <3>1, RowFacts
  <2>3. bTable' = {r \in Row : /\ exchanges'[r.e] = "durable" /\ queues'[r.q] = "durable"
                               /\ bindings'[<<r.e, r.q>>] = r.key}
    BY <1>1, <1>3, <2>1, <2>2, RowFacts
  <2>4. exTable' = {x \in Exchanges : exchanges'[x] = "durable"}
    BY <1>1 DEF Sound, Mirrored
  <2> QED
    BY <1>4, <2>3, <2>4 DEF Mirrored
<1>7. HalfDone'
    BY <1>1 DEF HalfDone
<1>8. Placed'
    BY <1>1, <1>3 DEF Sound, Placed
<1> QED
    BY <1>1, <1>5, <1>6, <1>7, <1>8, LivingSound DEF Sound

LEMMA DestroyMessagesSound ==
    ASSUME NoFaults, TypeInv, TypeInv', Sound, NEW q \in Queues, DestroyMessages(q)
    PROVE  Sound'
<1>1. /\ up /\ up' /\ op.pc = "idle"
      /\ stores' = stores \ {q} /\ held' = [held EXCEPT ![q] = {}]
      /\ op'.pc = "unbind queue" /\ op'.name = q
      /\ UNCHANGED <<exchanges, queues, bindings, tables, exTable, qTable, bTable>>
    BY DEF DestroyMessages, Request, Idle
<1>2. kept' = kept \ {q}
    BY <1>1 DEF DestroyMessages, Unlink, NoFaults, Sound, Placed
<1>3. held \in [Queues -> SUBSET {"transient", "durable"}]
    BY DEF TypeInv, TypeOK
<1>4. HalfDone'
    BY <1>1 DEF HalfDone
<1>5. Placed'
    BY <1>1, <1>2, <1>3 DEF Sound, Placed
<1> QED
    BY <1>1, <1>4, <1>5, CatalogueFrame

LEMMA UnbindQueueSound ==
    ASSUME NoFaults, TypeInv, TypeInv', Sound, UnbindQueue
    PROVE  Sound'
<1> DEFINE n == op.name
<1>1. /\ up /\ up' /\ op.pc = "unbind queue" /\ n \in Queues
      /\ bindings' = [p \in Pairs |-> IF p[2] = n THEN NoKey ELSE bindings[p]]
      /\ op'.pc = "delete queue" /\ op'.name = n
      /\ UNCHANGED <<exchanges, queues, stores, held, tables, exTable, qTable, kept>>
    BY DEF UnbindQueue, TypeInv, TypeOK, Named
<1>2. bTable' = {r \in bTable : r.q /= n}
  <2>1. "binding" \in tables /\ "remove" \notin Fails
    BY DEF Sound, Tables, NoFaults
  <2>2. bTable' = bTable \ {r \in bTable : r.q = n}
    BY <2>1 DEF UnbindQueue, Remove
  <2> QED
    BY <2>2
<1>3. \A x \in Exchanges, q \in Queues :
        bindings'[<<x, q>>] = IF q = n THEN NoKey ELSE bindings[<<x, q>>]
    BY <1>1, RowFacts
<1>4. Connected'
  <2>1. \A x \in Exchanges, q \in Queues :
          bindings'[<<x, q>>] /= NoKey => exchanges'[x] /= "none" /\ queues'[q] /= "none"
    <3>1. \A x \in Exchanges, q \in Queues :
            bindings[<<x, q>>] /= NoKey => exchanges[x] /= "none" /\ queues[q] /= "none"
      BY DEF Sound, Connected
    <3>2. exchanges' = exchanges /\ queues' = queues
      BY <1>1
    <3> QED
      BY ONLY <1>3, <3>1, <3>2
  <2>2. \A r \in bTable' : r.e \in exTable' /\ r.q \in qTable'
    BY <1>1, <1>2 DEF Sound, Connected
  <2> QED
    BY <2>1, <2>2 DEF Connected
<1>5. Mirrored'
  <2>1. bTable = {r \in Row : /\ exchanges[r.e] = "durable" /\ queues[r.q] = "durable"
                              /\ bindings[<<r.e, r.q>>] = r.key}
    BY <1>1 DEF Sound, Mirrored
  <2>2. bTable' = {r \in Row : /\ exchanges'[r.e] = "durable" /\ queues'[r.q] = "durable"
                               /\ bindings'[<<r.e, r.q>>] = r.key}
    <3>1. \A r \in Row : r.e \in Exchanges /\ r.q \in Queues /\ r.key /= NoKey
      BY RowFacts
    <3>2. exchanges' = exchanges /\ queues' = queues
      BY <1>1
    <3> QED
      BY ONLY <1>2, <1>3, <2>1, <3>1, <3>2
  <2> QED
    BY <1>1, <2>2 DEF Sound, Mirrored
<1>6. HalfDone'
    BY <1>1, <1>3 DEF HalfDone
<1>7. Placed'
    BY <1>1 DEF Sound, Placed
<1> QED
    BY <1>1, <1>4, <1>5, <1>6, <1>7, LivingSound DEF Sound

LEMMA DeleteQueueSound ==
    ASSUME NoFaults, TypeInv, TypeInv', Sound, DeleteQueue
    PROVE  Sound'
<1> DEFINE n == op.name
<1>1. /\ up /\ up' /\ op.pc = "delete queue" /\ n \in Queues
      /\ queues' = [queues EXCEPT ![n] = "none"]
      /\ op'.pc = "idle"
      /\ UNCHANGED <<exchanges, bindings, stores, held, tables, exTable, bTable, kept>>
    BY DEF DeleteQueue, Idle, TypeInv, Named
<1>2. /\ qTable = {q \in Queues : queues[q] = "durable"}
      /\ \A e \in Exchanges : bindings[<<e, n>>] = NoKey
      /\ queues \in [Queues -> Kinds] /\ n \notin kept
    BY <1>1 DEF Sound, Mirrored, HalfDone, Placed, TypeInv, TypeOK
<1>3. qTable' = qTable \ {n}
  <2>1. "queue" \in tables /\ "remove" \notin Fails
    BY DEF Sound, Tables, NoFaults
  <2> QED
    BY <1>2, <2>1 DEF DeleteQueue, Remove
<1>4. bTable = {r \in Row : /\ exchanges[r.e] = "durable" /\ queues[r.q] = "durable"
                            /\ bindings[<<r.e, r.q>>] = r.key}
    BY <1>1 DEF Sound, Mirrored
<1>5. \A r \in Row : bindings[<<r.e, r.q>>] = r.key => r.q /= n
    BY <1>2, RowFacts
<1>6. Connected'
    BY <1>1, <1>2, <1>3, <1>4, <1>5 DEF Sound, Connected
<1>7. Mirrored'
  <2>1. bTable' = {r \in Row : /\ exchanges'[r.e] = "durable" /\ queues'[r.q] = "durable"
                               /\ bindings'[<<r.e, r.q>>] = r.key}
    <3>1. \A q \in Queues : q /= n => (queues'[q] = "durable" <=> queues[q] = "durable")
      BY <1>1, <1>2
    <3>2. queues'[n] /= "durable"
      BY <1>1, <1>2
    <3>3. exchanges' = exchanges /\ bindings' = bindings /\ bTable' = bTable
      BY <1>1
    <3> HIDE DEF n
    <3> QED
      BY <1>4, <1>5, <3>1, <3>2, <3>3, RowFacts
  <2>2. qTable' = {q \in Queues : queues'[q] = "durable"}
    BY <1>1, <1>2, <1>3
  <2>3. exTable' = {x \in Exchanges : exchanges'[x] = "durable"}
    BY <1>1 DEF Sound, Mirrored
  <2> QED
    BY <2>1, <2>2, <2>3 DEF Mirrored
<1>8. HalfDone'
    BY <1>1 DEF HalfDone
<1>9. Placed'
    BY <1>1, <1>2, <1>3 DEF Sound, Placed
<1> QED
    BY <1>1, <1>6, <1>7, <1>8, <1>9, LivingSound DEF Sound

-----------------------------------------------------------------------------
(* Bindings *)

LEMMA BindSound ==
    ASSUME NoFaults, TypeInv, TypeInv', Sound,
           NEW e \in Exchanges, NEW q \in Queues, NEW key \in Keys, Bind(e, q, key)
    PROVE  Sound'
<1> DEFINE both == exchanges[e] = "durable" /\ queues[q] = "durable"
           row == [e |-> e, q |-> q, key |-> key]
<1>1. /\ up /\ up' /\ op.pc = "idle"
      /\ exchanges[e] /= "none" /\ queues[q] /= "none" /\ bindings[<<e, q>>] = NoKey
      /\ UNCHANGED <<exchanges, queues, stores, held, tables, exTable, qTable, kept, op>>
    BY DEF Bind, Request
<1>2. /\ bindings' = [bindings EXCEPT ![<<e, q>>] = key]
      /\ bTable' = IF both THEN bTable \union {row} ELSE bTable
  <2>1. "binding" \in tables /\ "insert" \notin Fails
    BY DEF Sound, Tables, NoFaults
  <2>2. \A ok : Insert("binding", TRUE, ok) => ok = TRUE
    BY <2>1 DEF Insert
  <2> QED
    BY <2>2 DEF Bind
<1>3. row \in Row /\ <<e, q>> \in Pairs /\ row.e = e /\ row.q = q /\ row.key = key
    BY RowFacts DEF Row
<1>4. \A x \in Exchanges, y \in Queues :
        bindings'[<<x, y>>] = IF x = e /\ y = q THEN key ELSE bindings[<<x, y>>]
    BY <1>2, <1>3, RowFacts DEF TypeInv, TypeOK
<1>5. bTable = {r \in Row : /\ exchanges[r.e] = "durable" /\ queues[r.q] = "durable"
                            /\ bindings[<<r.e, r.q>>] = r.key}
    BY <1>1 DEF Sound, Mirrored
<1>6. /\ exTable = {x \in Exchanges : exchanges[x] = "durable"}
      /\ qTable = {y \in Queues : queues[y] = "durable"}
    BY <1>1 DEF Sound, Mirrored
<1>7. bTable' = {r \in Row : /\ exchanges[r.e] = "durable" /\ queues[r.q] = "durable"
                             /\ bindings'[<<r.e, r.q>>] = r.key}
  <2>1. \A r \in Row : r.e = e /\ r.q = q /\ r.key = key => r = row
    BY <1>3, RowFacts
  <2>2. \A r \in Row : bindings'[<<r.e, r.q>>] = r.key
                         <=> bindings[<<r.e, r.q>>] = r.key \/ r = row
    <3>1. SUFFICES ASSUME NEW r \in Row
                   PROVE  bindings'[<<r.e, r.q>>] = r.key
                            <=> bindings[<<r.e, r.q>>] = r.key \/ r = row
      OBVIOUS
    <3>2. r.e \in Exchanges /\ r.q \in Queues /\ r.key /= NoKey
      BY RowFacts
    <3>3. bindings'[<<r.e, r.q>>] = IF r.e = e /\ r.q = q THEN key ELSE bindings[<<r.e, r.q>>]
      BY <1>4, <3>2
    <3>4. CASE r.e = e /\ r.q = q
      <4>1. bindings[<<r.e, r.q>>] /= r.key
        BY <1>1, <3>2, <3>4
      <4>2. key = r.key <=> r = row
        BY <1>3, <2>1, <3>4
      <4> HIDE DEF row
      <4> QED
        BY <3>3, <3>4, <4>1, <4>2
    <3>5. CASE ~(r.e = e /\ r.q = q)
      <4>1. r /= row
        BY <1>3, <3>5
      <4> HIDE DEF row
      <4> QED
        BY <3>3, <3>5, <4>1
    <3> QED
      BY <3>4, <3>5
  <2>3. \A r : r \in bTable' <=> r \in bTable \/ (both /\ r = row)
    BY <1>2
  <2> HIDE DEF row
  <2> QED
    BY <1>3, <1>5, <2>2, <2>3
<1>8. Connected'
  <2>1. \A x \in Exchanges, y \in Queues :
          bindings[<<x, y>>] /= NoKey => exchanges[x] /= "none" /\ queues[y] /= "none"
    BY DEF Sound, Connected
  <2>2. \A x \in Exchanges, y \in Queues :
          bindings'[<<x, y>>] /= NoKey => exchanges[x] /= "none" /\ queues[y] /= "none"
    BY <1>1, <1>4, <2>1
  <2>3. \A r \in bTable' : r.e \in exTable /\ r.q \in qTable
    BY <1>6, <1>7, RowFacts
  <2> QED
    BY <1>1, <2>2, <2>3 DEF Connected
<1>9. Mirrored'
    BY <1>1, <1>6, <1>7 DEF Mirrored
<1>10. HalfDone' /\ Placed'
    BY <1>1 DEF Sound, HalfDone, Placed
<1> QED
    BY <1>1, <1>8, <1>9, <1>10, LivingSound DEF Sound

LEMMA UnbindSound ==
    ASSUME NoFaults, TypeInv, TypeInv', Sound, NEW e \in Exchanges, NEW q \in Queues, Unbind(e, q)
    PROVE  Sound'
<1>1. /\ up /\ up' /\ op.pc = "idle"
      /\ bindings' = [bindings EXCEPT ![<<e, q>>] = NoKey]
      /\ UNCHANGED <<exchanges, queues, stores, held, tables, exTable, qTable, kept, op>>
    BY DEF Unbind, Request
<1>2. bTable' = {r \in bTable : ~(r.e = e /\ r.q = q)}
  <2>1. "binding" \in tables /\ "remove" \notin Fails
    BY DEF Sound, Tables, NoFaults
  <2>2. bTable' = bTable \ {r \in bTable : r.e = e /\ r.q = q}
    BY <2>1 DEF Unbind, Remove
  <2> QED
    BY <2>2
<1>3. \A x \in Exchanges, y \in Queues :
        bindings'[<<x, y>>] = IF x = e /\ y = q THEN NoKey ELSE bindings[<<x, y>>]
    BY <1>1, RowFacts DEF TypeInv, TypeOK
<1>4. Connected'
  <2>1. \A x \in Exchanges, y \in Queues :
          bindings[<<x, y>>] /= NoKey => exchanges[x] /= "none" /\ queues[y] /= "none"
    BY DEF Sound, Connected
  <2>2. \A r \in bTable' : r.e \in exTable' /\ r.q \in qTable'
    BY <1>1, <1>2 DEF Sound, Connected
  <2> QED
    BY <1>1, <1>3, <2>1, <2>2 DEF Connected
<1>5. Mirrored'
  <2>1. bTable = {r \in Row : /\ exchanges[r.e] = "durable" /\ queues[r.q] = "durable"
                              /\ bindings[<<r.e, r.q>>] = r.key}
    BY <1>1 DEF Sound, Mirrored
  <2>2. bTable' = {r \in Row : /\ exchanges'[r.e] = "durable" /\ queues'[r.q] = "durable"
                               /\ bindings'[<<r.e, r.q>>] = r.key}
    BY <1>1, <1>2, <1>3, <2>1, RowFacts
  <2> QED
    BY <1>1, <2>2 DEF Sound, Mirrored
<1>6. HalfDone' /\ Placed'
    BY <1>1 DEF Sound, HalfDone, Placed
<1> QED
    BY <1>1, <1>4, <1>5, <1>6, LivingSound DEF Sound

-----------------------------------------------------------------------------
(* Messages *)

LEMMA PublishSound ==
    ASSUME NoFaults, TypeInv, TypeInv', Sound,
           NEW e \in Exchanges, NEW todo \in SUBSET Queues, NEW durable \in BOOLEAN,
           Publish(e, todo, durable)
    PROVE  Sound'
<1>1. /\ up /\ up' /\ op.pc = "idle" /\ op'.pc = "publish"
      /\ UNCHANGED <<exchanges, queues, bindings, stores, held, tables, exTable, qTable, bTable, kept>>
    BY DEF Publish, Request, memory, disk
<1>2. HalfDone'
    BY <1>1 DEF HalfDone
<1>3. Placed'
    BY <1>1 DEF Sound, Placed
<1> QED
    BY <1>1, <1>2, <1>3, CatalogueFrame

LEMMA InsertMessageSound ==
    ASSUME NoFaults, TypeInv, TypeInv', Sound, NEW q \in Queues, InsertMessage(q)
    PROVE  Sound'
<1> DEFINE durable == op.durable /\ queues[q] = "durable"
<1>1. /\ up /\ up' /\ op.pc = "publish" /\ op'.pc \in {"idle", "publish"}
      /\ UNCHANGED <<exchanges, queues, bindings, stores, tables, exTable, qTable, bTable>>
    BY DEF InsertMessage, Idle, TypeInv, TypeOK
<1>2. \/ UNCHANGED <<held, kept>>
      \/ /\ q \in stores /\ held' = [held EXCEPT ![q] = @ \union {Kind(durable)}]
         /\ kept' = IF durable THEN kept \union {q} ELSE kept
    BY DEF InsertMessage
<1>3. /\ held \in [Queues -> SUBSET {"transient", "durable"}]
      /\ Kind(durable) = IF durable THEN "durable" ELSE "transient"
    BY DEF TypeInv, TypeOK, Kind
<1>4. durable => q \in qTable
    BY <1>1 DEF Sound, Mirrored
<1>5. HalfDone'
    BY <1>1 DEF HalfDone
<1>6. Placed'
  <2>1. CASE UNCHANGED <<held, kept>>
    BY <1>1, <2>1 DEF Sound, Placed
  <2>2. CASE /\ q \in stores /\ held' = [held EXCEPT ![q] = @ \union {Kind(durable)}]
             /\ kept' = IF durable THEN kept \union {q} ELSE kept
    <3> HIDE DEF durable
    <3>1. \A x \in Queues : x \in kept' <=> "durable" \in held'[x]
      <4>1. \A x \in Queues : x \in kept <=> "durable" \in held[x]
        BY <1>1 DEF Sound, Placed
      <4> QED
        BY <1>3, <2>2, <4>1
    <3>2. kept' \subseteq qTable' /\ kept' \subseteq stores'
      BY <1>1, <1>4, <2>2 DEF Sound, Placed
    <3>3. \A x \in Queues : queues'[x] /= "none" => x \in stores'
      BY <1>1 DEF Sound, Placed
    <3> QED
      BY <1>1, <3>1, <3>2, <3>3 DEF Placed
  <2> QED
    BY <1>2, <2>1, <2>2
<1> QED
    BY <1>1, <1>5, <1>6, CatalogueFrame

LEMMA DrainSound ==
    ASSUME NoFaults, TypeInv, TypeInv', Sound, NEW q \in Queues, Drain(q)
    PROVE  Sound'
<1>1. /\ up /\ up' /\ held' = [held EXCEPT ![q] = {}] /\ kept' = kept \ {q}
      /\ UNCHANGED <<exchanges, queues, bindings, stores, tables, exTable, qTable, bTable, op>>
    BY DEF Drain, Unlink, NoFaults
<1>2. held \in [Queues -> SUBSET {"transient", "durable"}]
    BY DEF TypeInv, TypeOK
<1>3. HalfDone'
    BY <1>1 DEF Sound, HalfDone
<1>4. Placed'
    BY <1>1, <1>2 DEF Sound, Placed
<1> QED
    BY <1>1, <1>3, <1>4, CatalogueFrame

-----------------------------------------------------------------------------
(* The end of the process and the next one *)

LEMMA CrashSound ==
    ASSUME NoFaults, TypeInv, TypeInv', Sound, Crash
    PROVE  Sound'
<1>1. /\ ~up' /\ op' = Idle /\ bindings' = [p \in Pairs |-> NoKey]
      /\ UNCHANGED <<tables, exTable, qTable, bTable, kept>>
    BY DEF Crash, disk
<1>2. Connected'
    BY <1>1, RowFacts DEF Sound, Connected
<1>3. Mirrored' /\ OneKey' /\ NothingHeld'
    BY <1>1 DEF Sound, Mirrored, OneKey, NothingHeld
<1>4. HalfDone' /\ Placed'
    BY <1>1 DEF Sound, HalfDone, Placed, Idle
<1> QED
    BY <1>1, <1>2, <1>3, <1>4 DEF Sound

\* A constructor whose selects succeed reads its table.
LEMMA WholeTablesRead ==
    ASSUME NoFaults, Restart
    PROVE  /\ exchanges' = [e \in Exchanges |-> IF e \in exTable THEN "durable" ELSE "none"]
           /\ queues' = [q \in Queues |-> IF q \in qTable THEN "durable" ELSE "none"]
           /\ stores' = qTable
           /\ held' = [q \in Queues |-> IF q \in qTable \intersect kept THEN {"durable"} ELSE {}]
           /\ \A p \in Pairs : IF Rows(p) = {} THEN bindings'[p] = NoKey
                               ELSE \E r \in Rows(p) : bindings'[p] = r.key
<1>1. Selected(exTable) = {exTable} /\ Selected(qTable) = {qTable} /\ Selected(bTable) = {bTable}
    BY DEF Selected, NoFaults
<1>2. LoadedFrom(bindings', bTable)
    BY <1>1 DEF Restart
<1>3. \A p \in Pairs : Rows(p) \intersect bTable = Rows(p)
    BY DEF Rows
<1> QED
    BY <1>1, <1>2, <1>3 DEF Restart, LoadedFrom

LEMMA RestartSound ==
    ASSUME NoFaults, TypeInv, TypeInv', Sound, Restart
    PROVE  Sound'
<1>1. /\ ~up /\ up' /\ tables' = Tables
      /\ exchanges' = [e \in Exchanges |-> IF e \in exTable THEN "durable" ELSE "none"]
      /\ queues' = [q \in Queues |-> IF q \in qTable THEN "durable" ELSE "none"]
      /\ stores' = qTable
      /\ held' = [q \in Queues |-> IF q \in qTable \intersect kept THEN {"durable"} ELSE {}]
      /\ UNCHANGED <<exTable, qTable, bTable, kept, op>>
    BY WholeTablesRead DEF Restart
<1>2. /\ op = Idle /\ exTable \subseteq Exchanges /\ qTable \subseteq Queues /\ bTable \subseteq Row
      /\ \A r \in bTable : r.e \in exTable /\ r.q \in qTable
    BY <1>1 DEF Sound, NothingHeld, Connected, TypeInv, TypeOK
<1>3. \A r \in bTable : bindings'[<<r.e, r.q>>] = r.key
  <2>1. SUFFICES ASSUME NEW r \in bTable PROVE bindings'[<<r.e, r.q>>] = r.key
    OBVIOUS
  <2> DEFINE p == <<r.e, r.q>>
  <2>2. p \in Pairs /\ p[1] = r.e /\ p[2] = r.q /\ r \in Rows(p)
    BY <1>2, RowFacts DEF Rows
  <2>3. PICK s \in Rows(p) : bindings'[p] = s.key
    BY <2>2, WholeTablesRead
  <2>4. s \in bTable /\ s.e = r.e /\ s.q = r.q
    BY <2>2, <2>3 DEF Rows
  <2>5. s = r
    BY <2>4 DEF Sound, OneKey
  <2> QED
    BY <2>3, <2>5
<1>4. \A e \in Exchanges, q \in Queues :
        bindings'[<<e, q>>] /= NoKey => \E r \in bTable : r.e = e /\ r.q = q /\ bindings'[<<e, q>>] = r.key
  <2>1. SUFFICES ASSUME NEW e \in Exchanges, NEW q \in Queues, bindings'[<<e, q>>] /= NoKey
                 PROVE  \E r \in bTable : r.e = e /\ r.q = q /\ bindings'[<<e, q>>] = r.key
    OBVIOUS
  <2> DEFINE p == <<e, q>>
  <2>2. p \in Pairs /\ p[1] = e /\ p[2] = q
    BY RowFacts
  <2>3. PICK r \in Rows(p) : bindings'[p] = r.key
    BY <2>1, <2>2, WholeTablesRead
  <2>4. r \in bTable /\ r.e = e /\ r.q = q
    BY <2>2, <2>3 DEF Rows
  <2> QED
    BY <2>3, <2>4
<1>5. Connected'
  <2>1. \A e \in Exchanges, q \in Queues :
          bindings'[<<e, q>>] /= NoKey => exchanges'[e] /= "none" /\ queues'[q] /= "none"
    BY <1>1, <1>2, <1>4
  <2> QED
    BY <1>1, <1>2, <2>1 DEF Connected
<1>6. Mirrored'
  <2>1. exTable' = {e \in Exchanges : exchanges'[e] = "durable"}
    BY <1>1, <1>2
  <2>2. qTable' = {q \in Queues : queues'[q] = "durable"}
    BY <1>1, <1>2
  <2>3. \A r \in bTable : /\ r \in Row /\ exchanges'[r.e] = "durable" /\ queues'[r.q] = "durable"
                          /\ bindings'[<<r.e, r.q>>] = r.key
    BY <1>1, <1>2, <1>3, RowFacts
  <2>4. \A r \in Row : bindings'[<<r.e, r.q>>] = r.key => r \in bTable
    BY <1>2, <1>4, RowFacts
  <2>5. bTable' = {r \in Row : /\ exchanges'[r.e] = "durable" /\ queues'[r.q] = "durable"
                               /\ bindings'[<<r.e, r.q>>] = r.key}
    BY <1>1, <2>3, <2>4
  <2> QED
    BY <2>1, <2>2, <2>5 DEF Mirrored
<1>7. HalfDone'
    BY <1>1, <1>2 DEF HalfDone, Idle
<1>8. Placed'
    BY <1>1, <1>2 DEF Sound, Placed, Idle
<1> QED
    BY <1>1, <1>5, <1>6, <1>7, <1>8, LivingSound

-----------------------------------------------------------------------------

LEMMA NextSound ==
    ASSUME NoFaults, TypeInv, TypeInv', Sound, [Next]_vars
    PROVE  Sound'
<1>1. CASE UNCHANGED vars
  <2>1. UNCHANGED <<up, exchanges, queues, bindings, stores, held, tables, exTable, qTable, bTable, kept, op>>
    BY <1>1 DEF vars, memory, disk
  <2>2. Connected' /\ Mirrored' /\ OneKey' /\ NothingHeld'
    BY <2>1 DEF Sound, Connected, Mirrored, OneKey, NothingHeld
  <2>3. HalfDone' /\ Placed'
    BY <2>1 DEF Sound, HalfDone, Placed
  <2> QED
    BY <2>1, <2>2, <2>3 DEF Sound
<1>2. CASE ClearExchanges \/ ClearQueues \/ ClearBindings \/ ClearMessages
    BY <1>2 DEF ClearExchanges, ClearQueues, ClearBindings, ClearMessages, NoFaults, Sound, HalfDone
<1>3. CASE \E e \in Exchanges, durable \in BOOLEAN : DeclareExchange(e, durable)
    BY <1>3, DeclareExchangeSound
<1>4. CASE (\E e \in Exchanges : UnbindExchange(e)) \/ DeleteExchange
    BY <1>4, UnbindExchangeSound, DeleteExchangeSound
<1>5. CASE \E q \in Queues, durable \in BOOLEAN : InitQueue(q, durable)
    BY <1>5, InitQueueSound
<1>6. CASE DeclareQueue \/ (\E q \in Queues : DestroyMessages(q)) \/ UnbindQueue \/ DeleteQueue
    BY <1>6, DeclareQueueSound, DestroyMessagesSound, UnbindQueueSound, DeleteQueueSound
<1>7. CASE \E e \in Exchanges, q \in Queues : Unbind(e, q) \/ \E key \in Keys : Bind(e, q, key)
    BY <1>7, UnbindSound, BindSound
<1>8. CASE \E e \in Exchanges, todo \in SUBSET Queues, durable \in BOOLEAN : Publish(e, todo, durable)
  <2>1. PICK e \in Exchanges, todo \in SUBSET Queues, durable \in BOOLEAN : Publish(e, todo, durable)
    BY ONLY <1>8
  <2> QED
    BY <2>1, PublishSound
<1>9. CASE \E q \in Queues : InsertMessage(q) \/ Drain(q)
    BY <1>9, InsertMessageSound, DrainSound
<1>10. CASE Crash \/ Restart
    BY <1>10, CrashSound, RestartSound
<1> QED
    BY <1>1, <1>2, <1>3, <1>4, <1>5, <1>6, <1>7, <1>8, <1>9, <1>10 DEF Next, Handler

\* As long as every statement succeeds and clear() is not called: bindings connect what
\* exists, tables and memory agree, and every queue can take messages, for any number of
\* exchanges, queues and keys, through crashes in the middle of any handler
\* (virtual_host.hpp:39-102).
THEOREM HostSafety ==
    ASSUME NoFaults
    PROVE  Spec => [](Connected /\ Mirrored /\ Deliverable)
<1>1. Init => TypeInv /\ Sound
    BY InitType, InitSound
<1>2. TypeInv /\ Sound /\ [Next]_vars => TypeInv' /\ Sound'
    BY NextType, NextSound
<1>3. TypeInv /\ Sound => Connected /\ Mirrored /\ Deliverable
    BY DEF Sound, Placed, Deliverable
<1> QED
    BY <1>1, <1>2, <1>3, PTL DEF Spec

\* Under the same condition no binding outlives its exchange or its queue, in memory or
\* in the tables, in the middle of a deletion and after a crash there too
\* (virtual_host.hpp:46-50, 61-65).
THEOREM NoDanglingBinding ==
    ASSUME NoFaults
    PROVE  Spec => []Connected
BY HostSafety, PTL

\* Under the same condition a queue that exists between two requests has the
\* queue_message its messages go to, after a restart too (virtual_host.hpp:51-60).
THEOREM QueuesTakeMessages ==
    ASSUME NoFaults
    PROVE  Spec => []Deliverable
BY HostSafety, PTL

-----------------------------------------------------------------------------
(* What a deletion leaves of a queue: nothing *)

\* A step that leaves the messages alone and removes no queue but one in deletion.
LEMMA LeftFrame ==
    ASSUME NothingLeft, up, held' = held, op'.pc /= "publish",
           \A q \in Queues :
              queues'[q] = "none" \/ (op'.pc \in {"unbind queue", "delete queue"} /\ op'.name = q)
                => queues[q] = "none" \/ (op.pc \in {"unbind queue", "delete queue"} /\ op.name = q)
    PROVE  NothingLeft'
BY DEF NothingLeft

LEMMA RequestLeft ==
    ASSUME NoFaults, TypeInv, Sound, NothingLeft,
           \/ \E e \in Exchanges, durable \in BOOLEAN : DeclareExchange(e, durable)
           \/ \E e \in Exchanges : UnbindExchange(e)
           \/ DeleteExchange
           \/ \E e \in Exchanges, q \in Queues : Unbind(e, q) \/ \E key \in Keys : Bind(e, q, key)
    PROVE  NothingLeft'
<1>1. ASSUME NEW e \in Exchanges, NEW durable \in BOOLEAN, DeclareExchange(e, durable)
      PROVE  NothingLeft'
  <2>1. up /\ op.pc = "idle" /\ UNCHANGED <<queues, held, op>>
    BY <1>1 DEF DeclareExchange, Request
  <2> QED
    BY <2>1, LeftFrame
<1>2. ASSUME NEW e \in Exchanges, UnbindExchange(e)
      PROVE  NothingLeft'
  <2>1. up /\ op'.pc = "delete exchange" /\ UNCHANGED <<queues, held>>
    BY <1>2 DEF UnbindExchange, Request, Idle
  <2> QED
    BY <2>1, LeftFrame
<1>3. CASE DeleteExchange
  <2>1. up /\ op'.pc = "idle" /\ UNCHANGED <<queues, held>>
    BY <1>3 DEF DeleteExchange, Idle
  <2> QED
    BY <2>1, LeftFrame
<1>4. ASSUME NEW e \in Exchanges, NEW q \in Queues, Unbind(e, q)
      PROVE  NothingLeft'
  <2>1. up /\ op.pc = "idle" /\ UNCHANGED <<queues, held, op>>
    BY <1>4 DEF Unbind, Request
  <2> QED
    BY <2>1, LeftFrame
<1>5. ASSUME NEW e \in Exchanges, NEW q \in Queues, NEW key \in Keys, Bind(e, q, key)
      PROVE  NothingLeft'
  <2>1. up /\ op.pc = "idle" /\ UNCHANGED <<queues, held, op>>
    BY <1>5 DEF Bind, Request
  <2> QED
    BY <2>1, LeftFrame
<1> QED
    BY <1>1, <1>2, <1>3, <1>4, <1>5, Zenon

\* A queue that is declared finds no messages: the name has no file.
LEMMA InitQueueHeld ==
    ASSUME Sound, NEW q \in Queues, NEW durable \in BOOLEAN, InitQueue(q, durable)
    PROVE  held' = held
<1>1. up /\ queues[q] = "none"
    BY DEF InitQueue, Request
<1>2. q \notin qTable
    BY <1>1 DEF Sound, Mirrored
<1>3. q \notin kept
    BY <1>2 DEF Sound, Placed
<1> QED
    BY <1>3 DEF InitQueue

LEMMA QueueLeft ==
    ASSUME NoFaults, TypeInv, Sound, NothingLeft,
           \/ \E q \in Queues, durable \in BOOLEAN : InitQueue(q, durable)
           \/ DeclareQueue
           \/ \E q \in Queues : DestroyMessages(q)
           \/ UnbindQueue \/ DeleteQueue
    PROVE  NothingLeft'
<1>1. ASSUME NEW q \in Queues, NEW durable \in BOOLEAN, InitQueue(q, durable)
      PROVE  NothingLeft'
  <2>1. up /\ op'.pc = "declare queue" /\ queues' = queues
    BY <1>1 DEF InitQueue, Request, Idle
  <2> QED
    BY <1>1, <2>1, InitQueueHeld, LeftFrame
<1>2. CASE DeclareQueue
  <2>1. up /\ op' = Idle /\ held' = held
    BY <1>2 DEF DeclareQueue
  <2>2. \E kind : queues' = [queues EXCEPT ![op.name] = kind]
    BY <1>2, Zenon DEF DeclareQueue
  <2>3. op.pc = "declare queue" /\ queues[op.name] = "none"
    BY <1>2 DEF DeclareQueue, Sound, HalfDone
  <2>4. \A q \in Queues : queues'[q] = "none" => queues[q] = "none"
    BY <2>2, <2>3 DEF TypeInv, TypeOK
  <2> QED
    BY <2>1, <2>4, LeftFrame DEF Idle
<1>3. ASSUME NEW q \in Queues, DestroyMessages(q)
      PROVE  NothingLeft'
  <2>1. /\ up /\ op.pc = "idle" /\ op'.pc = "unbind queue" /\ op'.name = q
        /\ queues' = queues /\ held' = [held EXCEPT ![q] = {}]
    BY <1>3 DEF DestroyMessages, Request, Idle
  <2> QED
    BY <2>1 DEF NothingLeft, TypeInv, TypeOK
<1>4. CASE UnbindQueue
  <2>1. /\ up /\ op.pc = "unbind queue" /\ op'.pc = "delete queue" /\ op'.name = op.name
        /\ UNCHANGED <<queues, held>>
    BY <1>4 DEF UnbindQueue, TypeInv, TypeOK
  <2> QED
    BY <2>1, LeftFrame
<1>5. CASE DeleteQueue
  <2>1. /\ up /\ op.pc = "delete queue" /\ op'.pc = "idle" /\ held' = held
        /\ queues' = [queues EXCEPT ![op.name] = "none"]
    BY <1>5 DEF DeleteQueue, Idle
  <2>2. \A q \in Queues : q /= op.name => queues'[q] = queues[q]
    BY <2>1 DEF TypeInv, TypeOK
  <2> QED
    BY <2>1, <2>2, LeftFrame
<1> QED
    BY <1>1, <1>2, <1>3, <1>4, <1>5, Zenon

LEMMA PublishLeft ==
    ASSUME NothingLeft, NEW e \in Exchanges, NEW todo \in SUBSET Queues, NEW durable \in BOOLEAN,
           Publish(e, todo, durable)
    PROVE  NothingLeft'
<1>1. /\ up /\ op.pc = "idle" /\ UNCHANGED <<queues, held, bindings>>
      /\ op'.pc = "publish" /\ op'.name = e /\ op'.todo = todo
      /\ \A q \in todo : bindings[<<e, q>>] /= NoKey
    BY DEF Publish, Request, memory
<1> QED
    BY <1>1 DEF NothingLeft

LEMMA MessageLeft ==
    ASSUME TypeInv, NothingLeft, NEW q \in Queues, InsertMessage(q) \/ Drain(q)
    PROVE  NothingLeft'
<1>1. CASE InsertMessage(q)
  <2>1. up /\ op.pc = "publish" /\ q \in op.todo /\ UNCHANGED <<queues, bindings>>
    BY <1>1 DEF InsertMessage
  <2>2. \/ held' = held
        \/ queues[q] /= "none" /\ \E s : held' = [held EXCEPT ![q] = s]
    BY <1>1, Zenon DEF InsertMessage
  <2>3. \/ op'.pc = "idle"
        \/ op'.pc = "publish" /\ op'.name = op.name /\ op'.todo \subseteq op.todo
    BY <1>1 DEF InsertMessage, Idle, TypeInv, TypeOK
  <2>4. \A x \in Queues : queues[x] = "none" => held'[x] = {}
    BY <2>1, <2>2 DEF NothingLeft, TypeInv, TypeOK
  <2> QED
    BY <2>1, <2>3, <2>4 DEF NothingLeft
<1>2. CASE Drain(q)
  <2>1. up /\ held' = [held EXCEPT ![q] = {}] /\ UNCHANGED <<queues, bindings, op>>
    BY <1>2 DEF Drain
  <2> QED
    BY <2>1 DEF NothingLeft, TypeInv, TypeOK
<1> QED
    BY <1>1, <1>2

LEMMA ProcessLeft ==
    ASSUME Sound, Crash \/ Restart
    PROVE  NothingLeft'
<1>1. CASE Crash
  <2>1. ~up' /\ op'.pc = "idle"
    BY <1>1 DEF Crash, Idle
  <2> QED
    BY <2>1 DEF NothingLeft
<1>2. CASE Restart
  <2>1. op'.pc = "idle"
    BY <1>2 DEF Restart, Sound, NothingHeld, Idle
  <2>2. \A q \in Queues : queues'[q] = "none" => held'[q] = {}
    BY <1>2 DEF Restart
  <2> QED
    BY <2>1, <2>2 DEF NothingLeft
<1> QED
    BY <1>1, <1>2

LEMMA NoClearing ==
    ASSUME NoFaults, Sound
    PROVE  ~(ClearExchanges \/ ClearQueues \/ ClearBindings \/ ClearMessages)
BY DEF ClearExchanges, ClearQueues, ClearBindings, ClearMessages, NoFaults, Sound, HalfDone

LEMMA NextLeft ==
    ASSUME NoFaults, TypeInv, Sound, NothingLeft, [Next]_vars
    PROVE  NothingLeft'
<1>1. CASE UNCHANGED vars
    BY <1>1 DEF vars, memory, NothingLeft
<1>2. CASE \E e \in Exchanges, todo \in SUBSET Queues, durable \in BOOLEAN : Publish(e, todo, durable)
  <2>1. PICK e \in Exchanges, todo \in SUBSET Queues, durable \in BOOLEAN : Publish(e, todo, durable)
    BY ONLY <1>2
  <2> QED
    BY <2>1, PublishLeft
<1>3. CASE \E q \in Queues : InsertMessage(q) \/ Drain(q)
    BY <1>3, MessageLeft
<1>4. CASE Crash \/ Restart
    BY <1>4, ProcessLeft
<1> QED
    BY <1>1, <1>2, <1>3, <1>4, RequestLeft, QueueLeft, NoClearing DEF Next, Handler

-----------------------------------------------------------------------------
(* Every step is a step of Catalogue or none *)

\* While the process lives clients see its memory.
LEMMA SeenLiving ==
    /\ up => /\ seenExchanges = exchanges /\ seenQueues = queues
             /\ seenBindings = bindings /\ seenHeld = held
    /\ up' => /\ seenExchanges' = exchanges' /\ seenQueues' = queues'
              /\ seenBindings' = bindings' /\ seenHeld' = held'
BY DEF seenExchanges, seenQueues, seenBindings, seenHeld

LEMMA InitPromise ==
    Init => Promise!Init
BY DEF Init, Promise!Init, Pairs, seenExchanges, seenQueues, seenBindings, seenHeld

\* A step that clients do not see.
LEMMA Unseen ==
    ASSUME up, up', UNCHANGED <<exchanges, queues, bindings, held>>
    PROVE  UNCHANGED Promise!vars
BY SeenLiving DEF Promise!vars

LEMMA ExchangePromise ==
    ASSUME NoFaults, TypeInv, Sound,
           \/ \E e \in Exchanges, durable \in BOOLEAN : DeclareExchange(e, durable)
           \/ \E e \in Exchanges : UnbindExchange(e)
           \/ DeleteExchange
    PROVE  Promise!Next
<1>1. ASSUME NEW e \in Exchanges, NEW durable \in BOOLEAN, DeclareExchange(e, durable)
      PROVE  Promise!Next
  <2>1. /\ up /\ up' /\ exchanges[e] = "none"
        /\ exchanges' = [exchanges EXCEPT ![e] = Kind(durable)]
        /\ UNCHANGED <<queues, bindings, held>>
    BY <1>1 DEF DeclareExchange, Request
  <2>2. Kind(durable) \in Promise!Kinds /\ Kind(durable) /= "none"
    BY DEF Kind, Promise!Kinds
  <2>3. \A q \in Queues : bindings[<<e, q>>] = NoKey
    BY <2>1 DEF Sound, Connected
  <2>4. Promise!DeclareExchange(e, Kind(durable))
    BY <2>1, <2>2, <2>3, SeenLiving DEF Promise!DeclareExchange
  <2> QED
    BY <2>2, <2>4 DEF Promise!Next
<1>2. ASSUME NEW e \in Exchanges, UnbindExchange(e)
      PROVE  Promise!Next
  <2> DEFINE pairs == {p \in Exchanges \X Queues : p[1] = e}
  <2>1. /\ up /\ up' /\ UNCHANGED <<exchanges, queues, held>>
        /\ bindings' = [p \in Exchanges \X Queues |-> IF p \in pairs THEN NoKey ELSE bindings[p]]
    BY <1>2 DEF UnbindExchange, Request, Pairs
  <2>2. pairs \in SUBSET (Exchanges \X Queues)
    OBVIOUS
  <2> HIDE DEF pairs
  <2>3. Promise!Unbind(pairs)
    BY <2>1, SeenLiving DEF Promise!Unbind
  <2> QED
    BY <2>2, <2>3 DEF Promise!Next
<1>3. CASE DeleteExchange
  <2>1. /\ up /\ up' /\ op.name \in Exchanges
        /\ exchanges' = [exchanges EXCEPT ![op.name] = "none"]
        /\ UNCHANGED <<queues, bindings, held>>
        /\ \A q \in Queues : bindings[<<op.name, q>>] = NoKey
    BY <1>3 DEF DeleteExchange, TypeInv, Named, Sound, HalfDone
  <2>2. Promise!DeleteExchange(op.name)
    BY <2>1, SeenLiving DEF Promise!DeleteExchange
  <2> QED
    BY <2>1, <2>2 DEF Promise!Next
<1> QED
    BY <1>1, <1>2, <1>3

LEMMA QueuePromise ==
    ASSUME NoFaults, TypeInv, Sound, NothingLeft,
           \/ \E q \in Queues, durable \in BOOLEAN : InitQueue(q, durable)
           \/ DeclareQueue
           \/ \E q \in Queues : DestroyMessages(q)
           \/ UnbindQueue \/ DeleteQueue
    PROVE  Promise!Next \/ UNCHANGED Promise!vars
<1>1. ASSUME NEW q \in Queues, NEW durable \in BOOLEAN, InitQueue(q, durable)
      PROVE  UNCHANGED Promise!vars
  <2>1. up /\ up' /\ UNCHANGED <<exchanges, queues, bindings>>
    BY <1>1 DEF InitQueue, Request
  <2> QED
    BY <1>1, <2>1, InitQueueHeld, Unseen
<1>2. CASE DeclareQueue
  <2> DEFINE q == op.name
             kind == Kind(op.durable)
  <2>1. /\ up /\ up' /\ op.pc = "declare queue" /\ q \in Queues /\ queues[q] = "none"
        /\ UNCHANGED <<exchanges, bindings, held>>
    BY <1>2 DEF DeclareQueue, TypeInv, Named, Sound, HalfDone
  <2>2. queues' = [queues EXCEPT ![q] = kind]
    <3>1. "queue" \in tables /\ "insert" \notin Fails /\ q \notin qTable
      BY <2>1 DEF Sound, Mirrored, Tables, NoFaults
    <3>2. \A ok : Insert("queue", q \notin qTable, ok) => ok = TRUE
      BY <3>1 DEF Insert
    <3> QED
      BY <1>2, <3>2 DEF DeclareQueue, Kind
  <2>3. kind \in Promise!Kinds /\ kind /= "none"
    BY DEF Kind, Promise!Kinds
  <2>4. held[q] = {} /\ \A e \in Exchanges : bindings[<<e, q>>] = NoKey
    BY <2>1 DEF NothingLeft, Sound, Connected
  <2> HIDE DEF q, kind
  <2>5. Promise!DeclareQueue(q, kind)
    BY <2>1, <2>2, <2>3, <2>4, SeenLiving DEF Promise!DeclareQueue
  <2> QED
    BY <2>1, <2>3, <2>5 DEF Promise!Next
<1>3. ASSUME NEW q \in Queues, DestroyMessages(q)
      PROVE  Promise!Next
  <2>1. /\ up /\ up' /\ held' = [held EXCEPT ![q] = {}]
        /\ UNCHANGED <<exchanges, queues, bindings>>
    BY <1>3 DEF DestroyMessages, Request
  <2>2. Promise!Empty(q)
    BY <2>1, SeenLiving DEF Promise!Empty
  <2> QED
    BY <2>2 DEF Promise!Next
<1>4. CASE UnbindQueue
  <2> DEFINE pairs == {p \in Exchanges \X Queues : p[2] = op.name}
  <2>1. /\ up /\ up' /\ UNCHANGED <<exchanges, queues, held>>
        /\ bindings' = [p \in Exchanges \X Queues |-> IF p \in pairs THEN NoKey ELSE bindings[p]]
    BY <1>4 DEF UnbindQueue, Pairs
  <2>2. pairs \in SUBSET (Exchanges \X Queues)
    OBVIOUS
  <2> HIDE DEF pairs
  <2>3. Promise!Unbind(pairs)
    BY <2>1, SeenLiving DEF Promise!Unbind
  <2> QED
    BY <2>2, <2>3 DEF Promise!Next
<1>5. CASE DeleteQueue
  <2>1. /\ up /\ up' /\ op.pc = "delete queue" /\ op.name \in Queues
        /\ queues' = [queues EXCEPT ![op.name] = "none"]
        /\ UNCHANGED <<exchanges, bindings, held>>
    BY <1>5 DEF DeleteQueue, TypeInv, Named
  <2>2. held[op.name] = {} /\ \A e \in Exchanges : bindings[<<e, op.name>>] = NoKey
    BY <2>1 DEF NothingLeft, Sound, HalfDone
  <2>3. Promise!DeleteQueue(op.name)
    BY <2>1, <2>2, SeenLiving DEF Promise!DeleteQueue
  <2> QED
    BY <2>1, <2>3 DEF Promise!Next
<1> QED
    BY <1>1, <1>2, <1>3, <1>4, <1>5, Zenon

LEMMA BindingPromise ==
    ASSUME NoFaults, TypeInv, Sound, NEW e \in Exchanges, NEW q \in Queues,
           Unbind(e, q) \/ \E key \in Keys : Bind(e, q, key)
    PROVE  Promise!Next
<1>1. CASE Unbind(e, q)
  <2> DEFINE pairs == {<<e, q>>}
  <2>1. /\ up /\ up' /\ UNCHANGED <<exchanges, queues, held>>
        /\ bindings' = [bindings EXCEPT ![<<e, q>>] = NoKey]
    BY <1>1 DEF Unbind, Request
  <2>2. bindings' = [p \in Exchanges \X Queues |-> IF p \in pairs THEN NoKey ELSE bindings[p]]
    BY <2>1 DEF TypeInv, TypeOK, Pairs
  <2>3. pairs \in SUBSET (Exchanges \X Queues)
    OBVIOUS
  <2> HIDE DEF pairs
  <2>4. Promise!Unbind(pairs)
    BY <2>1, <2>2, SeenLiving DEF Promise!Unbind
  <2> QED
    BY <2>3, <2>4 DEF Promise!Next
<1>2. ASSUME NEW key \in Keys, Bind(e, q, key)
      PROVE  Promise!Next
  <2>1. /\ up /\ up' /\ exchanges[e] /= "none" /\ queues[q] /= "none" /\ bindings[<<e, q>>] = NoKey
        /\ UNCHANGED <<exchanges, queues, held>>
    BY <1>2 DEF Bind, Request
  <2>2. bindings' = [bindings EXCEPT ![<<e, q>>] = key]
    <3>1. "binding" \in tables /\ "insert" \notin Fails
      BY DEF Sound, Tables, NoFaults
    <3>2. \A ok : Insert("binding", TRUE, ok) => ok = TRUE
      BY <3>1 DEF Insert
    <3> QED
      BY <1>2, <3>2 DEF Bind
  <2>3. Promise!Bind(e, q, key)
    BY <2>1, <2>2, SeenLiving DEF Promise!Bind
  <2> QED
    BY <2>3 DEF Promise!Next
<1> QED
    BY <1>1, <1>2

LEMMA MessagePromise ==
    ASSUME TypeInv, Sound, NothingLeft, NEW q \in Queues, InsertMessage(q) \/ Drain(q)
    PROVE  Promise!Next \/ UNCHANGED Promise!vars
<1>1. CASE InsertMessage(q)
  <2> DEFINE durable == op.durable /\ queues[q] = "durable"
  <2>1. /\ up /\ up' /\ op.name \in Exchanges /\ bindings[<<op.name, q>>] /= NoKey
        /\ UNCHANGED <<exchanges, queues, bindings>>
    BY <1>1 DEF InsertMessage, NothingLeft
  <2>2. held' = held \/ held' = [held EXCEPT ![q] = @ \union {Kind(durable)}]
    BY <1>1 DEF InsertMessage
  <2>3. /\ Kind(durable) = "transient" \/ (Kind(durable) = "durable" /\ queues[q] = "durable")
        /\ Kind(durable) \in Promise!Kinds
    BY DEF Kind, Promise!Kinds
  <2> HIDE DEF durable
  <2>4. CASE held' = held
    BY <2>1, <2>4, Unseen
  <2>5. CASE held' = [held EXCEPT ![q] = @ \union {Kind(durable)}]
    <3>1. Promise!Publish(q, Kind(durable))
      BY <2>1, <2>3, <2>5, SeenLiving DEF Promise!Publish
    <3> QED
      BY <2>3, <3>1 DEF Promise!Next
  <2> QED
    BY <2>2, <2>4, <2>5
<1>2. CASE Drain(q)
  <2>1. up /\ up' /\ held' = [held EXCEPT ![q] = {}] /\ UNCHANGED <<exchanges, queues, bindings>>
    BY <1>2 DEF Drain
  <2>2. Promise!Empty(q)
    BY <2>1, SeenLiving DEF Promise!Empty
  <2> QED
    BY <2>2 DEF Promise!Next
<1> QED
    BY <1>1, <1>2

\* A crash at any point leaves on the disk the durable part of what clients saw.
LEMMA CrashPromise ==
    ASSUME TypeInv, Sound, Crash
    PROVE  Promise!Restart
<1>1. /\ up /\ ~up' /\ UNCHANGED <<exTable, qTable, bTable, kept>>
    BY DEF Crash, disk
<1>2. /\ exTable = {e \in Exchanges : exchanges[e] = "durable"}
      /\ qTable = {q \in Queues : queues[q] = "durable"}
    BY <1>1 DEF Sound, Mirrored
<1>3. seenExchanges' = [e \in Exchanges |-> IF exchanges[e] = "durable" THEN "durable" ELSE "none"]
    BY <1>1, <1>2 DEF seenExchanges
<1>4. seenQueues' = [q \in Queues |-> IF queues[q] = "durable" THEN "durable" ELSE "none"]
    BY <1>1, <1>2 DEF seenQueues
<1>5. seenHeld' = [q \in Queues |-> held[q] \intersect {"durable"}]
  <2>1. seenHeld' = [q \in Queues |-> IF q \in qTable \intersect kept THEN {"durable"} ELSE {}]
    BY <1>1 DEF seenHeld
  <2>2. \A q \in Queues : q \in qTable \intersect kept <=> "durable" \in held[q]
    BY <1>1 DEF Sound, Placed
  <2>3. \A q \in Queues : (IF q \in qTable \intersect kept THEN {"durable"} ELSE {})
                            = held[q] \intersect {"durable"}
    BY <2>2
  <2> QED
    BY <2>1, <2>3
<1>6. seenBindings' = [p \in Pairs |-> IF exchanges[p[1]] = "durable" /\ queues[p[2]] = "durable"
                                       THEN bindings[p] ELSE NoKey]
  <2>1. seenBindings' = [p \in Pairs |-> IF Rows(p) = {} THEN NoKey
                                         ELSE (CHOOSE r \in Rows(p) : TRUE).key]
    BY <1>1 DEF seenBindings, Rows
  <2>2. bTable = {r \in Row : /\ exchanges[r.e] = "durable" /\ queues[r.q] = "durable"
                              /\ bindings[<<r.e, r.q>>] = r.key}
    BY <1>1 DEF Sound, Mirrored
  <2>3. ASSUME NEW p \in Pairs
        PROVE  (IF Rows(p) = {} THEN NoKey ELSE (CHOOSE r \in Rows(p) : TRUE).key)
                 = IF exchanges[p[1]] = "durable" /\ queues[p[2]] = "durable"
                   THEN bindings[p] ELSE NoKey
    <3>1. p = <<p[1], p[2]>> /\ p[1] \in Exchanges /\ p[2] \in Queues
          /\ bindings[p] \in Keys \union {NoKey}
      BY DEF Pairs, TypeInv, TypeOK
    <3>2. CASE Rows(p) = {}
      <4>1. ASSUME exchanges[p[1]] = "durable", queues[p[2]] = "durable", bindings[p] /= NoKey
            PROVE  FALSE
        <5> DEFINE row == [e |-> p[1], q |-> p[2], key |-> bindings[p]]
        <5>1. row \in Row /\ row.e = p[1] /\ row.q = p[2] /\ row.key = bindings[p]
          BY <3>1, <4>1 DEF Row
        <5>2. row \in bTable
          BY <2>2, <3>1, <4>1, <5>1
        <5> HIDE DEF row
        <5> QED
          BY <3>2, <5>1, <5>2 DEF Rows
      <4> QED
        BY <3>2, <4>1
    <3>3. CASE Rows(p) /= {}
      <4>1. PICK r \in Rows(p) : r = CHOOSE s \in Rows(p) : TRUE
        BY <3>3
      <4>2. r \in bTable /\ r.e = p[1] /\ r.q = p[2]
        BY <4>1 DEF Rows
      <4>3. /\ exchanges[p[1]] = "durable" /\ queues[p[2]] = "durable"
            /\ bindings[p] = r.key
        BY <2>2, <3>1, <4>2
      <4> QED
        BY <3>3, <4>1, <4>3
    <3> QED
      BY <3>2, <3>3
  <2> QED
    BY <2>1, <2>3
<1> QED
    BY <1>1, <1>3, <1>4, <1>5, <1>6, SeenLiving DEF Promise!Restart, Pairs

\* The constructors bring back what clients of a dead broker could expect.
LEMMA RestartPromise ==
    ASSUME NoFaults, TypeInv, TypeInv', Sound, Restart
    PROVE  UNCHANGED Promise!vars
<1>1. ~up /\ up'
    BY DEF Restart
<1>2. /\ seenExchanges' = seenExchanges /\ seenQueues' = seenQueues /\ seenHeld' = seenHeld
    BY <1>1, SeenLiving, WholeTablesRead DEF seenExchanges, seenQueues, seenHeld
<1>3. bindings' = [p \in Pairs |-> IF Rows(p) = {} THEN NoKey
                                   ELSE (CHOOSE r \in Rows(p) : TRUE).key]
  <2>1. ASSUME NEW p \in Pairs
        PROVE  bindings'[p] = IF Rows(p) = {} THEN NoKey
                              ELSE (CHOOSE r \in Rows(p) : TRUE).key
    <3>1. CASE Rows(p) = {}
      BY <3>1, WholeTablesRead
    <3>2. CASE Rows(p) /= {}
      <4>1. PICK s \in Rows(p) : bindings'[p] = s.key
        BY <3>2, WholeTablesRead
      <4>2. PICK r \in Rows(p) : r = CHOOSE x \in Rows(p) : TRUE
        BY <3>2
      <4>3. r = s
        BY <4>1, <4>2 DEF Rows, Sound, OneKey
      <4> QED
        BY <3>2, <4>1, <4>2, <4>3
    <3> QED
      BY <3>1, <3>2
  <2>2. bindings' \in [Pairs -> Keys \union {NoKey}]
    BY DEF Restart
  <2> QED
    BY <2>1, <2>2
<1>4. seenBindings' = seenBindings
    BY <1>1, <1>3, SeenLiving DEF seenBindings
<1> QED
    BY <1>2, <1>4 DEF Promise!vars

LEMMA NextPromise ==
    ASSUME NoFaults, TypeInv, TypeInv', Sound, NothingLeft, [Next]_vars
    PROVE  Promise!Next \/ UNCHANGED Promise!vars
<1>1. CASE UNCHANGED vars
    BY <1>1 DEF vars, memory, disk, Promise!vars, Rows,
                seenExchanges, seenQueues, seenBindings, seenHeld
<1>2. CASE \E e \in Exchanges, todo \in SUBSET Queues, durable \in BOOLEAN : Publish(e, todo, durable)
  <2>1. PICK e \in Exchanges, todo \in SUBSET Queues, durable \in BOOLEAN : Publish(e, todo, durable)
    BY ONLY <1>2
  <2>2. up /\ up' /\ UNCHANGED <<exchanges, queues, bindings, held>>
    BY <2>1 DEF Publish, Request, memory
  <2> QED
    BY <2>2, Unseen
<1>3. CASE \E q \in Queues : InsertMessage(q) \/ Drain(q)
    BY <1>3, MessagePromise
<1>4. CASE Crash
  <2>1. Promise!Restart
    BY <1>4, CrashPromise
  <2> QED
    BY <2>1 DEF Promise!Next
<1>5. CASE Restart
    BY <1>5, RestartPromise
<1> QED
    BY <1>1, <1>2, <1>3, <1>4, <1>5, ExchangePromise, QueuePromise, BindingPromise, NoClearing
       DEF Next, Handler

\* As long as every statement succeeds and clear() is not called, a virtual host of any size
\* implements Catalogue: each step of a handler, a crash between two statements and the
\* restart after it included, is one step of the catalogue or none
\* (virtual_host.hpp:39-102).
THEOREM HostImplementsCatalogue ==
    ASSUME NoFaults
    PROVE  Spec => KeepsPromise
<1> DEFINE IInv == TypeInv /\ Sound /\ NothingLeft
<1>1. Init => IInv /\ Promise!Init
  <2>1. Init => NothingLeft
    BY DEF Init, NothingLeft, Idle
  <2> QED
    BY <2>1, InitType, InitSound, InitPromise
<1>2. IInv /\ [Next]_vars => IInv'
    BY NextType, NextSound, NextLeft
<1>3. IInv /\ IInv' /\ [Next]_vars => [Promise!Next]_(Promise!vars)
    BY NextPromise
<1> QED
    BY <1>1, <1>2, <1>3, PTL DEF Spec, KeepsPromise, Promise!Spec
=============================================================================
