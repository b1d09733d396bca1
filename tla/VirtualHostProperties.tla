------------------------ MODULE VirtualHostProperties ------------------------
(* What makes VirtualHost correct, and what HareMQ's documents say of it. *)
EXTENDS VirtualHost

\* Where a handler of more than one step can be.
Places == {"idle", "delete exchange", "declare queue", "unbind queue", "delete queue",
           "publish", "clear queues", "clear bindings", "clear messages"}

\* Every variable of the virtual host stays in its domain (virtual_host.hpp:18-22).
TypeOK ==
    /\ up \in BOOLEAN
    /\ exchanges \in [Exchanges -> Kinds] /\ queues \in [Queues -> Kinds]
    /\ bindings \in [Pairs -> Keys \union {NoKey}]
    /\ stores \subseteq Queues /\ held \in [Queues -> SUBSET {"transient", "durable"}]
    /\ tables \subseteq Tables
    /\ exTable \subseteq Exchanges /\ qTable \subseteq Queues /\ bTable \subseteq Row
    /\ kept \subseteq Queues
    /\ op \in [pc : Places, name : Exchanges \union Queues \union {NoName},
               durable : BOOLEAN, todo : SUBSET Queues]
    /\ told \in [ex : SUBSET Exchanges, qu : SUBSET Queues, bi : SUBSET Pairs]

\* A binding connects an exchange and a queue that exist, in memory and in the tables,
\* in the middle of a deletion and after a crash there too: both deletions remove the
\* bindings first (virtual_host.hpp:46-50, 61-65).
Connected ==
    /\ \A e \in Exchanges, q \in Queues :
         bindings[<<e, q>>] /= NoKey => exchanges[e] /= "none" /\ queues[q] /= "none"
    /\ \A r \in bTable : r.e \in exTable /\ r.q \in qTable

\* While the broker runs the tables hold what is durable in memory and nothing else, and
\* for a pair the one key the memory has (exchange.hpp, queue.hpp, binding.hpp: mapper
\* and map are changed together).
Mirrored ==
    up =>
        /\ exTable = {e \in Exchanges : exchanges[e] = "durable"}
        /\ qTable = {q \in Queues : queues[q] = "durable"}
        /\ bTable = {r \in Row : /\ exchanges[r.e] = "durable" /\ queues[r.q] = "durable"
                                 /\ bindings[<<r.e, r.q>>] = r.key}

\* Between two requests a queue can take the messages routed to it: it has its
\* queue_message (virtual_host.hpp:51-60, 89-96), whose file agrees with it.
Deliverable ==
    up /\ op.pc = "idle" =>
        \A q \in Queues :
            /\ queues[q] /= "none" => q \in stores
            /\ q \in kept <=> "durable" \in held[q]

\* What stands for the state of Catalogue: memory is what the clients see, and while the
\* broker is down, what the next constructor will read.
seenExchanges ==
    IF up THEN exchanges ELSE [e \in Exchanges |-> IF e \in exTable THEN "durable" ELSE "none"]
seenQueues ==
    IF up THEN queues ELSE [q \in Queues |-> IF q \in qTable THEN "durable" ELSE "none"]
seenBindings ==
    IF up THEN bindings
    ELSE [p \in Pairs |-> IF Rows(p) = {} THEN NoKey ELSE (CHOOSE r \in Rows(p) : TRUE).key]
seenHeld ==
    IF up THEN held
    ELSE [q \in Queues |-> IF q \in qTable \intersect kept THEN {"durable"} ELSE {}]

\* The virtual host keeps the promise of Catalogue.
Promise == INSTANCE Catalogue WITH exchanges <- seenExchanges, queues <- seenQueues,
                                   bindings <- seenBindings, held <- seenHeld

\* Every step of the virtual host, a crash in the middle of a handler and the restart
\* after it included, is a step of Catalogue or none.
KeepsPromise == Promise!Spec

\* A durable queue of which declare_queue said true is in the table until it is deleted,
\* even when statements fail and tables are dropped (queue.hpp:148-152).
QueuesKept == told.qu \subseteq qTable

\* So is a binding of which bind said true (binding.hpp:129-133).
BindingsKept == \A p \in told.bi : \E r \in bTable : <<r.e, r.q>> = p

\* README.md:263-266: exchanges, queues, bindings and messages have persistence
\* requirements, and a restart is guaranteed not to lose them.  Here: a durable exchange
\* of which declare_exchange said true is in the table until it is deleted.
ExchangesKept == told.ex \subseteq exTable

\* virtual_host.hpp:47: when an exchange is deleted, the bindings that belong to it are
\* deleted too.  Here: a name that stands for no exchange has no bindings.
DeletedUnbound ==
    \A e \in Exchanges, q \in Queues : exchanges[e] = "none" => bindings[<<e, q>>] = NoKey
-----------------------------------------------------------------------------
(* The inductive invariant behind Connected, Mirrored and Deliverable, when no statement
   fails and clear() is not called. *)

NoFaults == Fails = {} /\ ~Clearing

\* A table holds one key for a pair, so the next constructor has no choice.
OneKey == \A r, s \in bTable : r.e = s.e /\ r.q = s.q => r = s

\* A dead process holds nothing.
NothingHeld ==
    ~up => /\ op = Idle
           /\ bindings = [p \in Pairs |-> NoKey]

\* What the first steps of a handler leave for its last one.
HalfDone ==
    /\ op.pc \notin {"clear queues", "clear bindings", "clear messages"}
    /\ op.pc = "delete exchange" => \A q \in Queues : bindings[<<op.name, q>>] = NoKey
    /\ op.pc = "declare queue" => queues[op.name] = "none" /\ op.name \in stores
    /\ op.pc = "delete queue" => \A e \in Exchanges : bindings[<<e, op.name>>] = NoKey

\* Where messages are: only a durable queue has a file that holds some, and while the
\* broker runs it has the queue_message too.
Placed ==
    /\ kept \subseteq qTable
    /\ op.pc \in {"unbind queue", "delete queue"} => op.name \notin kept
    /\ up => /\ kept \subseteq stores
             /\ \A q \in Queues : q \in kept <=> "durable" \in held[q]
             /\ \A q \in Queues :
                  queues[q] /= "none" =>
                      q \in stores \/ (op.pc \in {"unbind queue", "delete queue"} /\ op.name = q)

\* A name that stands for no queue, or for one whose deletion has begun, holds no messages,
\* and a publish in progress goes to queues its exchange is bound to.
NothingLeft ==
    /\ up => \A q \in Queues :
                 queues[q] = "none" \/ (op.pc \in {"unbind queue", "delete queue"} /\ op.name = q)
                     => held[q] = {}
    /\ op.pc = "publish" => /\ op.name \in Exchanges
                            /\ \A q \in op.todo : bindings[<<op.name, q>>] /= NoKey

Sound ==
    /\ tables = Tables
    /\ Connected /\ Mirrored /\ OneKey /\ NothingHeld /\ HalfDone /\ Placed

-----------------------------------------------------------------------------
(* The inductive invariant behind QueuesKept and BindingsKept, whatever insert fails and
   whether or not clear() is called. *)

\* Clients are told that something is gone before its row goes.
Announced ==
    /\ op.pc \in {"unbind queue", "delete queue"} => op.name \notin told.qu
    /\ op.pc = "unbind queue" => \A p \in told.bi : p[2] /= op.name
    /\ op.pc = "clear queues" => told.qu = {}
    /\ op.pc \in {"clear queues", "clear bindings"} => told.bi = {}
=============================================================================
