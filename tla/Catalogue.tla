------------------------------ MODULE Catalogue ------------------------------
(***************************************************************************)
(* What a virtual host of HareMQ promises about exchanges, queues and      *)
(* bindings, with no tables, no files and no crash in the middle of a      *)
(* request: a binding connects an exchange and a queue that exist, a queue *)
(* begins empty and unbound, and a restart of the broker loses what is     *)
(* transient and nothing else.                                             *)
(***************************************************************************)
CONSTANTS Exchanges, Queues, Keys, NoKey

VARIABLES
    exchanges,  \* what each exchange name stands for: nothing, transient, durable
    queues,     \* the same for each queue name
    bindings,   \* the binding key of each exchange and queue, NoKey if not bound
    held        \* the kinds of messages each queue holds

vars == <<exchanges, queues, bindings, held>>

Kinds == {"none", "transient", "durable"}

Init ==
    /\ exchanges = [e \in Exchanges |-> "none"]
    /\ queues = [q \in Queues |-> "none"]
    /\ bindings = [p \in Exchanges \X Queues |-> NoKey]
    /\ held = [q \in Queues |-> {}]

DeclareExchange(e, kind) ==
    /\ exchanges[e] = "none" /\ kind /= "none"
    /\ \A q \in Queues : bindings[<<e, q>>] = NoKey
    /\ exchanges' = [exchanges EXCEPT ![e] = kind]
    /\ UNCHANGED <<queues, bindings, held>>

DeclareQueue(q, kind) ==
    /\ queues[q] = "none" /\ kind /= "none"
    /\ held[q] = {} /\ \A e \in Exchanges : bindings[<<e, q>>] = NoKey
    /\ queues' = [queues EXCEPT ![q] = kind]
    /\ UNCHANGED <<exchanges, bindings, held>>

Bind(e, q, key) ==
    /\ exchanges[e] /= "none" /\ queues[q] /= "none" /\ bindings[<<e, q>>] = NoKey
    /\ bindings' = [bindings EXCEPT ![<<e, q>>] = key]
    /\ UNCHANGED <<exchanges, queues, held>>

Unbind(pairs) ==
    /\ bindings' = [p \in Exchanges \X Queues |-> IF p \in pairs THEN NoKey ELSE bindings[p]]
    /\ UNCHANGED <<exchanges, queues, held>>

\* An exchange goes when nothing is bound to it any more ...
DeleteExchange(e) ==
    /\ \A q \in Queues : bindings[<<e, q>>] = NoKey
    /\ exchanges' = [exchanges EXCEPT ![e] = "none"]
    /\ UNCHANGED <<queues, bindings, held>>

\* ... and a queue when it is empty as well.
DeleteQueue(q) ==
    /\ held[q] = {} /\ \A e \in Exchanges : bindings[<<e, q>>] = NoKey
    /\ queues' = [queues EXCEPT ![q] = "none"]
    /\ UNCHANGED <<exchanges, bindings, held>>

\* A transient queue holds no durable messages.
Publish(q, kind) ==
    /\ \E e \in Exchanges : bindings[<<e, q>>] /= NoKey
    /\ kind = "transient" \/ (kind = "durable" /\ queues[q] = "durable")
    /\ held' = [held EXCEPT ![q] = @ \union {kind}]
    /\ UNCHANGED <<exchanges, queues, bindings>>

Empty(q) ==
    /\ held' = [held EXCEPT ![q] = {}]
    /\ UNCHANGED <<exchanges, queues, bindings>>

Restart ==
    /\ exchanges' = [e \in Exchanges |-> IF exchanges[e] = "durable" THEN "durable" ELSE "none"]
    /\ queues' = [q \in Queues |-> IF queues[q] = "durable" THEN "durable" ELSE "none"]
    /\ bindings' = [p \in Exchanges \X Queues |->
                      IF exchanges[p[1]] = "durable" /\ queues[p[2]] = "durable"
                      THEN bindings[p] ELSE NoKey]
    /\ held' = [q \in Queues |-> held[q] \intersect {"durable"}]

Next ==
    \/ \E e \in Exchanges, kind \in Kinds : DeclareExchange(e, kind)
    \/ \E q \in Queues, kind \in Kinds : DeclareQueue(q, kind) \/ Publish(q, kind)
    \/ \E e \in Exchanges, q \in Queues, key \in Keys : Bind(e, q, key)
    \/ \E pairs \in SUBSET (Exchanges \X Queues) : Unbind(pairs)
    \/ \E e \in Exchanges : DeleteExchange(e)
    \/ \E q \in Queues : DeleteQueue(q) \/ Empty(q)
    \/ Restart

Spec == Init /\ [][Next]_vars
=============================================================================
