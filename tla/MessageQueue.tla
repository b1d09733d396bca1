---------------------------- MODULE MessageQueue ----------------------------
(***************************************************************************)
(* What a message queue of HareMQ promises to the rest of the broker, with *)
(* no file, no heap object and no garbage collection: messages are         *)
(* numbered in the order they were accepted, the lowest ready number is    *)
(* delivered first, a delivered message stays with the queue until it is   *)
(* acknowledged, and a restart of the broker makes every persistent        *)
(* message that was not acknowledged ready again, in the old order.        *)
(***************************************************************************)
EXTENDS Naturals

VARIABLES
    ready,       \* numbers of the messages waiting to be delivered
    unacked,     \* numbers delivered and not acknowledged
    persistent,  \* numbers of the messages accepted as persistent
    last         \* the highest number given to an accepted message

vars == <<ready, unacked, persistent, last>>

Init ==
    /\ ready = {}
    /\ unacked = {}
    /\ persistent = {}
    /\ last = 0

\* A message is accepted; it goes behind every other ready message.
Publish(isPersistent) ==
    /\ last' = last + 1
    /\ ready' = ready \union {last + 1}
    /\ persistent' = IF isPersistent THEN persistent \union {last + 1} ELSE persistent
    /\ UNCHANGED unacked

\* The oldest ready message is handed out.
Deliver(n) ==
    /\ n \in ready
    /\ \A m \in ready : n <= m
    /\ ready' = ready \ {n}
    /\ unacked' = unacked \union {n}
    /\ UNCHANGED <<persistent, last>>

Acknowledge(n) ==
    /\ n \in unacked
    /\ unacked' = unacked \ {n}
    /\ UNCHANGED <<ready, persistent, last>>

\* The broker dies and comes back: only persistent messages survive, and those
\* that were delivered without an acknowledgement are ready once more.
Restart ==
    /\ ready' = (ready \union unacked) \intersect persistent
    /\ unacked' = {}
    /\ UNCHANGED <<persistent, last>>

\* The queue is deleted with everything in it.
Purge ==
    /\ ready' = {}
    /\ unacked' = {}
    /\ UNCHANGED <<persistent, last>>

Next ==
    \/ \E isPersistent \in BOOLEAN : Publish(isPersistent)
    \/ \E n \in ready : Deliver(n)
    \/ \E n \in unacked : Acknowledge(n)
    \/ Restart
    \/ Purge

Spec == Init /\ [][Next]_vars
=============================================================================
