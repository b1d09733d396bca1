----------------------------- MODULE MCDelivery -----------------------------
(* Instances of Delivery for TLC. *)
EXTENDS DeliveryProperties

CONSTANTS A, B, C, k1, k2, q1, q2

\* A has a connection of its own, B and C share one.
TwoConnections == [c \in Channels |-> IF c = A THEN k1 ELSE k2]

\* Every channel uses a tag of its own, or all the same one as consume_client does.
OwnTags == [c \in Channels |-> c]
SameTag == [c \in Channels |-> A]
=============================================================================
