---------------------------- MODULE MCVirtualHost ----------------------------
(* Instances of VirtualHost for TLC. *)
EXTENDS VirtualHostProperties, TLC

CONSTANTS e1, e2, q1, q2, k1, k2

\* Names are interchangeable.
Names == Permutations(Exchanges) \union Permutations(Queues) \union Permutations(Keys)
=============================================================================
