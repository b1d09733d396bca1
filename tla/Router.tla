------------------------------- MODULE Router -------------------------------
(***************************************************************************)
(* The router of the broker (mqserver/route.hpp): which binding keys a     *)
(* routing key matches.  A key is a sequence of symbols; the state is a    *)
(* pair of keys, which grow symbol by symbol to every pair within bounds.  *)
(***************************************************************************)
EXTENDS Strings

CONSTANTS
    Letters,         \* the letters, digits and underscores that appear in keys
    RoutingSymbols,  \* the symbols of routing keys
    MaxBinding, MaxRouting  \* bounds: lengths of the keys

ASSUME RouterAssumption ==
    /\ Letters \intersect {".", "*", "#"} = {}
    /\ MaxBinding \in Nat /\ MaxRouting \in Nat

VARIABLES binding, routing

vars == <<binding, routing>>

Words(key) == Split(key, ".")
Hash == <<"#">>
Star == <<"*">>

is_legal_routing_key(key) == \A i \in DOMAIN key : key[i] \in Letters \union {"."}

\* Fault: the loop over pairs of words starts one too late.
is_legal_binding_key_from_third(key) ==
    LET sub == Words(key)
    IN /\ \A i \in DOMAIN key : key[i] \in Letters \union {".", "*", "#"}
       /\ \A i \in DOMAIN sub : Len(sub[i]) > 1 => ~Has(sub[i], "*") /\ ~Has(sub[i], "#")
       /\ \A i \in 3..Len(sub) : <<sub[i - 1], sub[i]>> \notin {<<Star, Hash>>, <<Hash, Hash>>, <<Hash, Star>>}

\* Wildcards are words of their own, and # has no wildcard beside it, except that a *
\* may precede a *.
is_legal_binding_key(key) ==
    LET sub == Words(key)
    IN /\ \A i \in DOMAIN key : key[i] \in Letters \union {".", "*", "#"}
       /\ \A i \in DOMAIN sub : Len(sub[i]) > 1 => ~Has(sub[i], "*") /\ ~Has(sub[i], "#")
       /\ \A i \in 2..Len(sub) : <<sub[i - 1], sub[i]>> \notin {<<Star, Hash>>, <<Hash, Hash>>, <<Hash, Star>>}

\* Fault: # does not match zero words.
Cell_hash_not_empty(dp, bkeys, rkeys, i, j) ==
    \/ j = 0 /\ \A k \in 1..i : bkeys[k] = Hash
    \/ /\ i > 0 /\ j > 0
       /\ IF bkeys[i] \in {rkeys[j], Star}
          THEN dp[<<i - 1, j - 1>>]
          ELSE bkeys[i] = Hash /\ (dp[<<i - 1, j - 1>>] \/ dp[<<i, j - 1>>])

\* Cell (i, j) of the table: the first i words of the binding key match the first j of the
\* routing key.  A # matches no word, one more word, or the word as its only one.
Cell(dp, bkeys, rkeys, i, j) ==
    \/ j = 0 /\ \A k \in 1..i : bkeys[k] = Hash
    \/ /\ i > 0 /\ j > 0
       /\ IF bkeys[i] \in {rkeys[j], Star}
          THEN dp[<<i - 1, j - 1>>]
          ELSE bkeys[i] = Hash /\ (dp[<<i - 1, j - 1>>] \/ dp[<<i, j - 1>>] \/ dp[<<i - 1, j>>])

Table(bkeys, rkeys) ==
    LET dp[p \in (0..Len(bkeys)) \X (0..Len(rkeys))] == Cell(dp, bkeys, rkeys, p[1], p[2])
    IN dp

__dp_matching(routing_key, binding_key) ==
    LET bkeys == Words(binding_key)
        rkeys == Words(routing_key)
    IN Table(bkeys, rkeys)[<<Len(bkeys), Len(rkeys)>>]

route(type, routing_key, binding_key) ==
    CASE type = "DIRECT" -> routing_key = binding_key
      [] type = "FANOUT" -> TRUE
      [] OTHER -> __dp_matching(routing_key, binding_key)

Init == binding = <<>> /\ routing = <<>>

ExtendBinding ==
    /\ Len(binding) < MaxBinding
    /\ \E x \in Letters \union {".", "*", "#"} : binding' = Append(binding, x)
    /\ UNCHANGED routing

ExtendRouting ==
    /\ Len(routing) < MaxRouting
    /\ \E x \in RoutingSymbols : routing' = Append(routing, x)
    /\ UNCHANGED binding

Next == ExtendBinding \/ ExtendRouting

Spec == Init /\ [][Next]_vars

-----------------------------------------------------------------------------

\* What a topic match means: the routing key's words can be cut into one piece for each
\* word of the binding key, # taking any piece, * any one word, a word itself.
Matches(rkeys, bkeys) ==
    \E cut \in [0..Len(bkeys) -> 0..Len(rkeys)] :
        /\ cut[0] = 0 /\ cut[Len(bkeys)] = Len(rkeys)
        /\ \A i \in 1..Len(bkeys) :
             IF bkeys[i] = Hash THEN cut[i - 1] <= cut[i]
             ELSE cut[i] = cut[i - 1] + 1 /\ bkeys[i] \in {Star, rkeys[cut[i]]}

\* The table of the topic exchange computes that, for every binding key and every legal
\* routing key (route.hpp:59-87).
TopicMatches ==
    is_legal_routing_key(routing) =>
        (route("TOPIC", routing, binding) <=> Matches(Words(routing), Words(binding)))

\* docs/work-en.md:949-950: a wildcard stands alone, and # has no wildcard on either side.
\* is_legal_binding_key, which looks at the words that split leaves, accepts exactly the
\* keys whose symbols obey this, runs of separators included (route.hpp:26-46).
LegalByTheRules ==
    LET wild == {i \in DOMAIN binding : binding[i] \in {"*", "#"}}
        separators(i, j) == \A k \in i..j : k \in DOMAIN binding => binding[k] = "."
    IN is_legal_binding_key(binding) <=>
         /\ \A i \in wild : separators(i - 1, i - 1) /\ separators(i + 1, i + 1)
         /\ \A i, j \in wild : i < j /\ "#" \in {binding[i], binding[j]} => ~separators(i + 1, j - 1)

\* docs/work-en.md:949: # can match zero or any number of words.  Here: the binding key #
\* matches every routing key.  Routing keys with wildcards are not legal, but no handler
\* asks is_legal_routing_key (route.hpp:17-25).
HashTakesAnyWord == binding = <<"#">> => route("TOPIC", routing, binding)
=============================================================================
