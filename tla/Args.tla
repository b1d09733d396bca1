-------------------------------- MODULE Args --------------------------------
(***************************************************************************)
(* The args of an exchange or a queue (mqserver/exchange.hpp, queue.hpp):  *)
(* a map that get_args writes into the row of the table as one string and  *)
(* set_args reads back when the broker starts.  A string is a sequence of  *)
(* symbols; a map is a set of pairs with one value for each key.           *)
(***************************************************************************)
EXTENDS Strings

CONSTANTS ArgKeys, ArgValues  \* strings that clients use

VARIABLES
    declared,  \* the args of declare_exchange() or declare_queue()
    row,       \* the string in the row of the table
    args       \* the map the broker has in memory

argsVars == <<declared, row, args>>

ArgSymbols == UNION {Range(text) : text \in ArgKeys \union ArgValues}

ASSUME ArgsAssumption == ArgKeys \subseteq Seq(ArgSymbols) /\ ArgValues \subseteq Seq(ArgSymbols)

Maps == {m \in SUBSET (ArgKeys \X ArgValues) : IsFiniteSet(m) /\ \A p, r \in m : p[1] = r[1] => p = r}

\* get_args: the pairs in the order of the map, a & after each.
get_args(pairs) == FlattenSeq([i \in DOMAIN pairs |-> pairs[i][1] \o <<"=">> \o pairs[i][2] \o <<"&">>])

\* Fault: the piece is cut at its last =.
PairAtLast(piece) ==
    IF Has(piece, "=")
    THEN LET pos == CHOOSE i \in DOMAIN piece : piece[i] = "=" /\ ~Has(SubSeq(piece, i + 1, Len(piece)), "=")
         IN <<SubSeq(piece, 1, pos - 1), SubSeq(piece, pos + 1, Len(piece))>>
    ELSE <<piece, piece>>

\* A piece of the string as a pair.  find returns npos when there is no =, and npos + 1
\* is 0: the value is the whole piece then, and so is the key.
Pair(piece) == IF Has(piece, "=") THEN Cut(piece, "=") ELSE <<piece, piece>>

\* set_args adds the pair of each piece, unless the map, or a piece before it, has its key.
set_args(map, str) ==
    LET pieces == Split(str, "&")
        IsNew(i) == /\ \A p \in map : p[1] /= Pair(pieces[i])[1]
                    /\ \A j \in 1..(i - 1) : Pair(pieces[j])[1] /= Pair(pieces[i])[1]
    IN map \union {Pair(pieces[i]) : i \in {i \in DOMAIN pieces : IsNew(i)}}

\* insert() of the mapper writes the row, in any order of the map's pairs.
ArgsInit ==
    /\ declared \in Maps
    /\ args = declared
    /\ row \in {get_args(pairs) : pairs \in SetToSeqs(declared)}

\* The broker starts again and reads the row, which it does not write again.
RestartArgs ==
    /\ args' = set_args({}, row)
    /\ UNCHANGED <<declared, row>>

ArgsSpec == ArgsInit /\ [][RestartArgs]_argsVars

-----------------------------------------------------------------------------

\* What clients keep to: a & or a = in a key, or a & in a value, would be taken for the
\* one that get_args writes.  client.cc:291-309 cuts what is typed at both.
NoSeparators ==
    /\ \A key \in ArgKeys : ~Has(key, "=") /\ ~Has(key, "&")
    /\ \A value \in ArgValues : ~Has(value, "&")

\* Through any number of restarts every pair the client asked for is there, and nothing
\* else is but a pair of empty strings, which stays one (exchange.hpp:47-69,
\* queue.hpp:40-55: a & stands behind every pair and set_args splits there).
PairsSurvive == declared \subseteq args /\ args \subseteq declared \union {<<<<>>, <<>>>>}
=============================================================================
