------------------------------- MODULE Strings -------------------------------
(* What the code does with strings, which are sequences of symbols here:   *)
(* string_helper::split (mqcommon/helper.hpp), and find with substr.       *)
EXTENDS Naturals, Sequences, FiniteSets, SequencesExt

\* boost::split with token_compress_on: a run of separators separates once, and one at
\* either end of s leaves an empty token there.  Where tokens start, and where the one
\* that starts at i has its end.
Starts(s, sep) == {i \in 1..(Len(s) + 1) :
                     \/ i = 1
                     \/ s[i - 1] = sep /\ (i = Len(s) + 1 \/ s[i] /= sep)}
EndsAt(s, sep, i, j) == (j = Len(s) + 1 \/ s[j] = sep) /\ \A k \in i..(j - 1) : s[k] /= sep
Token(s, sep, i) == SubSeq(s, i, (CHOOSE j \in i..(Len(s) + 1) : EndsAt(s, sep, i, j)) - 1)

\* The nth number of a set.
Nth(S, n) == CHOOSE i \in S : Cardinality({j \in S : j < i}) = n - 1

Split(s, sep) == [n \in 1..Cardinality(Starts(s, sep)) |-> Token(s, sep, Nth(Starts(s, sep), n))]

Has(s, symbol) == \E i \in DOMAIN s : s[i] = symbol

\* What stands before and after the first separator of s, which has one.
Cut(s, sep) ==
    LET pos == CHOOSE i \in DOMAIN s : s[i] = sep /\ ~Has(SubSeq(s, 1, i - 1), sep)
    IN <<SubSeq(s, 1, pos - 1), SubSeq(s, pos + 1, Len(s))>>
=============================================================================
