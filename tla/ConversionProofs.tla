-------------------------- MODULE ConversionProofs --------------------------
(* Proofs about what the broker makes of strings, for strings of every length.  Router: *)
(* the table of a topic exchange computes what a topic match means, and the legality of *)
(* binding keys is what its rules say.  Args: what is written into a row is read back.  *)
EXTENDS Router, Args, Integers, FiniteSetTheorems, SequenceTheorems, WellFoundedInduction, TLAPS

-----------------------------------------------------------------------------
(* Induction: by a smallest counterexample *)

\* A set of natural numbers has a smallest element.
LEMMA Smallest ==
    ASSUME NEW T, T \subseteq Nat, T /= {}
    PROVE  \E n \in T : \A m \in T : n <= m
<1>1. PICK x \in T : \A y \in T : <<y, x>> \notin OpToRel(<, Nat)
  BY WFMin, NatLessThanWellFounded, Zenon
<1>2. \A y \in T : y \in Nat /\ x \in Nat /\ <<y, x>> \in Nat \X Nat
  OBVIOUS
<1>3. \A y \in T : ~(y < x)
  BY <1>1, <1>2, Zenon DEF OpToRel
<1> QED BY <1>3

-----------------------------------------------------------------------------
(* The table of a topic match *)

\* What TopicMatches says of whole keys, of the first i words of the binding key and the
\* first j of the routing key.
Cuts(cut, rkeys, bkeys, i) ==
    \A k \in 1..i :
        IF bkeys[k] = Hash THEN cut[k - 1] <= cut[k]
        ELSE cut[k] = cut[k - 1] + 1 /\ bkeys[k] \in {Star, rkeys[cut[k]]}
Matched(rkeys, bkeys, i, j) ==
    \E cut \in [0..i -> 0..j] : cut[0] = 0 /\ cut[i] = j /\ Cuts(cut, rkeys, bkeys, i)

\* The wildcards are two.
LEMMA HashIsNotStar == Hash /= Star
BY DEF Hash, Star

\* The cuts rise: none is beyond the last.
LEMMA CutsRise ==
    ASSUME NEW rkeys, NEW bkeys, NEW i \in Nat, NEW j \in Nat, NEW cut \in [0..i -> 0..j],
           Cuts(cut, rkeys, bkeys, i)
    PROVE  \A k \in 0..i : cut[k] <= cut[i]
<1> DEFINE T == {d \in 0..i : ~(cut[i - d] <= cut[i])}
<1>1. T = {}
  <2> SUFFICES ASSUME T /= {} PROVE FALSE
    OBVIOUS
  <2>0. T \subseteq Nat
    OBVIOUS
  <2>1. PICK d \in T : \A m \in T : d <= m
    <3> HIDE DEF T
    <3> QED BY <2>0, Smallest
  <2>2. d \in 1..i
    BY <2>1
  <2>3. d - 1 \in 0..i /\ d - 1 \notin T
    <3>1. d - 1 \in 0..i /\ ~(d <= d - 1)
      BY ONLY <2>2, i \in Nat
    <3> HIDE DEF T
    <3> QED BY ONLY <2>1, <3>1
  <2>4. cut[i - (d - 1)] <= cut[i]
    BY <2>3
  <2>5. i - d \in 0..i /\ i - d + 1 \in 1..i /\ i - (d - 1) = i - d + 1 /\ (i - d + 1) - 1 = i - d
    BY <2>2
  <2>6. cut[i - d] <= cut[i - d + 1]
    <3>1. \A k \in 1..i : cut[k - 1] <= cut[k]
      BY DEF Cuts
    <3> HIDE DEF T
    <3> QED BY ONLY <2>5, <3>1
  <2> QED BY <2>1, <2>4, <2>5, <2>6
<1>2. \A k \in 0..i : i - k \in 0..i /\ i - (i - k) = k
  OBVIOUS
<1> QED BY <1>1, <1>2

\* A match of fewer words with one more cut at c is a match.
LEMMA CutAgain ==
    ASSUME NEW rkeys, NEW bkeys, NEW i \in Nat \ {0}, NEW j \in Nat, NEW c \in 0..j,
           NEW cut \in [0..(i - 1) -> 0..c], cut[0] = 0, Cuts(cut, rkeys, bkeys, i - 1),
           IF bkeys[i] = Hash THEN cut[i - 1] <= j
           ELSE j = cut[i - 1] + 1 /\ bkeys[i] \in {Star, rkeys[j]}
    PROVE  Matched(rkeys, bkeys, i, j)
<1> DEFINE longer == [k \in 0..i |-> IF k = i THEN j ELSE cut[k]]
<1>1. longer \in [0..i -> 0..j]
  OBVIOUS
<1>2. longer[0] = 0 /\ longer[i] = j
  OBVIOUS
<1>3. ASSUME NEW k \in 1..i
      PROVE  IF bkeys[k] = Hash THEN longer[k - 1] <= longer[k]
             ELSE longer[k] = longer[k - 1] + 1 /\ bkeys[k] \in {Star, rkeys[longer[k]]}
  <2>1. CASE k = i
    BY <2>1
  <2>2. CASE k /= i
    <3>1. k \in 1..(i - 1) /\ longer[k] = cut[k] /\ longer[k - 1] = cut[k - 1]
      BY <2>2
    <3> QED BY <3>1 DEF Cuts
  <2> QED BY <2>1, <2>2
<1> HIDE DEF longer
<1> QED BY <1>1, <1>2, <1>3 DEF Matched, Cuts

\* A match without its last cut.
LEMMA CutBefore ==
    ASSUME NEW rkeys, NEW bkeys, NEW i \in Nat \ {0}, NEW j \in Nat, Matched(rkeys, bkeys, i, j)
    PROVE  \E c \in 0..j :
             /\ Matched(rkeys, bkeys, i - 1, c)
             /\ IF bkeys[i] = Hash THEN c <= j ELSE j = c + 1 /\ bkeys[i] \in {Star, rkeys[j]}
<1>1. PICK cut \in [0..i -> 0..j] : cut[0] = 0 /\ cut[i] = j /\ Cuts(cut, rkeys, bkeys, i)
  BY DEF Matched
<1> DEFINE c == cut[i - 1]
           shorter == [k \in 0..(i - 1) |-> cut[k]]
<1>2. c \in 0..j
  BY <1>1
<1>3. Cuts(shorter, rkeys, bkeys, i - 1)
  BY <1>1 DEF Cuts
<1>4. shorter \in [0..(i - 1) -> 0..j] /\ shorter[i - 1] = c /\ i - 1 \in Nat /\ shorter[0] = 0
  BY <1>1
<1>5. \A k \in 0..(i - 1) : shorter[k] <= c
  BY <1>3, <1>4, CutsRise
<1>6. shorter \in [0..(i - 1) -> 0..c]
  BY <1>2, <1>4, <1>5
<1>7. Matched(rkeys, bkeys, i - 1, c)
  BY <1>3, <1>4, <1>6 DEF Matched
<1>8. IF bkeys[i] = Hash THEN c <= j ELSE j = c + 1 /\ bkeys[i] \in {Star, rkeys[j]}
  BY <1>1 DEF Cuts
<1> QED BY <1>2, <1>7, <1>8

\* A match of fewer words with one more cut, whatever its cuts are.
LEMMA CutAfter ==
    ASSUME NEW rkeys, NEW bkeys, NEW i \in Nat \ {0}, NEW j \in Nat, NEW c \in 0..j,
           Matched(rkeys, bkeys, i - 1, c),
           IF bkeys[i] = Hash THEN c <= j ELSE j = c + 1 /\ bkeys[i] \in {Star, rkeys[j]}
    PROVE  Matched(rkeys, bkeys, i, j)
<1>1. PICK cut \in [0..(i - 1) -> 0..c] :
        cut[0] = 0 /\ cut[i - 1] = c /\ Cuts(cut, rkeys, bkeys, i - 1)
  BY DEF Matched
<1> QED BY <1>1, CutAgain

\* Before any word of the binding key nothing matches but nothing.
LEMMA MatchedNothing ==
    ASSUME NEW rkeys, NEW bkeys, NEW j \in Nat
    PROVE  Matched(rkeys, bkeys, 0, j) <=> j = 0
<1>1. ASSUME j = 0 PROVE Matched(rkeys, bkeys, 0, j)
  <2> DEFINE cut == [k \in 0..0 |-> 0]
  <2>1. cut \in [0..0 -> 0..0] /\ cut[0] = 0 /\ Cuts(cut, rkeys, bkeys, 0)
    BY DEF Cuts
  <2> QED BY <1>1, <2>1 DEF Matched
<1> QED BY <1>1 DEF Matched

\* No word of the routing key: the words of the binding key are all #.
LEMMA MatchedNoWord ==
    ASSUME NEW rkeys, NEW bkeys, NEW i \in Nat
    PROVE  Matched(rkeys, bkeys, i, 0) <=> \A k \in 1..i : bkeys[k] = Hash
<1>1. ASSUME Matched(rkeys, bkeys, i, 0), NEW k \in 1..i PROVE bkeys[k] = Hash
  <2>1. PICK cut \in [0..i -> 0..0] : Cuts(cut, rkeys, bkeys, i)
    BY <1>1 DEF Matched
  <2>2. cut[k] = 0 /\ cut[k - 1] = 0
    BY <2>1
  <2> QED BY <2>1, <2>2 DEF Cuts
<1>2. ASSUME \A k \in 1..i : bkeys[k] = Hash PROVE Matched(rkeys, bkeys, i, 0)
  <2> DEFINE cut == [k \in 0..i |-> 0]
  <2>1. cut \in [0..i -> 0..0] /\ cut[0] = 0 /\ cut[i] = 0 /\ Cuts(cut, rkeys, bkeys, i)
    BY <1>2 DEF Cuts
  <2> QED BY <2>1 DEF Matched
<1> QED BY <1>1, <1>2

\* The cells that cell (i, j) is computed from are enough to compute it.
LEMMA CellIsRight ==
    ASSUME NEW rkeys, NEW bkeys, NEW i \in Nat, NEW j \in Nat,
           \A k \in 1..j : rkeys[k] /= Hash,
           NEW dp,
           \A a \in 0..i, c \in 0..j : dp[<<a, c>>] <=> Matched(rkeys, bkeys, a, c)
    PROVE  Cell(dp, bkeys, rkeys, i, j) <=> Matched(rkeys, bkeys, i, j)
<1>1. CASE j = 0
  BY <1>1, MatchedNoWord DEF Cell
<1>2. CASE j /= 0 /\ i = 0
  BY <1>2, MatchedNothing DEF Cell
<1>3. CASE j /= 0 /\ i /= 0
  <2>1. /\ i \in Nat \ {0} /\ i - 1 \in 0..i /\ j - 1 \in 0..j /\ i \in 0..i /\ j \in 0..j /\ j \in 1..j
        /\ j - 1 \in Nat
    BY <1>3
  <2>2. /\ dp[<<i - 1, j - 1>>] <=> Matched(rkeys, bkeys, i - 1, j - 1)
        /\ dp[<<i, j - 1>>] <=> Matched(rkeys, bkeys, i, j - 1)
        /\ dp[<<i - 1, j>>] <=> Matched(rkeys, bkeys, i - 1, j)
    BY <2>1
  <2>3. CASE bkeys[i] \in {rkeys[j], Star}
    <3>1. bkeys[i] /= Hash /\ bkeys[i] \in {Star, rkeys[j]}
      BY <2>1, <2>3, HashIsNotStar
    <3>2. Cell(dp, bkeys, rkeys, i, j) <=> Matched(rkeys, bkeys, i - 1, j - 1)
      BY <1>3, <2>2, <2>3 DEF Cell
    <3>3. ASSUME Matched(rkeys, bkeys, i - 1, j - 1) PROVE Matched(rkeys, bkeys, i, j)
      <4>1. j = (j - 1) + 1
        BY <2>1
      <4> QED BY <2>1, <3>1, <3>3, <4>1, CutAfter
    <3>4. ASSUME Matched(rkeys, bkeys, i, j) PROVE Matched(rkeys, bkeys, i - 1, j - 1)
      <4>1. PICK c \in 0..j : Matched(rkeys, bkeys, i - 1, c) /\ j = c + 1
        BY <2>1, <3>1, <3>4, CutBefore
      <4>2. c = j - 1
        BY <4>1
      <4> QED BY <4>1, <4>2
    <3> QED BY <3>2, <3>3, <3>4
  <2>4. CASE bkeys[i] \notin {rkeys[j], Star} /\ bkeys[i] = Hash
    <3>1. Cell(dp, bkeys, rkeys, i, j) <=>
            \/ Matched(rkeys, bkeys, i - 1, j - 1) \/ Matched(rkeys, bkeys, i, j - 1)
            \/ Matched(rkeys, bkeys, i - 1, j)
      BY <1>3, <2>2, <2>4 DEF Cell
    <3>2. ASSUME NEW c \in 0..j, Matched(rkeys, bkeys, i - 1, c) PROVE Matched(rkeys, bkeys, i, j)
      BY <2>1, <2>4, <3>2, CutAfter
    <3>3. ASSUME Matched(rkeys, bkeys, i, j - 1) PROVE Matched(rkeys, bkeys, i, j)
      <4>1. PICK c \in 0..(j - 1) : Matched(rkeys, bkeys, i - 1, c)
        BY <2>1, <3>3, CutBefore
      <4>2. c \in 0..j
        BY <2>1
      <4> QED BY <3>2, <4>1, <4>2
    <3>4. ASSUME Matched(rkeys, bkeys, i, j)
          PROVE  Matched(rkeys, bkeys, i, j - 1) \/ Matched(rkeys, bkeys, i - 1, j)
      <4>1. PICK c \in 0..j : Matched(rkeys, bkeys, i - 1, c)
        BY <2>1, <3>4, CutBefore
      <4>2. CASE c = j
        BY <4>1, <4>2
      <4>3. CASE c /= j
        <5>1. c \in 0..(j - 1) /\ c <= j - 1
          BY <2>1, <4>3
        <5> QED BY <2>1, <2>4, <4>1, <5>1, CutAfter
      <4> QED BY <4>2, <4>3
    <3> QED BY <2>1, <3>1, <3>2, <3>3, <3>4
  <2>5. CASE bkeys[i] \notin {rkeys[j], Star} /\ bkeys[i] /= Hash
    <3>1. ~Cell(dp, bkeys, rkeys, i, j)
      BY <1>3, <2>5 DEF Cell
    <3>2. ~Matched(rkeys, bkeys, i, j)
      BY <2>1, <2>5, CutBefore
    <3> QED BY <3>1, <3>2
  <2> QED BY <2>3, <2>4, <2>5
<1> QED BY <1>1, <1>2, <1>3

\* The recursion of the table has one solution.
LEMMA TableIsRight ==
    ASSUME NEW rkeys, NEW bkeys, Len(bkeys) \in Nat, Len(rkeys) \in Nat,
           \A k \in 1..Len(rkeys) : rkeys[k] /= Hash,
           NEW i \in 0..Len(bkeys), NEW j \in 0..Len(rkeys)
    PROVE  Table(bkeys, rkeys)[<<i, j>>] <=> Matched(rkeys, bkeys, i, j)
<1> DEFINE D == (0..Len(bkeys)) \X (0..Len(rkeys))
           IsTable(dp) == dp = [p \in D |-> Cell(dp, bkeys, rkeys, p[1], p[2])]
           right == [p \in D |-> Matched(rkeys, bkeys, p[1], p[2])]
           dp == Table(bkeys, rkeys)
<1>1. IsTable(right)
  <2>1. ASSUME NEW p \in D PROVE Cell(right, bkeys, rkeys, p[1], p[2]) <=> Matched(rkeys, bkeys, p[1], p[2])
    <3>1. p[1] \in Nat /\ p[2] \in Nat /\ p[1] \in 0..Len(bkeys) /\ p[2] \in 0..Len(rkeys)
      OBVIOUS
    <3>2. ASSUME NEW a \in 0..p[1], NEW c \in 0..p[2] PROVE right[<<a, c>>] <=> Matched(rkeys, bkeys, a, c)
      <4>1. <<a, c>> \in D
        BY <3>1
      <4> QED BY <4>1
    <3>3. \A k \in 1..p[2] : rkeys[k] /= Hash
      BY <3>1
    <3> HIDE DEF right
    <3> QED BY <3>1, <3>2, <3>3, CellIsRight
  <2> QED BY <2>1, Zenon DEF Cell, Matched
<1>2. IsTable(dp)
  <2> HIDE DEF right
  <2> QED BY <1>1 DEF Table
<1>3. \A p \in D : /\ p[1] \in Nat /\ p[2] \in Nat
                   /\ p[1] \in 0..Len(bkeys) /\ p[2] \in 0..Len(rkeys)
  OBVIOUS
<1>4. \A x \in 0..Len(bkeys), y \in 0..Len(rkeys) :
        <<x, y>> \in D /\ <<x, y>>[1] = x /\ <<x, y>>[2] = y
  OBVIOUS
<1>5. dp[<<i, j>>] <=> right[<<i, j>>]
  <2> DEFINE T == {n \in Nat : \E p \in D : p[1] + p[2] = n /\ ~(dp[p] <=> right[p])}
  <2> HIDE DEF dp
  <2>1. T = {}
    <3> SUFFICES ASSUME T /= {} PROVE FALSE
      OBVIOUS
    <3>1. T \subseteq Nat
      OBVIOUS
    <3>2. PICK n \in T : \A m \in T : n <= m
      <4> HIDE DEF T
      <4> QED BY <3>1, Smallest
    <3>3. PICK p \in D : p[1] + p[2] = n /\ ~(dp[p] <=> right[p])
      BY <3>2
    <3>4. p[1] \in Nat /\ p[2] \in Nat /\ p[1] \in 0..Len(bkeys) /\ p[2] \in 0..Len(rkeys)
      BY ONLY p \in D, <1>3
    <3>5. ASSUME NEW r \in D, r[1] + r[2] < n PROVE dp[r] <=> right[r]
      <4>1. r[1] + r[2] \in Nat
        <5>1. r[1] \in Nat /\ r[2] \in Nat
          BY ONLY r \in D, <1>3
        <5> QED BY ONLY <5>1
      <4>2. r[1] + r[2] \notin T
        <5> HIDE DEF T
        <5> QED BY <3>1, <3>2, <3>5, <4>1
      <4> QED BY <4>1, <4>2
    <3> DEFINE a == p[1]
               c == p[2]
    <3>6. ASSUME a > 0, c > 0
          PROVE  /\ dp[<<a - 1, c - 1>>] <=> right[<<a - 1, c - 1>>]
                 /\ dp[<<a, c - 1>>] <=> right[<<a, c - 1>>]
                 /\ dp[<<a - 1, c>>] <=> right[<<a - 1, c>>]
      <4>1. /\ a - 1 \in 0..Len(bkeys) /\ a \in 0..Len(bkeys)
            /\ c - 1 \in 0..Len(rkeys) /\ c \in 0..Len(rkeys)
        BY ONLY <3>4, <3>6, Len(bkeys) \in Nat, Len(rkeys) \in Nat
      <4>2. (a - 1) + (c - 1) < n /\ a + (c - 1) < n /\ (a - 1) + c < n
        <5>1. a + c = n /\ a \in Nat /\ c \in Nat
          BY <3>3, <3>4
        <5> HIDE DEF a, c
        <5> QED BY ONLY <5>1
      <4> HIDE DEF right, D, T, a, c
      <4>3. \A x \in 0..Len(bkeys), y \in 0..Len(rkeys) : x + y < n => (dp[<<x, y>>] <=> right[<<x, y>>])
        BY ONLY <1>4, <3>5
      <4> QED BY ONLY <4>1, <4>2, <4>3
    <3>7. Cell(dp, bkeys, rkeys, a, c) <=> Cell(right, bkeys, rkeys, a, c)
      <4> HIDE DEF right, a, c
      <4> QED BY ONLY <3>6 DEF Cell
    <3>8. (dp[p] <=> Cell(dp, bkeys, rkeys, a, c)) /\ (right[p] <=> Cell(right, bkeys, rkeys, a, c))
      BY <1>1, <1>2
    <3> QED BY <3>3, <3>7, <3>8
  <2>2. <<i, j>> \in D /\ i + j \in Nat /\ <<i, j>>[1] = i /\ <<i, j>>[2] = j
    OBVIOUS
  <2>3. i + j \notin T
    BY ONLY <2>1
  <2> HIDE DEF right
  <2> QED BY ONLY <2>2, <2>3
<1>6. <<i, j>> \in D /\ right[<<i, j>>] = Matched(rkeys, bkeys, i, j)
  OBVIOUS
<1> QED BY <1>5, <1>6

-----------------------------------------------------------------------------
(* The words of a key *)

\* The numbers of a finite set in their order: Nth(S, n) for n in 1..Cardinality(S).
LEMMA NthExists ==
    ASSUME NEW S, S \subseteq Nat, IsFiniteSet(S), NEW n \in 1..Cardinality(S)
    PROVE  Nth(S, n) \in S /\ Cardinality({j \in S : j < Nth(S, n)}) = n - 1
<1> DEFINE Below(i) == {j \in S : j < i}
           T == {k \in Nat : k \in 1..Cardinality(S) /\ \A i \in S : Cardinality(Below(i)) /= k - 1}
<1>1. Cardinality(S) \in Nat
  BY FS_CardinalityType
<1>2. \A i \in S : IsFiniteSet(Below(i)) /\ Cardinality(Below(i)) \in Nat
  <2> SUFFICES ASSUME NEW i \in S PROVE IsFiniteSet(Below(i)) /\ Cardinality(Below(i)) \in Nat
    OBVIOUS
  <2>1. Below(i) \in SUBSET S
    OBVIOUS
  <2> HIDE DEF Below
  <2> QED BY <2>1, FS_Subset, FS_CardinalityType
<1>3. T = {}
  <2> SUFFICES ASSUME T /= {} PROVE FALSE
    OBVIOUS
  <2>1. T \subseteq Nat
    OBVIOUS
  <2>2. PICK k \in T : \A m \in T : k <= m
    <3> HIDE DEF T
    <3> QED BY <2>1, Smallest
  <2>3. k \in 1..Cardinality(S) /\ k \in Nat /\ \A i \in S : Cardinality(Below(i)) /= k - 1
    BY <2>2
  \* The numbers that are not below the one before, or all of them.
  <2>4. \E R : /\ R \subseteq S /\ R /= {} /\ Cardinality(S \ R) = k - 1
               /\ \A i \in R, j \in S \ R : j < i
    <3>1. CASE k = 1
      <4>1. S /= {} /\ S \ S = {} /\ Cardinality({}) = 0
        BY <1>1, <2>3, FS_EmptySet
      <4>2. S \subseteq S /\ Cardinality(S \ S) = k - 1 /\ \A i \in S, j \in S \ S : j < i
        BY ONLY <3>1, <4>1
      <4> QED BY ONLY <4>1, <4>2
    <3>2. CASE k /= 1
      <4>1. k - 1 \in Nat /\ k - 1 \in 1..Cardinality(S) /\ k - 1 < k
        BY <1>1, <2>3, <3>2
      <4>2. k - 1 \notin T
        <5> HIDE DEF T
        <5> QED BY <2>1, <2>2, <2>3, <4>1
      <4>3. PICK i \in S : Cardinality(Below(i)) = k - 2
        <5> HIDE DEF Below
        <5>1. \E i \in S : ~(Cardinality(Below(i)) /= (k - 1) - 1)
          BY <4>1, <4>2
        <5> QED BY <2>3, <5>1
      <4> DEFINE R == S \ (Below(i) \union {i})
      <4>4. S \ R = Below(i) \union {i} /\ i \notin Below(i)
        OBVIOUS
      <4>5. IsFiniteSet(Below(i) \union {i}) /\ Cardinality(Below(i) \union {i}) = k - 1
        <5>1. Cardinality(Below(i) \union {i}) = Cardinality(Below(i)) + 1
          <6> HIDE DEF Below
          <6> QED BY <1>2, <4>4, FS_AddElement
        <5>2. IsFiniteSet(Below(i) \union {i})
          <6> HIDE DEF Below
          <6> QED BY <1>2, FS_AddElement
        <5> QED BY <4>1, <4>3, <5>1, <5>2
      <4>6. R /= {}
        <5>1. R = {} => S = Below(i) \union {i}
          OBVIOUS
        <5> HIDE DEF R, Below
        <5>2. Cardinality(S) /= k - 1
          BY ONLY <1>1, <2>3
        <5> QED BY ONLY <4>5, <5>1, <5>2
      <4>7. \A h \in R, j \in S \ R : j < h
        OBVIOUS
      <4> HIDE DEF Below
      <4> QED BY <4>4, <4>5, <4>6, <4>7
    <3> QED BY <3>1, <3>2
  <2>5. PICK R : /\ R \subseteq S /\ R /= {} /\ Cardinality(S \ R) = k - 1
                 /\ \A i \in R, j \in S \ R : j < i
    BY <2>4
  <2>6. PICK i \in R : \A j \in R : i <= j
    <3>1. R \subseteq Nat
      BY <2>5
    <3> QED BY ONLY <2>5, <3>1, Smallest
  <2>7. Below(i) = S \ R
    <3>1. \A j \in S : j \in Nat /\ i \in Nat
      BY <2>5
    <3> QED BY ONLY <2>5, <2>6, <3>1
  <2> QED BY <2>3, <2>5, <2>7
<1>4. \E i \in S : Cardinality(Below(i)) = n - 1
  <2>1. n \in Nat /\ n \notin T
    BY <1>1, <1>3
  <2> QED BY <2>1
<1> QED BY <1>4 DEF Nth

\* Every number of the set is there, and their order is that of their numbers.
LEMMA NthOrder ==
    ASSUME NEW S, S \subseteq Nat, IsFiniteSet(S)
    PROVE  /\ \A i \in S : \E n \in 1..Cardinality(S) : Nth(S, n) = i
           /\ \A m, n \in 1..Cardinality(S) : m < n <=> Nth(S, m) < Nth(S, n)
<1> DEFINE Below(i) == {j \in S : j < i}
<1>1. Cardinality(S) \in Nat
  BY FS_CardinalityType
<1>2. \A i \in S : IsFiniteSet(Below(i)) /\ Cardinality(Below(i)) \in Nat /\ i \in Nat
  <2> SUFFICES ASSUME NEW i \in S PROVE IsFiniteSet(Below(i)) /\ Cardinality(Below(i)) \in Nat
    OBVIOUS
  <2>1. Below(i) \in SUBSET S
    OBVIOUS
  <2> HIDE DEF Below
  <2> QED BY <2>1, FS_Subset, FS_CardinalityType
<1>3. ASSUME NEW i \in S, NEW j \in S, i < j
      PROVE  Cardinality(Below(i)) < Cardinality(Below(j))
  <2>0. \A h \in S : h \in Nat
    OBVIOUS
  <2>1. Below(i) \in SUBSET Below(j) /\ i \in Below(j) /\ i \notin Below(i)
    BY ONLY <1>3, <2>0
  <2>2. Cardinality(Below(i)) <= Cardinality(Below(j)) /\ Cardinality(Below(i)) /= Cardinality(Below(j))
    <3> HIDE DEF Below
    <3> QED BY <1>2, <2>1, FS_Subset
  <2> HIDE DEF Below
  <2> QED BY <1>2, <2>2
<1>4. ASSUME NEW i \in S, NEW j \in S, Cardinality(Below(i)) = Cardinality(Below(j)) PROVE i = j
  <2> HIDE DEF Below
  <2> QED BY <1>2, <1>3, <1>4
<1>5. ASSUME NEW i \in S PROVE \E n \in 1..Cardinality(S) : Nth(S, n) = i
  <2> DEFINE n == Cardinality(Below(i)) + 1
  <2>1. Cardinality(Below(i)) < Cardinality(S)
    <3>1. Below(i) \in SUBSET S /\ i \notin Below(i)
      BY <1>2
    <3> HIDE DEF Below
    <3>2. Cardinality(Below(i)) <= Cardinality(S) /\ Cardinality(Below(i)) /= Cardinality(S)
      BY <3>1, FS_Subset
    <3> QED BY <1>1, <1>2, <3>2
  <2>2. n \in 1..Cardinality(S) /\ n - 1 = Cardinality(Below(i))
    <3> HIDE DEF Below
    <3> QED BY <1>1, <1>2, <2>1
  <2>3. Nth(S, n) \in S /\ Cardinality(Below(Nth(S, n))) = n - 1
    <3> HIDE DEF n
    <3> QED BY <2>2, NthExists
  <2>4. Nth(S, n) = i
    <3> HIDE DEF n, Below
    <3> QED BY <1>4, <2>2, <2>3
  <2> QED BY <2>2, <2>4
<1>6. ASSUME NEW m \in 1..Cardinality(S), NEW n \in 1..Cardinality(S)
      PROVE  m < n <=> Nth(S, m) < Nth(S, n)
  <2>1. /\ Nth(S, m) \in S /\ Cardinality(Below(Nth(S, m))) = m - 1
        /\ Nth(S, n) \in S /\ Cardinality(Below(Nth(S, n))) = n - 1
    BY NthExists
  <2>2. m \in Nat /\ n \in Nat /\ Nth(S, m) \in Nat /\ Nth(S, n) \in Nat
    <3>1. \A h \in S : h \in Nat
      OBVIOUS
    <3>2. m \in Nat /\ n \in Nat
      BY <1>1
    <3> QED BY ONLY <2>1, <3>1, <3>2
  <2>3. Nth(S, m) < Nth(S, n) => m - 1 < n - 1
    <3> HIDE DEF Below
    <3> QED BY <1>3, <2>1
  <2>4. Nth(S, n) < Nth(S, m) => n - 1 < m - 1
    <3> HIDE DEF Below
    <3> QED BY <1>3, <2>1
  <2>5. Nth(S, m) = Nth(S, n) => m - 1 = n - 1
    <3> HIDE DEF Below
    <3> QED BY <2>1
  <2> QED BY ONLY <2>2, <2>3, <2>4, <2>5
<1> QED BY <1>5, <1>6

\* The token that starts at i: everything up to the next separator.
LEMMA TokenEnds ==
    ASSUME NEW s, NEW sep, Len(s) \in Nat, NEW i \in 1..(Len(s) + 1)
    PROVE  \E e \in i..(Len(s) + 1) : EndsAt(s, sep, i, e) /\ Token(s, sep, i) = SubSeq(s, i, e - 1)
<1> DEFINE T == {j \in i..(Len(s) + 1) : j = Len(s) + 1 \/ s[j] = sep}
<1>1. T \subseteq Nat /\ Len(s) + 1 \in T
  OBVIOUS
<1>2. PICK e \in T : \A j \in T : e <= j
  <2> HIDE DEF T
  <2> QED BY <1>1, Smallest
<1>3. e \in i..(Len(s) + 1) /\ e \in Nat /\ (e = Len(s) + 1 \/ s[e] = sep)
  BY <1>2
<1>4. ASSUME NEW k \in i..(e - 1) PROVE s[k] /= sep
  <2>1. k \in i..(Len(s) + 1) /\ k < e
    BY <1>3
  <2>2. k \notin T
    <3> HIDE DEF T
    <3> QED BY <1>1, <1>2, <1>3, <2>1
  <2> QED BY <2>1, <2>2
<1>5. EndsAt(s, sep, i, e)
  BY <1>3, <1>4 DEF EndsAt
<1> QED BY <1>3, <1>5 DEF Token

\* The tokens of a string: their number, and each from its start.
LEMMA SplitFacts ==
    ASSUME NEW s, NEW sep, Len(s) \in Nat
    PROVE  LET S == Starts(s, sep)
           IN  /\ S \subseteq 1..(Len(s) + 1) /\ S \subseteq Nat /\ IsFiniteSet(S) /\ 1 \in S
               /\ Cardinality(S) \in Nat /\ Cardinality(S) >= 1
               /\ Len(Split(s, sep)) = Cardinality(S)
               /\ DOMAIN Split(s, sep) = 1..Cardinality(S)
               /\ \A n \in 1..Cardinality(S) :
                    Nth(S, n) \in S /\ Split(s, sep)[n] = Token(s, sep, Nth(S, n))
<1> DEFINE S == Starts(s, sep)
<1>1. S \subseteq 1..(Len(s) + 1) /\ S \subseteq Nat /\ 1 \in S
  BY DEF Starts
<1> HIDE DEF S
<1>2. IsFiniteSet(S)
  <2>1. IsFiniteSet(1..(Len(s) + 1))
    BY FS_Interval
  <2> QED BY <1>1, <2>1, FS_Subset
<1>3. Cardinality(S) \in Nat
  BY <1>2, FS_CardinalityType
<1>4. Cardinality(S) /= 0
  BY <1>1, <1>2, FS_EmptySet
<1>5. Split(s, sep) = [n \in 1..Cardinality(S) |-> Token(s, sep, Nth(S, n))]
  BY DEF Split, S
<1>6. Len(Split(s, sep)) = Cardinality(S)
  BY <1>3, <1>5
<1>7. \A n \in 1..Cardinality(S) : Nth(S, n) \in S
  BY <1>1, <1>2, NthExists
<1> QED BY <1>1, <1>2, <1>3, <1>4, <1>5, <1>6, <1>7 DEF S

-----------------------------------------------------------------------------
(* Topic matches *)

\* The router's state: keys of the symbols that the constants allow.
TypeInv ==
    /\ binding \in Seq(Letters \union {".", "*", "#"})
    /\ routing \in Seq(RoutingSymbols)

\* Steps only append such symbols.
LEMMA RouterTypes == Spec => []TypeInv
<1>1. Init => TypeInv
  BY DEF Init, TypeInv
<1>2. TypeInv /\ [Next]_vars => TypeInv'
  <2> SUFFICES ASSUME TypeInv, [Next]_vars PROVE TypeInv'
    OBVIOUS
  <2>1. CASE ExtendBinding
    BY <2>1, AppendProperties DEF TypeInv, ExtendBinding
  <2>2. CASE ExtendRouting
    BY <2>2, AppendProperties DEF TypeInv, ExtendRouting
  <2>3. CASE UNCHANGED vars
    BY <2>3 DEF TypeInv, vars
  <2> QED BY <2>1, <2>2, <2>3 DEF Next
<1> QED BY <1>1, <1>2, PTL DEF Spec

\* The words of a legal routing key are not #.
LEMMA LegalWords ==
    ASSUME NEW Symbols, NEW key \in Seq(Symbols), is_legal_routing_key(key),
           NEW n \in 1..Len(Words(key))
    PROVE  Words(key)[n] /= Hash
<1> DEFINE i == Nth(Starts(key, "."), n)
<1>1. i \in 1..(Len(key) + 1) /\ Words(key)[n] = Token(key, ".", i)
  BY SplitFacts DEF Words
<1>2. PICK e \in i..(Len(key) + 1) : Words(key)[n] = SubSeq(key, i, e - 1)
  <2> HIDE DEF i
  <2>1. Len(key) \in Nat
    OBVIOUS
  <2> QED BY ONLY <1>1, <2>1, TokenEnds
<1> HIDE DEF i
<1> DEFINE w == SubSeq(key, i, e - 1)
<1>3. ASSUME w = Hash PROVE FALSE
  <2>1. Len(Hash) = 1 /\ Hash[1] = "#"
    BY DEF Hash
  <2>2. /\ Len(key) \in Nat /\ i \in Int /\ e - 1 \in Int /\ i >= 1 /\ e - 1 <= Len(key)
        /\ e - 1 >= i - 1
    BY <1>1
  <2>3. /\ ~(i <= e - 1) => Len(w) = 0
        /\ i <= e - 1 => w[1] = key[i]
    BY ONLY <2>2, key \in Seq(Symbols)
  <2> HIDE DEF w
  <2>4. i <= e - 1
    <3>1. Len(w) = 1
      BY ONLY <1>3, <2>1
    <3> QED BY ONLY <2>3, <3>1
  <2>5. key[i] = "#"
    BY ONLY <1>3, <2>1, <2>3, <2>4
  <2>6. i \in DOMAIN key
    BY ONLY <2>2, <2>4, key \in Seq(Symbols)
  <2> QED BY <2>5, <2>6, RouterAssumption DEF is_legal_routing_key
<1> QED BY <1>2, <1>3

\* The table of __dp_matching says that a legal routing key matches a binding key exactly
\* when its words can be cut as TopicMatches asks, whatever the lengths of both
\* (route.hpp:59-87).
THEOREM TableMatches == Spec => []TopicMatches
<1>1. TypeInv => TopicMatches
  <2> SUFFICES ASSUME TypeInv, is_legal_routing_key(routing)
               PROVE  route("TOPIC", routing, binding) <=> Matches(Words(routing), Words(binding))
    BY DEF TopicMatches
  <2> DEFINE rkeys == Words(routing)
             bkeys == Words(binding)
  <2>1. Len(rkeys) \in Nat /\ Len(bkeys) \in Nat
    BY SplitFacts DEF TypeInv, Words
  <2>2. \A k \in 1..Len(rkeys) : rkeys[k] /= Hash
    BY LegalWords DEF TypeInv
  <2>3. route("TOPIC", routing, binding) <=> Table(bkeys, rkeys)[<<Len(bkeys), Len(rkeys)>>]
    BY DEF route, __dp_matching
  <2> HIDE DEF rkeys, bkeys
  <2>4. Table(bkeys, rkeys)[<<Len(bkeys), Len(rkeys)>>] <=> Matched(rkeys, bkeys, Len(bkeys), Len(rkeys))
    BY <2>1, <2>2, TableIsRight
  <2>5. Matched(rkeys, bkeys, Len(bkeys), Len(rkeys)) <=> Matches(rkeys, bkeys)
    BY DEF Matched, Matches, Cuts
  <2> QED BY <2>3, <2>4, <2>5 DEF rkeys, bkeys
<1> QED BY <1>1, RouterTypes, PTL

-----------------------------------------------------------------------------
(* The words of a key and where they stand in it *)

\* Word n of s is what stands in i..(e - 1).
WordAt(s, sep, n, i, e) ==
    /\ n \in 1..Len(Split(s, sep)) /\ i = Nth(Starts(s, sep), n)
    /\ i \in Starts(s, sep) /\ i \in 1..(Len(s) + 1) /\ e \in i..(Len(s) + 1)
    /\ EndsAt(s, sep, i, e)
    /\ Len(Split(s, sep)[n]) = e - i /\ DOMAIN Split(s, sep)[n] = 1..(e - i)
    /\ \A p \in 1..(e - i) : Split(s, sep)[n][p] = s[i + p - 1]

\* Every word of split stands somewhere.
LEMMA EveryWord ==
    ASSUME NEW Symbols, NEW s \in Seq(Symbols), NEW sep, NEW n \in 1..Len(Split(s, sep))
    PROVE  \E i \in Nat, e \in Nat : WordAt(s, sep, n, i, e)
<1> DEFINE i == Nth(Starts(s, sep), n)
<1>1. Len(s) \in Nat
  OBVIOUS
<1>2. i \in Starts(s, sep) /\ i \in 1..(Len(s) + 1) /\ Split(s, sep)[n] = Token(s, sep, i)
  BY <1>1, SplitFacts
<1>3. i = Nth(Starts(s, sep), n)
  OBVIOUS
<1> HIDE DEF i
<1>4. PICK e \in i..(Len(s) + 1) : EndsAt(s, sep, i, e) /\ Split(s, sep)[n] = SubSeq(s, i, e - 1)
  BY ONLY <1>1, <1>2, TokenEnds
<1>5. i \in Nat /\ e \in Nat /\ i >= 1 /\ e - 1 <= Len(s) /\ e - 1 >= i - 1 /\ e - 1 \in Int
  BY <1>1, <1>2, <1>4
<1> DEFINE w == SubSeq(s, i, e - 1)
<1>6. Len(w) = e - i /\ DOMAIN w = 1..(e - i) /\ \A p \in 1..(e - i) : w[p] = s[i + p - 1]
  <2>1. w = [p \in 1..((e - 1) - i + 1) |-> s[p + i - 1]] /\ Len(w) = (e - 1) - i + 1
    BY ONLY <1>1, <1>5, s \in Seq(Symbols)
  <2>2. (e - 1) - i + 1 = e - i /\ \A p \in 1..(e - i) : p + i - 1 = i + p - 1
    BY ONLY <1>5
  <2> QED BY ONLY <2>1, <2>2
<1>7. Split(s, sep)[n] = w
  BY <1>4
<1> HIDE DEF w
<1>8. Len(Split(s, sep)[n]) = e - i /\ DOMAIN Split(s, sep)[n] = 1..(e - i)
  BY ONLY <1>6, <1>7
<1>9. \A p \in 1..(e - i) : Split(s, sep)[n][p] = s[i + p - 1]
  BY ONLY <1>6, <1>7
<1>10. WordAt(s, sep, n, i, e)
  BY ONLY <1>2, <1>3, <1>4, <1>8, <1>9, n \in 1..Len(Split(s, sep)) DEF WordAt
<1> QED BY ONLY <1>5, <1>10

\* Every symbol but a separator stands in a word.
LEMMA InAWord ==
    ASSUME NEW Symbols, NEW s \in Seq(Symbols), NEW sep, NEW k \in 1..Len(s), s[k] /= sep
    PROVE  \E n \in Nat, i \in Nat, e \in Nat : WordAt(s, sep, n, i, e) /\ i <= k /\ k < e
<1> DEFINE T == {i \in 1..k : \A m \in i..k : s[m] /= sep}
           S == Starts(s, sep)
<1>1. Len(s) \in Nat /\ k \in Nat /\ DOMAIN s = 1..Len(s)
  OBVIOUS
<1>2. T \subseteq Nat /\ k \in T
  BY <1>1
<1>3. PICK i \in T : \A m \in T : i <= m
  <2> HIDE DEF T
  <2> QED BY <1>2, Smallest
<1>4. i \in 1..k /\ \A m \in i..k : s[m] /= sep
  BY <1>3
<1>5. i = 1 \/ s[i - 1] = sep
  <2> SUFFICES ASSUME i /= 1, s[i - 1] /= sep PROVE FALSE
    OBVIOUS
  <2>1. i - 1 \in 1..k /\ ~(i <= i - 1) /\ \A m \in (i - 1)..k : m = i - 1 \/ m \in i..k
    BY <1>1, <1>4
  <2>2. i - 1 \in T
    BY <1>4, <2>1
  <2> HIDE DEF T
  <2> QED BY ONLY <1>3, <2>1, <2>2
<1>6. i \in S
  <2>1. i \in 1..(Len(s) + 1) /\ s[i] /= sep
    BY <1>1, <1>4
  <2> QED BY <1>5, <2>1 DEF Starts
<1>7. /\ S \subseteq Nat /\ IsFiniteSet(S) /\ Len(Split(s, sep)) = Cardinality(S) /\ Cardinality(S) \in Nat
  <2> HIDE DEF S
  <2> QED BY ONLY <1>1, SplitFacts DEF S
<1>8. PICK n \in 1..Len(Split(s, sep)) : Nth(S, n) = i
  <2> HIDE DEF S
  <2> QED BY ONLY <1>6, <1>7, NthOrder
<1>9. PICK e \in Nat : WordAt(s, sep, n, i, e)
  <2>1. PICK h \in Nat, e \in Nat : WordAt(s, sep, n, h, e)
    BY EveryWord
  <2>2. h = i
    BY ONLY <1>8, <2>1 DEF WordAt
  <2> QED BY ONLY <2>1, <2>2
<1>10. k < e
  <2> SUFFICES ASSUME ~(k < e) PROVE FALSE
    OBVIOUS
  <2>1. e \in i..k /\ e /= Len(s) + 1
    BY ONLY <1>1, <1>4, <1>9, k \in 1..Len(s), ~(k < e) DEF WordAt
  <2>2. s[e] = sep
    BY ONLY <1>9, <2>1 DEF WordAt, EndsAt
  <2> QED BY ONLY <1>4, <2>1, <2>2
<1>11. n \in Nat /\ i \in Nat /\ i <= k
  BY ONLY <1>1, <1>4, <1>7, <1>8
<1> QED BY ONLY <1>9, <1>10, <1>11

\* Words in the order of their places.
LEMMA WordsInOrder ==
    ASSUME NEW Symbols, NEW s \in Seq(Symbols), NEW sep, NEW m, NEW n, NEW i, NEW j, NEW e, NEW f,
           WordAt(s, sep, m, i, e), WordAt(s, sep, n, j, f)
    PROVE  m < n <=> i < j
<1> DEFINE S == Starts(s, sep)
<1>1. Len(s) \in Nat
  OBVIOUS
<1>2. S \subseteq Nat /\ IsFiniteSet(S) /\ Len(Split(s, sep)) = Cardinality(S)
  <2> HIDE DEF S
  <2> QED BY ONLY <1>1, SplitFacts DEF S
<1>3. m \in 1..Cardinality(S) /\ n \in 1..Cardinality(S) /\ i = Nth(S, m) /\ j = Nth(S, n)
  BY ONLY <1>2, WordAt(s, sep, m, i, e), WordAt(s, sep, n, j, f) DEF WordAt
<1> HIDE DEF S
<1> QED BY ONLY <1>2, <1>3, NthOrder

\* Between a word and the next stand separators only.
LEMMA NextWord ==
    ASSUME NEW Symbols, NEW s \in Seq(Symbols), NEW sep,
           NEW n \in Nat, NEW i \in Nat, NEW j \in Nat, NEW e \in Nat, NEW f \in Nat,
           WordAt(s, sep, n, i, e), WordAt(s, sep, n + 1, j, f)
    PROVE  i < j /\ e < j /\ \A k \in e..(j - 1) : s[k] = sep
<1>1. Len(s) \in Nat
  OBVIOUS
<1>2. /\ i \in 1..(Len(s) + 1) /\ e \in i..(Len(s) + 1) /\ j \in 1..(Len(s) + 1)
      /\ e = Len(s) + 1 \/ s[e] = sep
      /\ \A k \in i..(e - 1) : s[k] /= sep
  BY ONLY WordAt(s, sep, n, i, e), WordAt(s, sep, n + 1, j, f) DEF WordAt, EndsAt
<1>3. i < j
  <2>1. n < n + 1
    OBVIOUS
  <2> QED BY <2>1, WordsInOrder
<1>4. s[j - 1] = sep
  <2>1. j \in Starts(s, sep) /\ j /= 1
    BY ONLY <1>2, <1>3, WordAt(s, sep, n + 1, j, f) DEF WordAt
  <2> QED BY ONLY <2>1 DEF Starts
<1>5. e < j
  <2>1. j - 1 \notin i..(e - 1)
    BY ONLY <1>2, <1>4
  <2> QED BY ONLY <1>1, <1>2, <1>3, <2>1
<1>6. ASSUME NEW k \in e..(j - 1), s[k] /= sep PROVE FALSE
  <2> DEFINE T == {m \in e..(j - 1) : s[m] /= sep}
  <2>1. T \subseteq Nat /\ k \in T
    BY <1>2, <1>6
  <2>2. PICK m \in T : \A h \in T : m <= h
    <3> HIDE DEF T
    <3> QED BY ONLY <2>1, Smallest
  <2>3. m \in e..(j - 1) /\ s[m] /= sep /\ m \in Nat
    BY ONLY <2>1, <2>2
  <2>4. s[e] = sep /\ m /= e
    BY ONLY <1>1, <1>2, <1>5, <2>3
  <2>5. m - 1 \in e..(j - 1) /\ ~(m <= m - 1)
    BY ONLY <1>2, <2>3, <2>4
  <2>6. s[m - 1] = sep
    <3>1. m - 1 \notin T
      <4> HIDE DEF T
      <4> QED BY ONLY <2>2, <2>5
    <3> QED BY ONLY <2>5, <3>1
  <2>7. m \in 1..Len(s) /\ i < m /\ m < j
    BY ONLY <1>1, <1>2, <2>3, <2>4
  <2>8. PICK h \in Nat, b \in Nat, c \in Nat : WordAt(s, sep, h, b, c) /\ b <= m /\ m < c
    BY ONLY <2>3, <2>7, InAWord, s \in Seq(Symbols)
  <2>9. b = m
    <3>1. b \in 1..(Len(s) + 1) /\ \A q \in b..(c - 1) : s[q] /= sep
      BY ONLY <2>8 DEF WordAt, EndsAt
    <3>2. m - 1 \notin b..(c - 1)
      BY ONLY <2>6, <3>1
    <3> QED BY ONLY <1>1, <2>3, <2>8, <3>1, <3>2
  <2>10. n < h /\ h < n + 1
    <3>1. (n < h <=> i < b) /\ (h < n + 1 <=> b < j)
      BY ONLY <2>8, WordsInOrder, s \in Seq(Symbols), WordAt(s, sep, n, i, e), WordAt(s, sep, n + 1, j, f)
    <3> QED BY ONLY <2>7, <2>9, <3>1
  <2> QED BY ONLY <2>10, <2>8, n \in Nat
<1> QED BY <1>3, <1>5, <1>6

\* Two words with separators only between them follow each other.
LEMMA WordsMeet ==
    ASSUME NEW Symbols, NEW s \in Seq(Symbols), NEW sep,
           NEW m \in Nat, NEW n \in Nat, NEW i \in Nat, NEW j \in Nat, NEW e \in Nat, NEW f \in Nat,
           WordAt(s, sep, m, i, e), WordAt(s, sep, n, j, f), i < j, s[j] /= sep,
           \A k \in e..(j - 1) : s[k] = sep
    PROVE  n = m + 1
<1>1. m < n
  BY WordsInOrder
<1>2. ASSUME m + 1 < n PROVE FALSE
  <2>1. m + 1 \in 1..Len(Split(s, sep))
    <3>1. n \in 1..Len(Split(s, sep)) /\ m \in 1..Len(Split(s, sep))
      BY DEF WordAt
    <3>2. Len(s) \in Nat
      OBVIOUS
    <3>3. Len(Split(s, sep)) \in Nat
      BY ONLY <3>2, SplitFacts
    <3> QED BY ONLY <1>2, <3>1, <3>3
  <2>2. PICK h \in Nat, c \in Nat : WordAt(s, sep, m + 1, h, c)
    BY ONLY <2>1, EveryWord, s \in Seq(Symbols)
  <2>3. i < h /\ e < h /\ s[h - 1] = sep
    <3>1. i < h /\ e < h /\ \A k \in e..(h - 1) : s[k] = sep
      BY ONLY <2>2, NextWord, s \in Seq(Symbols), WordAt(s, sep, m, i, e),
              m \in Nat, i \in Nat, e \in Nat
    <3>2. h - 1 \in e..(h - 1)
      BY ONLY <3>1, <2>2, e \in Nat
    <3> QED BY ONLY <3>1, <3>2
  <2>4. h < j
    BY ONLY <1>2, <2>2, WordsInOrder, s \in Seq(Symbols), WordAt(s, sep, n, j, f)
  <2>5. h \in e..(j - 1) /\ h /= Len(s) + 1 /\ h \in Starts(s, sep) /\ h /= 1
    <3>1. h \in Starts(s, sep) /\ j \in 1..(Len(s) + 1) /\ i \in 1..(Len(s) + 1) /\ Len(s) \in Nat
      BY <2>2 DEF WordAt
    <3> QED BY ONLY <2>3, <2>4, <2>2, <3>1, e \in Nat, j \in Nat, i \in Nat
  <2>6. s[h] /= sep
    BY ONLY <2>5 DEF Starts
  <2> QED BY <2>5, <2>6
<1> QED BY <1>1, <1>2

-----------------------------------------------------------------------------
(* Legal binding keys *)

\* A wildcard that no symbol stands beside is a word of its own.
LEMMA WordOfItsOwn ==
    ASSUME NEW Symbols, NEW s \in Seq(Symbols), NEW sep, NEW k \in 1..Len(s), s[k] /= sep,
           k - 1 \in DOMAIN s => s[k - 1] = sep,
           k + 1 \in DOMAIN s => s[k + 1] = sep
    PROVE  \E n \in Nat : WordAt(s, sep, n, k, k + 1) /\ Split(s, sep)[n] = <<s[k]>>
<1>1. Len(s) \in Nat /\ DOMAIN s = 1..Len(s) /\ k \in Nat
  OBVIOUS
<1>2. PICK n \in Nat, i \in Nat, e \in Nat : WordAt(s, sep, n, i, e) /\ i <= k /\ k < e
  BY InAWord
<1>3. /\ i \in 1..(Len(s) + 1) /\ e \in i..(Len(s) + 1)
      /\ \A q \in i..(e - 1) : s[q] /= sep
  BY ONLY <1>2 DEF WordAt, EndsAt
<1>4. i = k
  <2>1. k - 1 >= i => k - 1 \in i..(e - 1) /\ k - 1 \in DOMAIN s
    BY ONLY <1>1, <1>2, <1>3, k \in 1..Len(s)
  <2> QED BY <1>1, <1>2, <1>3, <2>1
<1>5. e = k + 1
  <2>1. k + 1 < e => k + 1 \in i..(e - 1) /\ k + 1 \in DOMAIN s
    BY ONLY <1>1, <1>2, <1>3, k \in 1..Len(s)
  <2> QED BY <1>1, <1>2, <1>3, <2>1
<1>6. WordAt(s, sep, n, k, k + 1)
  BY ONLY <1>2, <1>4, <1>5
<1>7. Split(s, sep)[n] = <<s[k]>>
  <2> DEFINE w == Split(s, sep)[n]
  <2>1. e - i = 1 /\ i + 1 - 1 = k
    BY ONLY <1>1, <1>4, <1>5
  <2>2. Len(w) = 1 /\ w[1] = s[k]
    <3>1. Len(w) = e - i /\ \A p \in 1..(e - i) : w[p] = s[i + p - 1]
      BY ONLY <1>2 DEF WordAt
    <3>2. 1 \in 1..(e - i)
      BY ONLY <2>1
    <3> HIDE DEF w
    <3> QED BY ONLY <2>1, <3>1, <3>2
  <2>3. n \in 1..Len(Split(s, sep)) /\ w = Token(s, sep, i)
    BY ONLY <1>1, <1>2, SplitFacts DEF WordAt
  <2>4. w \in Seq(Symbols)
    <3>1. PICK c \in i..(Len(s) + 1) : w = SubSeq(s, i, c - 1)
      BY ONLY <1>1, <1>3, <2>3, TokenEnds
    <3>2. i \in Int /\ c - 1 \in Int /\ i >= 1 /\ c - 1 <= Len(s)
      BY ONLY <1>1, <1>3, <3>1
    <3> HIDE DEF w
    <3> QED BY ONLY <3>1, <3>2, s \in Seq(Symbols)
  <2> HIDE DEF w
  <2>5. w = <<s[k]>>
    BY ONLY <2>2, <2>4
  <2> QED BY <2>5 DEF w
<1> QED BY ONLY <1>2, <1>6, <1>7

\* Condition by condition: words with wildcards have one symbol, and wildcards have no
\* symbol beside them.
LEMMA WildcardsAlone ==
    ASSUME NEW Symbols, NEW s \in Seq(Symbols)
    PROVE  LET sub == Words(s)
           IN  (\A n \in DOMAIN sub : Len(sub[n]) > 1 => ~Has(sub[n], "*") /\ ~Has(sub[n], "#"))
               <=> (\A k \in DOMAIN s : s[k] \in {"*", "#"} =>
                      /\ k - 1 \in DOMAIN s => s[k - 1] = "."
                      /\ k + 1 \in DOMAIN s => s[k + 1] = ".")
<1> DEFINE sub == Words(s)
<1>1. Len(s) \in Nat /\ DOMAIN s = 1..Len(s)
  OBVIOUS
<1>2. DOMAIN sub = 1..Len(sub) /\ Len(sub) \in Nat
  BY ONLY <1>1, SplitFacts DEF Words
<1>3. ASSUME \A n \in DOMAIN sub : Len(sub[n]) > 1 => ~Has(sub[n], "*") /\ ~Has(sub[n], "#"),
             NEW k \in DOMAIN s, s[k] \in {"*", "#"}
      PROVE  /\ k - 1 \in DOMAIN s => s[k - 1] = "."
             /\ k + 1 \in DOMAIN s => s[k + 1] = "."
  <2>1. PICK n \in Nat, i \in Nat, e \in Nat : WordAt(s, ".", n, i, e) /\ i <= k /\ k < e
    <3>1. k \in 1..Len(s) /\ s[k] /= "."
      BY ONLY <1>1, <1>3
    <3> QED BY ONLY <3>1, InAWord, s \in Seq(Symbols)
  <2>2. Has(sub[n], s[k])
    <3>1. k - i + 1 \in 1..(e - i) /\ i + (k - i + 1) - 1 = k
      BY ONLY <1>1, <2>1, k \in DOMAIN s
    <3>2. k - i + 1 \in DOMAIN sub[n] /\ sub[n][k - i + 1] = s[k]
      BY ONLY <2>1, <3>1 DEF WordAt, Words
    <3> QED BY <3>2 DEF Has
  <2>3. n \in DOMAIN sub /\ Len(sub[n]) = e - i
    BY ONLY <1>2, <2>1 DEF WordAt, Words
  <2>4. ~(e - i > 1)
    BY ONLY <1>3, <2>2, <2>3
  <2>5. i = k /\ e = k + 1
    BY ONLY <1>1, <2>1, <2>4, k \in DOMAIN s
  <2>6. (k = 1 \/ s[k - 1] = ".") /\ (k + 1 = Len(s) + 1 \/ s[k + 1] = ".")
    BY ONLY <2>1, <2>5 DEF WordAt, Starts, EndsAt
  <2> QED BY ONLY <1>1, <2>6, k \in DOMAIN s
<1>4. ASSUME \A k \in DOMAIN s : s[k] \in {"*", "#"} =>
               /\ k - 1 \in DOMAIN s => s[k - 1] = "."
               /\ k + 1 \in DOMAIN s => s[k + 1] = ".",
             NEW n \in DOMAIN sub, Len(sub[n]) > 1, NEW x \in {"*", "#"}, Has(sub[n], x)
      PROVE  FALSE
  <2>1. PICK i \in Nat, e \in Nat : WordAt(s, ".", n, i, e)
    BY ONLY <1>2, EveryWord, n \in DOMAIN sub, s \in Seq(Symbols) DEF Words
  <2>2. PICK p \in 1..(e - i) : s[i + p - 1] = x
    <3>1. PICK p \in DOMAIN sub[n] : sub[n][p] = x
      BY ONLY <1>4 DEF Has
    <3>2. p \in 1..(e - i) /\ sub[n][p] = s[i + p - 1]
      BY ONLY <2>1, <3>1 DEF WordAt, Words
    <3> QED BY <3>1, <3>2
  <2>3. e - i > 1
    BY ONLY <1>4, <2>1 DEF WordAt, Words
  <2> DEFINE k == i + p - 1
  <2>4. /\ i \in 1..(Len(s) + 1) /\ e \in i..(Len(s) + 1)
        /\ \A q \in i..(e - 1) : s[q] /= "."
    BY ONLY <2>1 DEF WordAt, EndsAt
  <2>5. k \in i..(e - 1) /\ k \in DOMAIN s /\ (k - 1 \in i..(e - 1) \/ k + 1 \in i..(e - 1))
    BY ONLY <1>1, <2>2, <2>3, <2>4, i \in Nat, e \in Nat
  <2>6. \A q \in i..(e - 1) : q \in DOMAIN s
    BY ONLY <1>1, <2>4
  <2> HIDE DEF k
  <2>7. s[k] \in {"*", "#"}
    BY <2>2 DEF k
  <2> QED BY ONLY <1>4, <2>4, <2>5, <2>6, <2>7
<1> QED BY ONLY <1>3, <1>4 DEF sub

\* A # has a wildcard for its neighbour among the words exactly when it has one among the
\* symbols, separators apart.
LEMMA HashAlone ==
    ASSUME NEW Symbols, NEW s \in Seq(Symbols),
           \A k \in DOMAIN s : s[k] \in {"*", "#"} =>
              /\ k - 1 \in DOMAIN s => s[k - 1] = "."
              /\ k + 1 \in DOMAIN s => s[k + 1] = "."
    PROVE  LET sub == Words(s)
           IN  (\E n \in 2..Len(sub) :
                  <<sub[n - 1], sub[n]>> \in {<<Star, Hash>>, <<Hash, Hash>>, <<Hash, Star>>})
               <=> (\E i, j \in DOMAIN s :
                      /\ s[i] \in {"*", "#"} /\ s[j] \in {"*", "#"} /\ i < j
                      /\ "#" \in {s[i], s[j]}
                      /\ \A k \in (i + 1)..(j - 1) : s[k] = ".")
<1> DEFINE sub == Words(s)
<1>1. Len(s) \in Nat /\ DOMAIN s = 1..Len(s)
  OBVIOUS
<1>2. DOMAIN sub = 1..Len(sub) /\ Len(sub) \in Nat
  BY ONLY <1>1, SplitFacts DEF Words
<1>3. ASSUME NEW n \in 2..Len(sub),
             <<sub[n - 1], sub[n]>> \in {<<Star, Hash>>, <<Hash, Hash>>, <<Hash, Star>>}
      PROVE  \E i, j \in DOMAIN s :
               /\ s[i] \in {"*", "#"} /\ s[j] \in {"*", "#"} /\ i < j
               /\ "#" \in {s[i], s[j]}
               /\ \A k \in (i + 1)..(j - 1) : s[k] = "."
  <2>1. PICK x \in {"*", "#"}, y \in {"*", "#"} :
          sub[n - 1] = <<x>> /\ sub[n] = <<y>> /\ "#" \in {x, y}
    BY ONLY <1>3 DEF Star, Hash
  <2>2. n - 1 \in 1..Len(sub) /\ n \in 1..Len(sub) /\ n - 1 \in Nat /\ (n - 1) + 1 = n
    BY ONLY <1>2, n \in 2..Len(sub)
  <2>3. PICK i \in Nat, e \in Nat : WordAt(s, ".", n - 1, i, e)
    BY ONLY <2>2, EveryWord, s \in Seq(Symbols) DEF Words
  <2>4. PICK j \in Nat, f \in Nat : WordAt(s, ".", n, j, f)
    BY ONLY <2>2, EveryWord, s \in Seq(Symbols) DEF Words
  <2>5. e = i + 1 /\ s[i] = x /\ i \in DOMAIN s
    <3>1. /\ Len(sub[n - 1]) = e - i /\ i \in 1..(Len(s) + 1) /\ e \in i..(Len(s) + 1)
          /\ \A p \in 1..(e - i) : sub[n - 1][p] = s[i + p - 1]
      BY ONLY <2>3 DEF WordAt, Words
    <3>2. Len(sub[n - 1]) = 1 /\ sub[n - 1][1] = x
      BY ONLY <2>1
    <3>3. e = i + 1 /\ 1 \in 1..(e - i) /\ i + 1 - 1 = i
      <4>1. e - i = 1
        BY ONLY <3>1, <3>2
      <4> QED BY ONLY <4>1, i \in Nat, e \in Nat
    <3>4. s[i] = x
      BY ONLY <3>1, <3>2, <3>3
    <3> QED BY ONLY <1>1, <3>1, <3>3, <3>4
  <2>6. f = j + 1 /\ s[j] = y /\ j \in DOMAIN s
    <3>1. /\ Len(sub[n]) = f - j /\ j \in 1..(Len(s) + 1) /\ f \in j..(Len(s) + 1)
          /\ \A p \in 1..(f - j) : sub[n][p] = s[j + p - 1]
      BY ONLY <2>4 DEF WordAt, Words
    <3>2. Len(sub[n]) = 1 /\ sub[n][1] = y
      BY ONLY <2>1
    <3>3. f = j + 1 /\ 1 \in 1..(f - j) /\ j + 1 - 1 = j
      <4>1. f - j = 1
        BY ONLY <3>1, <3>2
      <4> QED BY ONLY <4>1, j \in Nat, f \in Nat
    <3>4. s[j] = y
      BY ONLY <3>1, <3>2, <3>3
    <3> QED BY ONLY <1>1, <3>1, <3>3, <3>4
  <2>7. i < j /\ \A k \in e..(j - 1) : s[k] = "."
    <3>1. WordAt(s, ".", (n - 1) + 1, j, f)
      BY ONLY <2>2, <2>4
    <3> QED BY ONLY <2>2, <2>3, <2>4, <3>1, NextWord, s \in Seq(Symbols)
  <2> QED BY ONLY <2>1, <2>5, <2>6, <2>7
<1>4. ASSUME NEW i \in DOMAIN s, NEW j \in DOMAIN s,
             s[i] \in {"*", "#"}, s[j] \in {"*", "#"}, i < j, "#" \in {s[i], s[j]},
             \A k \in (i + 1)..(j - 1) : s[k] = "."
      PROVE  \E n \in 2..Len(sub) :
               <<sub[n - 1], sub[n]>> \in {<<Star, Hash>>, <<Hash, Hash>>, <<Hash, Star>>}
  <2>1. i \in 1..Len(s) /\ j \in 1..Len(s) /\ s[i] /= "." /\ s[j] /= "." /\ i \in Nat /\ j \in Nat
    BY ONLY <1>1, <1>4
  <2>2. PICK m \in Nat : WordAt(s, ".", m, i, i + 1) /\ sub[m] = <<s[i]>>
    BY <1>4, <2>1, WordOfItsOwn DEF Words
  <2>3. PICK n \in Nat : WordAt(s, ".", n, j, j + 1) /\ sub[n] = <<s[j]>>
    BY <1>4, <2>1, WordOfItsOwn DEF Words
  <2>4. i + 1 \in Nat /\ j + 1 \in Nat
    BY ONLY <2>1
  <2>5. n = m + 1
    BY ONLY <1>4, <2>1, <2>2, <2>3, <2>4, WordsMeet, s \in Seq(Symbols)
  <2>6. m \in 1..Len(sub) /\ n \in 1..Len(sub)
    BY ONLY <2>2, <2>3 DEF WordAt, Words
  <2>7. n \in 2..Len(sub) /\ n - 1 = m
    BY ONLY <1>2, <2>5, <2>6
  <2>8. <<sub[m], sub[n]>> \in {<<Star, Hash>>, <<Hash, Hash>>, <<Hash, Star>>}
    BY ONLY <1>4, <2>2, <2>3 DEF Star, Hash
  <2> QED BY ONLY <2>7, <2>8
<1> QED BY ONLY <1>3, <1>4 DEF sub

\* is_legal_binding_key looks at words that split has cut out, and accepts exactly the keys
\* whose symbols obey the rules, whatever their length and wherever runs of separators
\* stand in them (route.hpp:26-46).
THEOREM LegalityIsTheRules == Spec => []LegalByTheRules
<1>1. TypeInv => LegalByTheRules
  <2> SUFFICES ASSUME TypeInv PROVE LegalByTheRules
    OBVIOUS
  <2> DEFINE Symbols == Letters \union {".", "*", "#"}
             wild == {i \in DOMAIN binding : binding[i] \in {"*", "#"}}
             separators(i, j) == \A k \in i..j : k \in DOMAIN binding => binding[k] = "."
             sub == Words(binding)
             Single == \A n \in DOMAIN sub : Len(sub[n]) > 1 => ~Has(sub[n], "*") /\ ~Has(sub[n], "#")
             Apart == \A n \in 2..Len(sub) :
                        <<sub[n - 1], sub[n]>> \notin {<<Star, Hash>>, <<Hash, Hash>>, <<Hash, Star>>}
             Rule1 == \A i \in wild : separators(i - 1, i - 1) /\ separators(i + 1, i + 1)
             Rule2 == \A i, j \in wild :
                        i < j /\ "#" \in {binding[i], binding[j]} => ~separators(i + 1, j - 1)
             Beside == \A k \in DOMAIN binding : binding[k] \in {"*", "#"} =>
                         /\ k - 1 \in DOMAIN binding => binding[k - 1] = "."
                         /\ k + 1 \in DOMAIN binding => binding[k + 1] = "."
             Meet == \E i, j \in DOMAIN binding :
                       /\ binding[i] \in {"*", "#"} /\ binding[j] \in {"*", "#"} /\ i < j
                       /\ "#" \in {binding[i], binding[j]}
                       /\ \A k \in (i + 1)..(j - 1) : binding[k] = "."
  <2>1. binding \in Seq(Symbols) /\ DOMAIN binding = 1..Len(binding) /\ Len(binding) \in Nat
    BY DEF TypeInv
  <2>2. \A i \in DOMAIN binding : binding[i] \in Symbols
    BY ONLY <2>1
  <2>3. is_legal_binding_key(binding) <=> Single /\ Apart
    BY <2>2 DEF is_legal_binding_key
  <2>4. Rule1 <=> Beside
    <3>1. \A i \in DOMAIN binding : i \in Int
      BY ONLY <2>1
    <3>2. ASSUME NEW i \in DOMAIN binding
          PROVE  /\ separators(i - 1, i - 1) <=> (i - 1 \in DOMAIN binding => binding[i - 1] = ".")
                 /\ separators(i + 1, i + 1) <=> (i + 1 \in DOMAIN binding => binding[i + 1] = ".")
      <4>1. i - 1 \in Int /\ i + 1 \in Int
        BY ONLY <3>1, i \in DOMAIN binding
      <4>2. (\A k \in (i - 1)..(i - 1) : k = i - 1) /\ (\A k \in (i + 1)..(i + 1) : k = i + 1)
        BY ONLY <4>1
      <4>3. i - 1 \in (i - 1)..(i - 1) /\ i + 1 \in (i + 1)..(i + 1)
        BY ONLY <4>1
      <4> QED BY ONLY <4>2, <4>3
    <3> HIDE DEF separators
    <3> QED BY ONLY <3>2
  <2>5. Rule2 <=> ~Meet
    <3>1. ASSUME NEW i \in DOMAIN binding, NEW j \in DOMAIN binding
          PROVE  separators(i + 1, j - 1) <=> \A k \in (i + 1)..(j - 1) : binding[k] = "."
      <4>1. \A k \in (i + 1)..(j - 1) : k \in DOMAIN binding
        BY ONLY <2>1, i \in DOMAIN binding, j \in DOMAIN binding
      <4> QED BY ONLY <4>1
    <3> HIDE DEF separators
    <3> QED BY ONLY <3>1
  <2>6. LegalByTheRules <=> (is_legal_binding_key(binding) <=> Rule1 /\ Rule2)
    BY DEF LegalByTheRules
  <2> HIDE DEF Symbols, wild
  <2>7. Single <=> Beside
    BY ONLY <2>1, WildcardsAlone
  <2>8. Beside => (~Apart <=> Meet)
    <3> SUFFICES ASSUME Beside PROVE ~Apart <=> Meet
      OBVIOUS
    <3>1. (\E n \in 2..Len(sub) :
              <<sub[n - 1], sub[n]>> \in {<<Star, Hash>>, <<Hash, Hash>>, <<Hash, Star>>}) <=> Meet
      BY ONLY <2>1, Beside, HashAlone
    <3> HIDE DEF Meet, sub
    <3> QED BY ONLY <3>1
  <2> HIDE DEF Single, Apart, Rule1, Rule2, Beside, Meet
  <2> QED BY ONLY <2>3, <2>4, <2>5, <2>6, <2>7, <2>8
<1> QED BY <1>1, RouterTypes, PTL

-----------------------------------------------------------------------------
(* The string of a row *)

\* FlattenSeq lengthens its result by one sequence after the other.
Lengthens(f, seqs, n) ==
    DOMAIN f = 1..n /\ \A i \in 1..n : f[i] = IF i = 1 THEN seqs[i] ELSE f[i - 1] \o seqs[i]

\* There is such a function, for any number of sequences.
LEMMA Lengthening ==
    ASSUME NEW seqs, NEW N \in Nat
    PROVE  \E f : f = [i \in 1..N |-> IF i = 1 THEN seqs[i] ELSE f[i - 1] \o seqs[i]]
<1> DEFINE Solves(f, n) == f = [i \in 1..n |-> IF i = 1 THEN seqs[i] ELSE f[i - 1] \o seqs[i]]
           T == {n \in Nat : ~\E f : Solves(f, n)}
<1>1. T = {}
  <2> SUFFICES ASSUME T /= {} PROVE FALSE
    OBVIOUS
  <2>1. T \subseteq Nat
    OBVIOUS
  <2>2. PICK n \in T : \A m \in T : n <= m
    <3> HIDE DEF T
    <3> QED BY <2>1, Smallest
  <2>3. n \in Nat /\ ~\E f : Solves(f, n)
    BY <2>2
  <2>4. n /= 0
    <3> SUFFICES ASSUME n = 0 PROVE FALSE
      OBVIOUS
    <3>1. Solves([i \in 1..0 |-> 0], 0)
      OBVIOUS
    <3> QED BY <2>3, <3>1
  <2>5. n - 1 \in Nat /\ n - 1 \notin T
    <3>1. n - 1 \in Nat /\ ~(n <= n - 1)
      BY <2>3, <2>4
    <3> HIDE DEF T
    <3> QED BY <2>2, <3>1
  <2>6. PICK f : Solves(f, n - 1)
    BY <2>5
  <2> DEFINE g == [i \in 1..n |-> IF i = n THEN (IF i = 1 THEN seqs[i] ELSE f[i - 1] \o seqs[i]) ELSE f[i]]
  <2>7. ASSUME NEW i \in 1..n PROVE g[i] = IF i = 1 THEN seqs[i] ELSE g[i - 1] \o seqs[i]
    <3>1. CASE i = 1
      <4>1. 1 \in 1..(n - 1) => f[1] = seqs[1]
        BY <2>6
      <4> QED BY <2>3, <3>1, <4>1
    <3>2. CASE i /= 1 /\ i = n
      <4>1. i - 1 \in 1..n /\ i - 1 /= n
        BY <2>3, <3>2
      <4>2. g[i - 1] = f[i - 1]
        BY <4>1
      <4> QED BY <3>2, <4>2
    <3>3. CASE i /= 1 /\ i /= n
      <4>1. i \in 1..(n - 1) /\ i - 1 \in 1..n /\ i - 1 /= n
        BY <2>3, <3>3
      <4>2. g[i - 1] = f[i - 1] /\ g[i] = f[i]
        BY <3>3, <4>1
      <4>3. f[i] = f[i - 1] \o seqs[i]
        BY <2>6, <3>3, <4>1
      <4> QED BY <3>3, <4>2, <4>3
    <3> QED BY <3>1, <3>2, <3>3
  <2>8. g = [i \in 1..n |-> g[i]]
    OBVIOUS
  <2>9. Solves(g, n)
    <3> HIDE DEF g
    <3> QED BY <2>7, <2>8
  <2> HIDE DEF Solves
  <2> QED BY <2>3, <2>9
<1> QED BY <1>1

\* FlattenSeq is the last of its values.
LEMMA Flattened ==
    ASSUME NEW S, NEW seqs \in Seq(Seq(S)), Len(seqs) /= 0
    PROVE  \E f : /\ Lengthens(f, seqs, Len(seqs)) /\ f \in [1..Len(seqs) -> Seq(S)]
                  /\ FlattenSeq(seqs) = f[Len(seqs)]
<1> DEFINE N == Len(seqs)
           f == CHOOSE f : f = [i \in 1..N |-> IF i = 1 THEN seqs[i] ELSE f[i - 1] \o seqs[i]]
<1>1. N \in Nat /\ N >= 1
  OBVIOUS
<1>2. f = [i \in 1..N |-> IF i = 1 THEN seqs[i] ELSE f[i - 1] \o seqs[i]]
  <2> HIDE DEF N
  <2> QED BY <1>1, Lengthening
<1>3. FlattenSeq(seqs) = f[N]
  <2> QED BY <1>1, Zenon DEF FlattenSeq
<1> HIDE DEF f
<1>4. Lengthens(f, seqs, N)
  <2> HIDE DEF N
  <2> QED BY <1>2 DEF Lengthens
<1> DEFINE T == {n \in 1..N : f[n] \notin Seq(S)}
<1>5. T = {}
  <2> SUFFICES ASSUME T /= {} PROVE FALSE
    OBVIOUS
  <2>1. T \subseteq Nat
    OBVIOUS
  <2>2. PICK n \in T : \A m \in T : n <= m
    <3> HIDE DEF T
    <3> QED BY <2>1, Smallest
  <2>3. n \in 1..N /\ seqs[n] \in Seq(S)
    OBVIOUS
  <2>4. CASE n = 1
    BY <1>4, <2>2, <2>3, <2>4 DEF Lengthens
  <2>5. CASE n /= 1
    <3>1. n - 1 \in 1..N /\ ~(n <= n - 1)
      BY <2>3, <2>5
    <3>2. n - 1 \notin T
      <4> HIDE DEF T
      <4> QED BY <2>2, <3>1
    <3>3. f[n - 1] \in Seq(S) /\ f[n] = f[n - 1] \o seqs[n]
      BY <1>4, <2>3, <2>5, <3>1, <3>2 DEF Lengthens
    <3>4. f[n] \in Seq(S)
      BY ONLY <2>3, <3>3
    <3> QED BY <2>2, <3>4
  <2> QED BY <2>4, <2>5
<1>6. f \in [1..N -> Seq(S)]
  BY <1>2, <1>5
<1> QED BY <1>3, <1>4, <1>6

\* Where the pieces of s stand: piece k, with its & at the end, at at[k - 1] + 1 .. at[k].
Layout(s, seqs, at) ==
    /\ at \in [0..Len(seqs) -> 0..Len(s)] /\ at[0] = 0 /\ at[Len(seqs)] = Len(s)
    /\ \A k \in 1..Len(seqs) :
         /\ at[k] = at[k - 1] + Len(seqs[k])
         /\ \A p \in 1..Len(seqs[k]) : s[at[k - 1] + p] = seqs[k][p]

\* Two sequences, one behind the other.
LEMMA Joined ==
    ASSUME NEW S, NEW a \in Seq(S), NEW b \in Seq(S)
    PROVE  /\ a \o b \in Seq(S) /\ Len(a) \in Nat /\ Len(b) \in Nat /\ Len(a \o b) = Len(a) + Len(b)
           /\ \A p \in 1..Len(a) : (a \o b)[p] = a[p]
           /\ \A p \in 1..Len(b) : (a \o b)[Len(a) + p] = b[p]
<1>1. Len(a) \in Nat /\ Len(b) \in Nat
  OBVIOUS
<1>2. /\ a \o b \in Seq(S) /\ Len(a \o b) = Len(a) + Len(b)
      /\ \A i \in 1..(Len(a) + Len(b)) : (a \o b)[i] = IF i <= Len(a) THEN a[i] ELSE b[i - Len(a)]
  BY ConcatProperties
<1>3. ASSUME NEW p \in 1..Len(b) PROVE (a \o b)[Len(a) + p] = b[p]
  <2>1. Len(a) + p \in 1..(Len(a) + Len(b)) /\ ~(Len(a) + p <= Len(a)) /\ (Len(a) + p) - Len(a) = p
    BY ONLY <1>1, p \in 1..Len(b)
  <2> QED BY ONLY <1>2, <2>1
<1>4. ASSUME NEW p \in 1..Len(a) PROVE (a \o b)[p] = a[p]
  <2>1. p \in 1..(Len(a) + Len(b)) /\ p <= Len(a)
    BY ONLY <1>1, p \in 1..Len(a)
  <2> QED BY ONLY <1>2, <2>1
<1> QED BY <1>1, <1>2, <1>3, <1>4

\* What has been joined stays where it is.
AllStay(f, N) ==
    \A k \in 1..N : \A n \in k..N :
        Len(f[k]) <= Len(f[n]) /\ \A p \in 1..Len(f[k]) : f[n][p] = f[k][p]

\* Sequences are only put behind it.
LEMMA PrefixesStay ==
    ASSUME NEW S, NEW N \in Nat, NEW seqs \in [1..N -> Seq(S)], NEW f \in [1..N -> Seq(S)],
           Lengthens(f, seqs, N)
    PROVE  AllStay(f, N)
<1> SUFFICES ASSUME NEW k \in 1..N, NEW n \in k..N
             PROVE  Len(f[k]) <= Len(f[n]) /\ \A p \in 1..Len(f[k]) : f[n][p] = f[k][p]
  BY DEF AllStay
<1> DEFINE Stays(m) == Len(f[k]) <= Len(f[m]) /\ \A p \in 1..Len(f[k]) : f[m][p] = f[k][p]
           T == {m \in k..N : ~Stays(m)}
<1>1. T = {}
  <2> SUFFICES ASSUME T /= {} PROVE FALSE
    OBVIOUS
  <2>1. T \subseteq Nat
    OBVIOUS
  <2>2. PICK m \in T : \A j \in T : m <= j
    <3> HIDE DEF T
    <3> QED BY <2>1, Smallest
  <2>3. m \in k..N /\ ~Stays(m)
    BY <2>2
  <2>4. m /= k
    <3> SUFFICES ASSUME m = k PROVE Stays(m)
      BY <2>3
    <3>1. Len(f[k]) \in Nat
      OBVIOUS
    <3> QED BY <3>1
  <2>5. m - 1 \in k..N /\ ~(m <= m - 1) /\ m \in 1..N /\ m - 1 \in 1..N /\ m /= 1
    BY ONLY m \in k..N, <2>3, <2>4, k \in 1..N, N \in Nat
  <2>6. Stays(m - 1)
    <3>1. m - 1 \notin T
      <4> HIDE DEF T
      <4> QED BY ONLY <2>2, <2>5
    <3> QED BY <2>5, <3>1
  <2>7. f[m] = f[m - 1] \o seqs[m]
    BY ONLY <2>5, Lengthens(f, seqs, N) DEF Lengthens
  <2>8. f[m - 1] \in Seq(S) /\ seqs[m] \in Seq(S) /\ Len(f[k]) \in Nat
    BY <2>5
  <2>9. /\ Len(f[m]) = Len(f[m - 1]) + Len(seqs[m]) /\ Len(seqs[m]) \in Nat /\ Len(f[m - 1]) \in Nat
        /\ \A p \in 1..Len(f[m - 1]) : f[m][p] = f[m - 1][p]
    <3> DEFINE a == f[m - 1]
               b == seqs[m]
    <3>1. a \in Seq(S) /\ b \in Seq(S) /\ f[m] = a \o b
      BY <2>7, <2>8
    <3>2. Len(f[m]) = Len(a) + Len(b) /\ Len(b) \in Nat /\ Len(a) \in Nat /\ \A p \in 1..Len(a) : f[m][p] = a[p]
      <4> HIDE DEF a, b
      <4> QED BY ONLY <3>1, Joined
    <3> QED BY ONLY <3>2
  <2>10. Stays(m)
    <3>1. Len(f[k]) <= Len(f[m])
      <4>1. Len(f[k]) <= Len(f[m - 1])
        BY ONLY <2>6
      <4> DEFINE x == Len(f[k])
                 y == Len(f[m - 1])
                 z == Len(seqs[m])
      <4>2. x \in Nat /\ y \in Nat /\ z \in Nat /\ x <= y /\ Len(f[m]) = y + z
        BY ONLY <2>8, <2>9, <4>1
      <4> HIDE DEF x, y, z
      <4>3. x <= Len(f[m])
        BY ONLY <4>2
      <4> QED BY ONLY <4>3 DEF x
    <3>2. ASSUME NEW p \in 1..Len(f[k]) PROVE f[m][p] = f[k][p]
      <4>1. p \in 1..Len(f[m - 1])
        BY ONLY <2>6, <2>8, <2>9, p \in 1..Len(f[k])
      <4> QED BY ONLY <2>6, <2>9, <4>1, p \in 1..Len(f[k])
    <3> QED BY <3>1, <3>2
  <2> QED BY <2>3, <2>10
<1>2. n \notin T
  BY ONLY <1>1
<1> QED BY <1>2

\* The pieces stand one behind the other in what FlattenSeq makes of them.
LEMMA FlattenedLayout ==
    ASSUME NEW S, NEW N \in Nat, NEW seqs \in [1..N -> Seq(S)], seqs \in Seq(Seq(S)), Len(seqs) = N
    PROVE  FlattenSeq(seqs) \in Seq(S) /\ \E at : Layout(FlattenSeq(seqs), seqs, at)
<1> DEFINE s == FlattenSeq(seqs)
<1>1. CASE N = 0
  <2>1. s = <<>>
    BY <1>1 DEF FlattenSeq
  <2> DEFINE at == [k \in 0..0 |-> 0]
  <2>2. Layout(s, seqs, at)
    <3> HIDE DEF s
    <3> QED BY <1>1, <2>1 DEF Layout
  <2> QED BY <2>1, <2>2
<1>2. CASE N /= 0
  <2>1. PICK f : Lengthens(f, seqs, N) /\ f \in [1..N -> Seq(S)] /\ s = f[N]
    BY <1>2, Flattened
  <2> HIDE DEF s
  <2>2. s \in Seq(S) /\ N \in 1..N /\ Len(s) \in Nat
    BY <1>2, <2>1
  <2>3. ASSUME NEW k \in 1..N
        PROVE  Len(f[k]) \in Nat /\ Len(f[k]) <= Len(s) /\ \A p \in 1..Len(f[k]) : s[p] = f[k][p]
    <3>1. N \in k..N
      OBVIOUS
    <3>2. Len(f[k]) \in Nat
      BY <2>1
    <3>3. Len(f[k]) <= Len(f[N]) /\ \A p \in 1..Len(f[k]) : f[N][p] = f[k][p]
      <4>1. f \in [1..N -> Seq(S)] /\ Lengthens(f, seqs, N)
        BY ONLY <2>1
      <4>2. AllStay(f, N)
        BY <4>1, PrefixesStay
      <4> QED BY ONLY <4>2, <3>1, k \in 1..N DEF AllStay
    <3> QED BY <2>1, <3>2, <3>3
  <2> DEFINE at == [k \in 0..N |-> IF k = 0 THEN 0 ELSE Len(f[k])]
  <2>4. at \in [0..N -> 0..Len(s)]
    BY <2>2, <2>3
  <2>5. at[0] = 0 /\ at[N] = Len(s)
    BY <1>2, <2>1
  <2>6. \A k \in 0..N : at[k] = IF k = 0 THEN 0 ELSE Len(f[k])
    OBVIOUS
  <2>7. ASSUME NEW k \in 1..N
        PROVE  at[k] = at[k - 1] + Len(seqs[k]) /\ \A p \in 1..Len(seqs[k]) : s[at[k - 1] + p] = seqs[k][p]
    <3> HIDE DEF at
    <3>1. seqs[k] \in Seq(S) /\ Len(seqs[k]) \in Nat
      OBVIOUS
    <3>2. k - 1 \in 0..N /\ k \in 0..N /\ k /= 0
      OBVIOUS
    <3>3. at[k] = Len(f[k])
      BY ONLY <2>6, <3>2
    <3>4. CASE k = 1
      <4>1. at[k - 1] = 0
        BY ONLY <2>6, <3>4, <3>2
      <4>2. f[k] = seqs[k]
        BY ONLY <2>1, <3>4, k \in 1..N DEF Lengthens
      <4> QED BY ONLY <2>3, <3>1, <3>3, <4>1, <4>2, k \in 1..N
    <3>5. CASE k /= 1
      <4>1. k - 1 \in 1..N /\ k - 1 /= 0
        BY <3>5
      <4>2. at[k - 1] = Len(f[k - 1])
        BY ONLY <2>6, <3>2, <4>1
      <4>3. f[k] = f[k - 1] \o seqs[k]
        BY ONLY <2>1, <3>5, k \in 1..N DEF Lengthens
      <4>4. f[k - 1] \in Seq(S)
        BY <2>1, <4>1
      <4>5. /\ Len(f[k]) = Len(f[k - 1]) + Len(seqs[k]) /\ Len(f[k - 1]) \in Nat
            /\ \A p \in 1..Len(seqs[k]) : f[k][Len(f[k - 1]) + p] = seqs[k][p]
        BY ONLY <3>1, <4>3, <4>4, Joined
      <4>6. \A p \in 1..Len(seqs[k]) : Len(f[k - 1]) + p \in 1..Len(f[k])
        BY ONLY <3>1, <4>5
      <4> QED BY ONLY <2>3, <3>3, <4>2, <4>5, <4>6, k \in 1..N
    <3> QED BY <3>4, <3>5
  <2>8. Layout(s, seqs, at)
    <3> HIDE DEF at
    <3> QED BY ONLY <2>4, <2>5, <2>7, Len(seqs) = N DEF Layout
  <2> QED BY <2>2, <2>8 DEF s
<1> QED BY <1>1, <1>2

\* What get_args writes: the texts of the pairs, with a & behind each.
RowLayout(Symbols, s, N, texts, at) ==
    /\ s \in Seq(Symbols) /\ Len(s) \in Nat /\ N \in Nat /\ texts \in [1..N -> Seq(Symbols)]
    /\ at \in [0..N -> 0..Len(s)] /\ at[0] = 0 /\ at[N] = Len(s)
    /\ \A k \in 1..N :
         /\ Len(texts[k]) \in Nat /\ Len(texts[k]) >= 1 /\ at[k] = at[k - 1] + Len(texts[k]) + 1
         /\ s[at[k]] = "&"
         /\ \A p \in 1..Len(texts[k]) : s[at[k - 1] + p] = texts[k][p] /\ texts[k][p] /= "&"

\* No & before the end of a piece.
LEMMA NoSeparatorBefore ==
    ASSUME NEW Symbols, NEW s, NEW N, NEW texts, NEW at, RowLayout(Symbols, s, N, texts, at),
           NEW k \in 1..N, NEW x \in (at[k - 1] + 1)..(at[k] - 1)
    PROVE  s[x] /= "&"
<1>0. s \in Seq(Symbols) /\ Len(s) \in Nat /\ N \in Nat /\ texts \in [1..N -> Seq(Symbols)]
  BY DEF RowLayout
<1>1. at[k - 1] \in Nat /\ at[k] \in Nat
  <2>1. k - 1 \in 0..N /\ k \in 0..N
    BY ONLY <1>0, k \in 1..N
  <2>2. at[k - 1] \in 0..Len(s) /\ at[k] \in 0..Len(s)
    BY ONLY <2>1, RowLayout(Symbols, s, N, texts, at) DEF RowLayout
  <2> QED BY ONLY <2>2, <1>0
<1>2. /\ Len(texts[k]) \in Nat /\ at[k] = at[k - 1] + Len(texts[k]) + 1
      /\ \A p \in 1..Len(texts[k]) : s[at[k - 1] + p] = texts[k][p] /\ texts[k][p] /= "&"
  BY ONLY RowLayout(Symbols, s, N, texts, at), k \in 1..N DEF RowLayout
<1>3. x - at[k - 1] \in 1..Len(texts[k]) /\ at[k - 1] + (x - at[k - 1]) = x
  <2> DEFINE a == at[k - 1]
             b == at[k]
             l == Len(texts[k])
  <2>1. a \in Nat /\ l \in Nat /\ b = a + l + 1 /\ x \in (a + 1)..(b - 1)
    BY <1>1, <1>2
  <2> HIDE DEF a, b, l
  <2>2. x - a \in 1..l /\ a + (x - a) = x
    BY ONLY <2>1
  <2> QED BY ONLY <2>2 DEF a, l
<1> QED BY ONLY <1>2, <1>3

\* Every place is in a piece.
LEMMA PieceOf ==
    ASSUME NEW Symbols, NEW s, NEW N, NEW texts, NEW at, RowLayout(Symbols, s, N, texts, at),
           NEW x \in 1..Len(s)
    PROVE  \E k \in 1..N : at[k - 1] < x /\ x <= at[k]
<1>0. s \in Seq(Symbols) /\ Len(s) \in Nat /\ N \in Nat /\ texts \in [1..N -> Seq(Symbols)]
  BY DEF RowLayout
<1> DEFINE T == {k \in 0..N : x <= at[k]}
<1>1. T \subseteq Nat /\ N \in T
  BY <1>0 DEF RowLayout
<1>2. PICK k \in T : \A j \in T : k <= j
  <2> HIDE DEF T
  <2> QED BY <1>1, Smallest
<1>3. k \in 0..N /\ x <= at[k]
  BY <1>2
<1>4. k /= 0
  BY <1>3 DEF RowLayout
<1>5. k \in 1..N /\ k - 1 \in 0..N /\ ~(k <= k - 1)
  BY ONLY <1>0, <1>3, <1>4
<1>6. k - 1 \notin T
  <2> HIDE DEF T
  <2> QED BY ONLY <1>2, <1>5
<1>7. at[k - 1] \in Nat
  BY <1>5 DEF RowLayout
<1> QED BY <1>3, <1>5, <1>6, <1>7

\* What split cuts out is made of the same symbols.
LEMMA WordsAreTexts ==
    ASSUME NEW Symbols, NEW s \in Seq(Symbols), NEW sep, NEW n \in 1..Len(Split(s, sep))
    PROVE  Split(s, sep)[n] \in Seq(Symbols)
<1> DEFINE i == Nth(Starts(s, sep), n)
<1>1. Len(s) \in Nat
  OBVIOUS
<1>2. i \in 1..(Len(s) + 1) /\ Split(s, sep)[n] = Token(s, sep, i)
  BY <1>1, SplitFacts
<1> HIDE DEF i
<1>3. PICK e \in i..(Len(s) + 1) : Split(s, sep)[n] = SubSeq(s, i, e - 1)
  BY ONLY <1>1, <1>2, TokenEnds
<1>4. SubSeq(s, i, e - 1) \in Seq(Symbols)
  <2>1. i \in Nat /\ e - 1 \in Int /\ \A p \in i..(e - 1) : p \in 1..Len(s)
    BY ONLY <1>1, <1>2, e \in i..(Len(s) + 1)
  <2>2. \A p \in i..(e - 1) : s[p] \in Symbols
    BY <2>1
  <2> QED BY ONLY <2>1, <2>2, SubSeqProperties
<1> QED BY <1>3, <1>4

\* A word that starts with a piece is its text.
LEMMA WordEnds ==
    ASSUME NEW Symbols, NEW s, NEW N, NEW texts, NEW at,
           RowLayout(Symbols, s, N, texts, at), NEW k \in 1..N,
           NEW n, NEW e, WordAt(s, "&", n, at[k - 1] + 1, e)
    PROVE  e = at[k] /\ Split(s, "&")[n] = texts[k]
<1>0. s \in Seq(Symbols) /\ Len(s) \in Nat /\ N \in Nat /\ texts \in [1..N -> Seq(Symbols)]
  BY DEF RowLayout
<1> DEFINE i == at[k - 1] + 1
           w == Split(s, "&")[n]
<1>1. Len(s) \in Nat
  BY <1>0
<1>2. at[k - 1] \in Nat /\ at[k] \in 1..Len(s)
  <2>1. k - 1 \in 0..N /\ k \in 0..N
    BY ONLY <1>0, k \in 1..N
  <2>2. at[k - 1] \in 0..Len(s) /\ at[k] \in 0..Len(s) /\ Len(texts[k]) \in Nat /\ at[k] = at[k - 1] + Len(texts[k]) + 1
    BY ONLY <2>1, RowLayout(Symbols, s, N, texts, at), k \in 1..N DEF RowLayout
  <2> QED BY ONLY <1>1, <2>2
<1>3. /\ Len(texts[k]) \in Nat /\ Len(texts[k]) >= 1 /\ at[k] = at[k - 1] + Len(texts[k]) + 1 /\ s[at[k]] = "&"
      /\ \A p \in 1..Len(texts[k]) : s[at[k - 1] + p] = texts[k][p]
  BY ONLY RowLayout(Symbols, s, N, texts, at), k \in 1..N DEF RowLayout
<1>4. /\ e \in i..(Len(s) + 1) /\ n \in 1..Len(Split(s, "&"))
      /\ (e = Len(s) + 1 \/ s[e] = "&") /\ \A x \in i..(e - 1) : s[x] /= "&"
      /\ Len(w) = e - i /\ \A p \in 1..(e - i) : w[p] = s[i + p - 1]
  BY ONLY WordAt(s, "&", n, at[k - 1] + 1, e) DEF WordAt, EndsAt
<1> HIDE DEF w
<1>5. at[k] \notin i..(e - 1)
  BY ONLY <1>3, <1>4
<1>6. e <= at[k]
  <2> DEFINE b == at[k]
             last == Len(s)
  <2>1. b \in 1..last /\ i \in Nat /\ i <= b /\ last \in Nat /\ e \in i..(last + 1) /\ b \notin i..(e - 1)
    <3> DEFINE a == at[k - 1]
               l == Len(texts[k])
    <3>1. a \in Nat /\ l \in Nat /\ b = a + l + 1 /\ i = a + 1
      BY <1>2, <1>3
    <3> HIDE DEF a, b, l, i
    <3>2. i \in Nat /\ i <= b
      BY ONLY <3>1
    <3> QED BY ONLY <3>2, <1>1, <1>2, <1>4, <1>5 DEF b, last
  <2> HIDE DEF b, last, i
  <2>2. e <= b
    BY ONLY <2>1
  <2> QED BY ONLY <2>2 DEF b
<1>7. ~(e < at[k])
  <2> SUFFICES ASSUME e < at[k] PROVE FALSE
    OBVIOUS
  <2>1. e \in (at[k - 1] + 1)..(at[k] - 1) /\ e /= Len(s) + 1
    BY ONLY <1>1, <1>2, <1>4, e < at[k]
  <2>2. s[e] /= "&"
    BY ONLY <1>1, <2>1, NoSeparatorBefore, RowLayout(Symbols, s, N, texts, at), <1>0, k \in 1..N
  <2> QED BY <1>4, <2>1, <2>2
<1>8. e = at[k]
  BY ONLY <1>1, <1>2, <1>4, <1>6, <1>7
<1>9. w = texts[k]
  <2>1. w \in Seq(Symbols) /\ texts[k] \in Seq(Symbols)
    BY <1>0, <1>4, WordsAreTexts DEF w
  <2>2. Len(w) = Len(texts[k]) /\ \A p \in 1..Len(texts[k]) : i + p - 1 = at[k - 1] + p /\ p \in 1..(e - i)
    <3> DEFINE a == at[k - 1]
               l == Len(texts[k])
               h == Len(w)
    <3>1. a \in Nat /\ l \in Nat /\ e = a + l + 1 /\ i = a + 1 /\ h = e - i
      BY <1>2, <1>3, <1>4, <1>8
    <3> HIDE DEF a, l, h, i
    <3>2. h = l /\ \A p \in 1..l : i + p - 1 = a + p /\ p \in 1..(e - i)
      BY ONLY <3>1
    <3> QED BY ONLY <3>2 DEF a, l, h
  <2>3. \A p \in 1..Len(texts[k]) : w[p] = texts[k][p]
    BY ONLY <1>3, <1>4, <2>2
  <2> QED BY ONLY <2>1, <2>2, <2>3, SeqEqual
<1> QED BY <1>8, <1>9 DEF w

\* Split cuts a row into the texts of its pairs, in some places, and an empty word at its end.
LEMMA WordOfRow ==
    ASSUME NEW Symbols, NEW s, NEW N, NEW texts, NEW at,
           RowLayout(Symbols, s, N, texts, at), NEW n, NEW i, NEW e, WordAt(s, "&", n, i, e)
    PROVE  \/ i = Len(s) + 1 /\ Split(s, "&")[n] = <<>>
           \/ \E k \in 1..N : i = at[k - 1] + 1 /\ Split(s, "&")[n] = texts[k]
<1>0. s \in Seq(Symbols) /\ Len(s) \in Nat /\ N \in Nat /\ texts \in [1..N -> Seq(Symbols)]
  BY DEF RowLayout
<1>1. Len(s) \in Nat
  BY <1>0
<1>2. /\ i \in 1..(Len(s) + 1) /\ e \in i..(Len(s) + 1) /\ n \in 1..Len(Split(s, "&"))
      /\ Len(Split(s, "&")[n]) = e - i
      /\ i /= Len(s) + 1 => i = 1 \/ s[i - 1] = "&"
  BY ONLY WordAt(s, "&", n, i, e) DEF WordAt, Starts
<1>3. CASE i = Len(s) + 1
  <2>1. e = i
    BY ONLY <1>1, <1>2, <1>3
  <2>2. Split(s, "&")[n] \in Seq(Symbols) /\ Len(Split(s, "&")[n]) = 0
    <3>1. e - i = 0
      BY ONLY <1>2, <1>1, <2>1
    <3> QED BY <1>0, <1>2, <3>1, WordsAreTexts
  <2>3. Split(s, "&")[n] = <<>>
    BY ONLY <2>2
  <2> QED BY <1>3, <2>3
<1>4. CASE i /= Len(s) + 1
  <2>1. i \in 1..Len(s)
    BY ONLY <1>1, <1>2, <1>4
  <2>2. PICK k \in 1..N : at[k - 1] < i /\ i <= at[k]
    BY ONLY <1>1, <2>1, PieceOf, RowLayout(Symbols, s, N, texts, at), <1>0
  <2>3. at[k - 1] \in Nat /\ at[k] \in Nat
    <3>1. k - 1 \in 0..N /\ k \in 0..N
      BY ONLY <1>0, k \in 1..N
    <3>2. at[k - 1] \in 0..Len(s) /\ at[k] \in 0..Len(s)
      BY ONLY <3>1, RowLayout(Symbols, s, N, texts, at) DEF RowLayout
    <3> QED BY ONLY <1>1, <3>2
  <2>4. i = at[k - 1] + 1
    <3> SUFFICES ASSUME i /= at[k - 1] + 1 PROVE FALSE
      OBVIOUS
    <3>1. i - 1 \in (at[k - 1] + 1)..(at[k] - 1) /\ i /= 1
      <4> DEFINE a == at[k - 1]
                 b == at[k]
      <4>1. a \in Nat /\ b \in Nat /\ a < i /\ i <= b /\ i /= a + 1 /\ i \in Nat
        BY <2>1, <2>2, <2>3
      <4> HIDE DEF a, b
      <4>2. i - 1 \in (a + 1)..(b - 1) /\ i /= 1
        BY ONLY <4>1
      <4> QED BY ONLY <4>2 DEF a, b
    <3>2. s[i - 1] /= "&"
      BY ONLY <1>1, <3>1, NoSeparatorBefore, RowLayout(Symbols, s, N, texts, at), <1>0, k \in 1..N
    <3> QED BY ONLY <1>2, <1>4, <3>1, <3>2
  <2>5. Split(s, "&")[n] = texts[k]
    <3>1. WordAt(s, "&", n, at[k - 1] + 1, e)
      BY <2>4
    <3> QED BY <3>1, WordEnds
  <2> QED BY <2>4, <2>5
<1> QED BY <1>3, <1>4

\* The text of each pair is one of the words.
LEMMA TextIsWord ==
    ASSUME NEW Symbols, NEW s, NEW N, NEW texts, NEW at,
           RowLayout(Symbols, s, N, texts, at), NEW k \in 1..N
    PROVE  \E n, e : WordAt(s, "&", n, at[k - 1] + 1, e) /\ Split(s, "&")[n] = texts[k]
<1>0. s \in Seq(Symbols) /\ Len(s) \in Nat /\ N \in Nat /\ texts \in [1..N -> Seq(Symbols)]
  BY DEF RowLayout
<1> DEFINE x == at[k - 1] + 1
<1>1. Len(s) \in Nat
  BY <1>0
<1>2. at[k - 1] \in Nat /\ at[k] \in 1..Len(s) /\ x < at[k]
  <2>1. k - 1 \in 0..N /\ k \in 0..N
    BY ONLY <1>0, k \in 1..N
  <2>2. at[k - 1] \in 0..Len(s) /\ at[k] \in 0..Len(s) /\ Len(texts[k]) \in Nat
        /\ Len(texts[k]) >= 1 /\ at[k] = at[k - 1] + Len(texts[k]) + 1
    BY ONLY <2>1, RowLayout(Symbols, s, N, texts, at), k \in 1..N DEF RowLayout
  <2> DEFINE a == at[k - 1]
             b == at[k]
             l == Len(texts[k])
             last == Len(s)
  <2>3. last \in Nat /\ a \in 0..last /\ b \in 0..last /\ l \in Nat /\ l >= 1 /\ b = a + l + 1
    BY <1>1, <2>2
  <2> HIDE DEF a, b, l, last, x
  <2>4. a \in Nat /\ b \in 1..last /\ a + 1 < b
    BY ONLY <2>3
  <2> QED BY ONLY <2>4 DEF a, b, last, x
<1>3. x \in 1..Len(s) /\ x \in (at[k - 1] + 1)..(at[k] - 1)
  BY ONLY <1>1, <1>2
<1>4. s[x] /= "&"
  <2> HIDE DEF x
  <2> QED BY ONLY <1>1, <1>3, NoSeparatorBefore, RowLayout(Symbols, s, N, texts, at), <1>0, k \in 1..N
<1>5. x = 1 \/ s[x - 1] = "&"
  <2>1. k = 1 => x = 1
    BY ONLY RowLayout(Symbols, s, N, texts, at) DEF RowLayout
  <2>2. k /= 1 => k - 1 \in 1..N /\ x - 1 = at[k - 1]
    BY ONLY <1>2, k \in 1..N, <1>0
  <2>3. k /= 1 => s[at[k - 1]] = "&"
    BY ONLY <2>2, RowLayout(Symbols, s, N, texts, at) DEF RowLayout
  <2> QED BY ONLY <2>1, <2>2, <2>3
<1> HIDE DEF x
<1>6. PICK n, i, e : WordAt(s, "&", n, i, e) /\ i \in Nat /\ e \in Nat /\ i <= x /\ x < e
  BY ONLY <1>3, <1>4, InAWord, <1>0
<1>7. i = x
  <2> SUFFICES ASSUME i /= x PROVE FALSE
    OBVIOUS
  <2>1. i \in 1..(Len(s) + 1) /\ \A m \in i..(e - 1) : s[m] /= "&"
    BY ONLY <1>6 DEF WordAt, EndsAt
  <2>2. x - 1 \in i..(e - 1) /\ x /= 1
    BY ONLY <1>1, <1>3, <1>6, <2>1, i /= x
  <2> QED BY ONLY <1>5, <2>1, <2>2
<1>8. Split(s, "&")[n] = texts[k]
  <2>1. WordAt(s, "&", n, at[k - 1] + 1, e)
    BY <1>6, <1>7 DEF x
  <2>2. \A m, h : WordAt(s, "&", m, at[k - 1] + 1, h) => h = at[k] /\ Split(s, "&")[m] = texts[k]
    BY WordEnds
  <2> QED BY ONLY <2>1, <2>2, Zenon
<1> QED BY <1>6, <1>7, <1>8 DEF x

\* What get_args writes for a pair is longer than nothing, and is taken for that pair again.
LEMMA PairBack ==
    ASSUME NEW S, "=" \in S, NEW key \in Seq(S), NEW value \in Seq(S), ~Has(key, "=")
    PROVE  LET text == key \o <<"=">> \o value
           IN  /\ text \in Seq(S) /\ Len(text) \in Nat /\ Len(text) >= 1
               /\ Pair(text) = <<key, value>>
               /\ \A sep : sep /= "=" /\ ~Has(key, sep) /\ ~Has(value, sep) =>
                      \A p \in 1..Len(text) : text[p] /= sep
<1> DEFINE head == key \o <<"=">>
           text == head \o value
           K == Len(key)
           V == Len(value)
<1>1. K \in Nat /\ V \in Nat /\ <<"=">> \in Seq(S) /\ Len(<<"=">>) = 1 /\ <<"=">>[1] = "="
  OBVIOUS
<1>2. /\ head \in Seq(S) /\ Len(head) = K + 1 /\ head[K + 1] = "="
      /\ \A p \in 1..K : head[p] = key[p]
  <2>1. /\ head \in Seq(S) /\ Len(head) = K + Len(<<"=">>)
        /\ \A p \in 1..Len(key) : head[p] = key[p]
        /\ \A p \in 1..Len(<<"=">>) : head[Len(key) + p] = <<"=">>[p]
    BY <1>1, Joined
  <2> HIDE DEF head
  <2> QED BY <1>1, <2>1
<1>3. /\ text \in Seq(S) /\ Len(text) = K + 1 + V
      /\ \A p \in 1..(K + 1) : text[p] = head[p]
      /\ \A p \in 1..V : text[K + 1 + p] = value[p]
  <2> HIDE DEF head
  <2>1. /\ text \in Seq(S) /\ Len(text) = Len(head) + Len(value)
        /\ \A p \in 1..Len(head) : text[p] = head[p]
        /\ \A p \in 1..Len(value) : text[Len(head) + p] = value[p]
    <3>1. head \in Seq(S)
      BY <1>2
    <3> QED BY ONLY <3>1, value \in Seq(S), Joined
  <2> HIDE DEF text
  <2> QED BY <1>2, <2>1
<1>4. DOMAIN key = 1..K /\ DOMAIN value = 1..V
  OBVIOUS
<1> HIDE DEF head, text, K, V
<1>5. /\ \A p \in 1..K : text[p] = key[p] /\ text[p] /= "="
      /\ text[K + 1] = "=" /\ DOMAIN text = 1..(K + 1 + V)
  <2>1. \A p \in 1..K : p \in 1..(K + 1) /\ key[p] /= "="
    BY <1>1, <1>4 DEF Has
  <2>2. K + 1 \in 1..(K + 1)
    BY <1>1
  <2> QED BY <1>2, <1>3, <2>1, <2>2
<1>6. SubSeq(text, 1, K) = key /\ SubSeq(text, K + 2, Len(text)) = value
  <2>1. SubSeq(text, 1, K) \in Seq(S) /\ Len(SubSeq(text, 1, K)) = K
        /\ \A p \in 1..K : SubSeq(text, 1, K)[p] = text[p]
    <3>1. \A p \in 1..K : text[p] \in S
      BY <1>1, <1>3, <1>5
    <3>2. /\ SubSeq(text, 1, K) \in Seq(S) /\ Len(SubSeq(text, 1, K)) = IF 1 <= K THEN K - 1 + 1 ELSE 0
          /\ \A p \in 1..(K - 1 + 1) : SubSeq(text, 1, K)[p] = text[1 + p - 1]
      BY ONLY <1>1, <3>1, SubSeqProperties
    <3>3. K - 1 + 1 = K /\ \A p \in 1..K : 1 + p - 1 = p
      BY ONLY <1>1
    <3> QED BY ONLY <1>1, <3>2, <3>3
  <2>2. SubSeq(text, 1, K) = key
    <3>1. Len(key) = K
      BY DEF K
    <3> QED BY ONLY <1>5, <2>1, <3>1, SeqEqual, key \in Seq(S)
  <2>3. /\ SubSeq(text, K + 2, Len(text)) \in Seq(S) /\ Len(SubSeq(text, K + 2, Len(text))) = V
        /\ \A p \in 1..V : SubSeq(text, K + 2, Len(text))[p] = value[p]
    <3> DEFINE from == K + 2
               to == K + 1 + V
    <3>1. /\ from \in Int /\ to \in Int /\ to - from + 1 = V /\ (from <= to <=> V >= 1)
          /\ \A p \in 1..V : from + p - 1 = K + 1 + p
          /\ \A p \in from..to : p \in 1..to
      BY ONLY <1>1
    <3>2. \A p \in from..to : text[p] \in S
      <4>1. \A p \in 1..to : text[p] \in S
        BY ONLY <1>3, <1>5
      <4> QED BY ONLY <3>1, <4>1
    <3> HIDE DEF from, to
    <3>3. /\ SubSeq(text, from, to) \in Seq(S)
          /\ Len(SubSeq(text, from, to)) = IF from <= to THEN to - from + 1 ELSE 0
          /\ \A p \in 1..(to - from + 1) : SubSeq(text, from, to)[p] = text[from + p - 1]
      BY ONLY <3>1, <3>2, SubSeqProperties
    <3>4. Len(text) = to
      BY <1>3 DEF to
    <3>5. SubSeq(text, from, to) \in Seq(S) /\ Len(SubSeq(text, from, to)) = V
      BY ONLY <1>1, <3>1, <3>3
    <3>6. \A p \in 1..V : SubSeq(text, from, to)[p] = value[p]
      BY ONLY <1>3, <3>1, <3>3
    <3> QED BY ONLY <3>4, <3>5, <3>6 DEF from
  <2>4. SubSeq(text, K + 2, Len(text)) = value
    <3>1. Len(value) = V
      BY DEF V
    <3> QED BY ONLY <2>3, <3>1, SeqEqual, value \in Seq(S)
  <2> QED BY <2>2, <2>4
<1>7. Pair(text) = <<key, value>>
  <2> DEFINE First(pos) == text[pos] = "=" /\ ~Has(SubSeq(text, 1, pos - 1), "=")
  <2>1. K + 1 \in DOMAIN text /\ First(K + 1)
    <3>1. K + 1 \in 1..(K + 1 + V) /\ (K + 1) - 1 = K
      BY <1>1
    <3> QED BY <1>5, <1>6, <3>1
  <2>2. ASSUME NEW pos \in DOMAIN text, First(pos) PROVE pos = K + 1
    <3>1. pos \in Nat /\ pos \in 1..(K + 1 + V)
      BY <1>1, <1>5
    <3>2. ~(pos <= K)
      BY <1>5, <2>2, <3>1
    <3>3. ~(pos > K + 1)
      <4> SUFFICES ASSUME pos > K + 1 PROVE FALSE
        OBVIOUS
      <4>1. /\ pos - 1 \in Int /\ K + 1 \in 1..(pos - 1) /\ (pos - 1) - 1 + 1 = pos - 1 /\ 1 <= pos - 1
            /\ 1 + (K + 1) - 1 = K + 1
            /\ \A p \in 1..(pos - 1) : p \in 1..(K + 1 + V)
        BY ONLY <1>1, <3>1, pos > K + 1
      <4>2. \A p \in 1..(pos - 1) : text[p] \in S
        BY ONLY <1>3, <1>5, <4>1
      <4>3. /\ SubSeq(text, 1, pos - 1) \in Seq(S)
            /\ Len(SubSeq(text, 1, pos - 1)) = IF 1 <= pos - 1 THEN (pos - 1) - 1 + 1 ELSE 0
            /\ \A p \in 1..((pos - 1) - 1 + 1) : SubSeq(text, 1, pos - 1)[p] = text[1 + p - 1]
        BY ONLY <4>1, <4>2, SubSeqProperties
      <4>4. K + 1 \in DOMAIN SubSeq(text, 1, pos - 1) /\ SubSeq(text, 1, pos - 1)[K + 1] = text[K + 1]
        BY ONLY <4>1, <4>3
      <4> QED BY <1>5, <2>2, <4>4 DEF Has
    <3> QED BY ONLY <1>1, <3>1, <3>2, <3>3
  <2>3. (CHOOSE pos \in DOMAIN text : First(pos)) = K + 1
    <3> HIDE DEF First
    <3> QED BY ONLY <2>1, <2>2
  <2>4. Has(text, "=")
    BY <2>1 DEF Has
  <2>5. Pair(text) = <<SubSeq(text, 1, (K + 1) - 1), SubSeq(text, (K + 1) + 1, Len(text))>>
    BY <2>3, <2>4 DEF Pair, Cut
  <2>6. (K + 1) - 1 = K /\ (K + 1) + 1 = K + 2
    BY <1>1
  <2> QED BY ONLY <1>6, <2>5, <2>6
<1>8. ASSUME NEW sep, sep /= "=", ~Has(key, sep), ~Has(value, sep), NEW p \in 1..Len(text)
      PROVE  text[p] /= sep
  <2>1. CASE p <= K
    <3>1. p \in 1..K
      BY <1>1, <1>3, <2>1
    <3> QED BY <1>4, <1>5, <1>8, <3>1 DEF Has
  <2>2. CASE p = K + 1
    BY <1>5, <1>8, <2>2
  <2>3. CASE p > K + 1
    <3>1. p - (K + 1) \in 1..V /\ K + 1 + (p - (K + 1)) = p
      BY <1>1, <1>3, <2>3
    <3>2. text[p] = value[p - (K + 1)]
      BY ONLY <1>3, <3>1
    <3> QED BY <1>4, <1>8, <3>1, <3>2 DEF Has
  <2> QED BY <1>1, <1>3, <2>1, <2>2, <2>3
<1>9. Len(text) \in Nat /\ Len(text) >= 1
  BY <1>1, <1>3
<1> QED BY <1>3, <1>7, <1>8, <1>9 DEF head, text

\* Injective orders of a finite set have all of it.
LEMMA OrderHasAll ==
    ASSUME NEW m, IsFiniteSet(m), NEW pairs \in SetToSeqs(m)
    PROVE  /\ Cardinality(m) \in Nat /\ pairs \in [1..Cardinality(m) -> m] /\ Len(pairs) = Cardinality(m)
           /\ \A i, j \in 1..Cardinality(m) : pairs[i] = pairs[j] => i = j
           /\ \A p \in m : \E i \in 1..Cardinality(m) : pairs[i] = p
<1> DEFINE N == Cardinality(m)
<1>1. N \in Nat
  BY FS_CardinalityType
<1>2. pairs \in [1..N -> m] /\ \A i, j \in 1..N : pairs[i] = pairs[j] => i = j
  BY DEF SetToSeqs
<1> HIDE DEF N
<1>3. pairs \in Injection(1..N, m)
  BY <1>2 DEF Injection, IsInjective
<1>4. Cardinality(1..N) = Cardinality(m)
  BY <1>1, FS_Interval DEF N
<1>5. pairs \in Surjection(1..N, m)
  BY <1>3, <1>4, FS_Injection
<1>6. \A p \in m : \E i \in 1..N : pairs[i] = p
  BY <1>5 DEF Surjection
<1>7. Len(pairs) = N
  BY <1>1, <1>2
<1> QED BY <1>1, <1>2, <1>6, <1>7 DEF N

TextOf(p) == p[1] \o <<"=">> \o p[2]
RowSymbols == ArgSymbols \union {"=", "&"}

\* A pair of a map as a text.
LEMMA PairFacts ==
    ASSUME NoSeparators, NEW m \in Maps, NEW p \in m
    PROVE  /\ TextOf(p) \in Seq(RowSymbols) /\ Len(TextOf(p)) \in Nat /\ Len(TextOf(p)) >= 1
           /\ Pair(TextOf(p)) = p
           /\ \A k \in 1..Len(TextOf(p)) : TextOf(p)[k] /= "&"
<1>1. p[1] \in ArgKeys /\ p[2] \in ArgValues /\ p = <<p[1], p[2]>>
  BY DEF Maps
<1> DEFINE key == p[1]
           value == p[2]
<1>2. key \in Seq(RowSymbols) /\ value \in Seq(RowSymbols) /\ "=" \in RowSymbols
  <2>1. ArgSymbols \subseteq RowSymbols /\ "=" \in RowSymbols
    BY DEF RowSymbols
  <2>2. key \in Seq(ArgSymbols) /\ value \in Seq(ArgSymbols)
    BY <1>1, ArgsAssumption DEF ArgsAssumption
  <2> HIDE DEF key, value
  <2> QED BY ONLY <2>1, <2>2
<1>3. ~Has(key, "=") /\ ~Has(key, "&") /\ ~Has(value, "&") /\ "&" /= "="
  BY <1>1 DEF NoSeparators
<1> HIDE DEF key, value
<1>4. LET text == key \o <<"=">> \o value
      IN  /\ text \in Seq(RowSymbols) /\ Len(text) \in Nat /\ Len(text) >= 1
          /\ Pair(text) = <<key, value>>
          /\ \A sep : sep /= "=" /\ ~Has(key, sep) /\ ~Has(value, sep) =>
                 \A k \in 1..Len(text) : text[k] /= sep
  BY ONLY <1>2, <1>3, PairBack
<1>5. TextOf(p) = key \o <<"=">> \o value /\ <<key, value>> = p
  BY <1>1 DEF TextOf, key, value
<1> QED BY ONLY <1>3, <1>4, <1>5

\* The row that get_args writes has its texts one behind the other, a & behind each.
LEMMA RowWritten ==
    ASSUME NoSeparators, NEW m \in Maps, NEW pairs \in SetToSeqs(m)
    PROVE  \E at : RowLayout(RowSymbols, get_args(pairs), Cardinality(m),
                             [k \in 1..Cardinality(m) |-> TextOf(pairs[k])], at)
<1> DEFINE N == Cardinality(m)
           texts == [k \in 1..N |-> TextOf(pairs[k])]
           pieces == [k \in DOMAIN pairs |-> pairs[k][1] \o <<"=">> \o pairs[k][2] \o <<"&">>]
           s == get_args(pairs)
<1>1. N \in Nat /\ pairs \in [1..N -> m]
  BY OrderHasAll DEF Maps
<1>2. s = FlattenSeq(pieces)
  BY DEF get_args
<1>3. ASSUME NEW k \in 1..N
      PROVE  /\ texts[k] \in Seq(RowSymbols) /\ Len(texts[k]) \in Nat /\ Len(texts[k]) >= 1
             /\ \A p \in 1..Len(texts[k]) : texts[k][p] /= "&"
             /\ pieces[k] = texts[k] \o <<"&">>
             /\ pieces[k] \in Seq(RowSymbols) /\ Len(pieces[k]) = Len(texts[k]) + 1
             /\ \A p \in 1..Len(texts[k]) : p \in 1..Len(pieces[k]) /\ pieces[k][p] = texts[k][p]
             /\ Len(texts[k]) + 1 \in 1..Len(pieces[k]) /\ pieces[k][Len(texts[k]) + 1] = "&"
  <2>1. pairs[k] \in m /\ texts[k] = TextOf(pairs[k]) /\ k \in DOMAIN pairs
    BY <1>1
  <2>2. /\ texts[k] \in Seq(RowSymbols) /\ Len(texts[k]) \in Nat /\ Len(texts[k]) >= 1
        /\ \A p \in 1..Len(texts[k]) : texts[k][p] /= "&"
    <3> HIDE DEF texts
    <3> QED BY <2>1, PairFacts
  <2>3. pieces[k] = texts[k] \o <<"&">>
    BY <2>1 DEF TextOf
  <2>4. <<"&">> \in Seq(RowSymbols) /\ Len(<<"&">>) = 1 /\ <<"&">>[1] = "&"
    BY DEF RowSymbols
  <2> DEFINE t == texts[k]
             u == pieces[k]
  <2> HIDE DEF texts, pieces
  <2>5. /\ u \in Seq(RowSymbols) /\ Len(u) = Len(t) + Len(<<"&">>)
        /\ \A p \in 1..Len(t) : u[p] = t[p]
        /\ \A p \in 1..Len(<<"&">>) : u[Len(t) + p] = <<"&">>[p]
    <3> HIDE DEF t
    <3>1. t \in Seq(RowSymbols) /\ u = t \o <<"&">>
      BY <2>2, <2>3 DEF t
    <3> HIDE DEF u
    <3> QED BY ONLY <2>4, <3>1, Joined
  <2>6. 1 \in 1..Len(<<"&">>) /\ Len(u) = Len(t) + 1 /\ Len(t) \in Nat
    BY ONLY <2>2, <2>4, <2>5 DEF t
  <2>7. u[Len(t) + 1] = "&"
    BY ONLY <2>4, <2>5, <2>6
  <2>8. Len(t) + 1 \in 1..Len(u) /\ \A p \in 1..Len(t) : p \in 1..Len(u)
    BY ONLY <2>6
  <2> QED BY ONLY <2>2, <2>3, <2>5, <2>6, <2>7, <2>8 DEF t, u
<1>4. DOMAIN pieces = 1..N /\ pieces = [k \in 1..N |-> pieces[k]]
  BY <1>1
<1>5. texts \in [1..N -> Seq(RowSymbols)]
  BY <1>3
<1> HIDE DEF s, texts, pieces, N
<1>6. pieces \in [1..N -> Seq(RowSymbols)]
  BY ONLY <1>3, <1>4
<1>7. pieces \in Seq(Seq(RowSymbols)) /\ Len(pieces) = N
  BY ONLY <1>1, <1>6
<1>8. s \in Seq(RowSymbols) /\ \E at : Layout(s, pieces, at)
  BY ONLY <1>1, <1>2, <1>6, <1>7, FlattenedLayout
<1>9. PICK at : Layout(s, pieces, at)
  BY <1>8
<1>10. /\ at \in [0..N -> 0..Len(s)] /\ at[0] = 0 /\ at[N] = Len(s)
       /\ \A k \in 1..N : /\ at[k] = at[k - 1] + Len(pieces[k])
                          /\ \A p \in 1..Len(pieces[k]) : s[at[k - 1] + p] = pieces[k][p]
  BY ONLY <1>7, <1>9 DEF Layout
<1>11. ASSUME NEW k \in 1..N
       PROVE  /\ at[k] = at[k - 1] + Len(texts[k]) + 1
              /\ s[at[k]] = "&"
              /\ \A p \in 1..Len(texts[k]) : s[at[k - 1] + p] = texts[k][p] /\ texts[k][p] /= "&"
  <2>1. at[k - 1] \in Nat /\ Len(s) \in Nat
    <3>1. k - 1 \in 0..N
      BY <1>1
    <3> QED BY ONLY <1>8, <1>10, <3>1
  <2> DEFINE a == at[k - 1]
             l == Len(texts[k])
  <2>2. a \in Nat /\ l \in Nat /\ at[k] = a + (l + 1)
    BY ONLY <1>3, <1>10, <2>1, k \in 1..N
  <2>3. at[k] = a + l + 1 /\ a + (l + 1) = at[k]
    <3> HIDE DEF a, l
    <3> QED BY ONLY <2>2
  <2>4. s[a + (l + 1)] = "&"
    BY ONLY <1>3, <1>10, k \in 1..N
  <2>5. \A p \in 1..l : s[a + p] = texts[k][p] /\ texts[k][p] /= "&"
    BY ONLY <1>3, <1>10, k \in 1..N
  <2> QED BY ONLY <2>3, <2>4, <2>5
<1>12. Len(s) \in Nat
  BY ONLY <1>8
<1>13. RowLayout(RowSymbols, s, N, texts, at)
  BY ONLY <1>1, <1>3, <1>5, <1>8, <1>10, <1>11, <1>12 DEF RowLayout
<1> QED BY <1>13 DEF s, N, texts

\* set_args makes of that row the map it was written from, and of its end a pair of empty
\* strings unless the map has that key.
LEMMA RowReadBack ==
    ASSUME NoSeparators, NEW m \in Maps, NEW pairs \in SetToSeqs(m)
    PROVE  LET read == set_args({}, get_args(pairs))
           IN  m \subseteq read /\ read \subseteq m \union {<<<<>>, <<>>>>}
<1> DEFINE N == Cardinality(m)
           texts == [k \in 1..N |-> TextOf(pairs[k])]
           s == get_args(pairs)
           words == Split(s, "&")
           IsNew(n) == \A j \in 1..(n - 1) : Pair(words[j])[1] /= Pair(words[n])[1]
           read == {Pair(words[n]) : n \in {n \in DOMAIN words : IsNew(n)}}
<1>1. /\ N \in Nat /\ pairs \in [1..N -> m]
      /\ \A i, j \in 1..N : pairs[i] = pairs[j] => i = j
      /\ \A p \in m : \E i \in 1..N : pairs[i] = p
  BY OrderHasAll DEF Maps
<1>2. PICK at : RowLayout(RowSymbols, s, N, texts, at)
  BY RowWritten
<1>3. s \in Seq(RowSymbols) /\ Len(s) \in Nat
  BY ONLY <1>2 DEF RowLayout
<1>4. \A k \in 1..N : Pair(texts[k]) = pairs[k] /\ pairs[k] \in m
  BY <1>1, PairFacts
<1>5. \A p, r \in m : p[1] = r[1] => p = r
  BY DEF Maps
<1>6. set_args({}, s) = read
  BY DEF set_args
<1>7. DOMAIN words = 1..Len(words) /\ Len(words) \in Nat
  <2> HIDE DEF s
  <2> QED BY <1>3, SplitFacts
<1> HIDE DEF N, texts, s, words, IsNew
<1>8. ASSUME NEW n \in 1..Len(words)
      PROVE  \E i, e :
               /\ WordAt(s, "&", n, i, e) /\ i \in Nat
               /\ \/ i = Len(s) + 1 /\ words[n] = <<>>
                  \/ \E k \in 1..N : i = at[k - 1] + 1 /\ words[n] = texts[k]
  <2>1. PICK i, e : WordAt(s, "&", n, i, e) /\ i \in Nat
    BY ONLY <1>3, EveryWord, n \in 1..Len(words) DEF words
  <2>2. \/ i = Len(s) + 1 /\ words[n] = <<>>
        \/ \E k \in 1..N : i = at[k - 1] + 1 /\ words[n] = texts[k]
    BY ONLY <1>2, <2>1, WordOfRow DEF words
  <2> QED BY <2>1, <2>2
<1>9. Pair(<<>>) = <<<<>>, <<>>>>
  BY DEF Pair, Has
<1>10. read \subseteq m \union {<<<<>>, <<>>>>}
  <2> SUFFICES ASSUME NEW n \in DOMAIN words
               PROVE  Pair(words[n]) \in m \union {<<<<>>, <<>>>>}
    OBVIOUS
  <2>1. words[n] = <<>> \/ \E k \in 1..N : words[n] = texts[k]
    BY ONLY <1>7, <1>8, n \in DOMAIN words
  <2> QED BY ONLY <1>4, <1>9, <2>1
<1>11. ASSUME NEW p \in m PROVE p \in read
  <2>1. PICK k \in 1..N : pairs[k] = p
    BY ONLY <1>1, p \in m
  <2>2. PICK n, e : WordAt(s, "&", n, at[k - 1] + 1, e) /\ words[n] = texts[k]
    BY ONLY <1>2, k \in 1..N, TextIsWord DEF words
  <2>3. n \in 1..Len(words) /\ at[k - 1] + 1 \in 1..(Len(s) + 1)
    BY ONLY <2>2 DEF WordAt, words
  <2>4. ASSUME NEW j \in 1..(n - 1) PROVE Pair(words[j])[1] /= p[1]
    <3>1. j \in 1..Len(words) /\ j < n
      BY ONLY <1>7, <2>3, j \in 1..(n - 1)
    <3>2. PICK i, f :
               /\ WordAt(s, "&", j, i, f) /\ i \in Nat
               /\ \/ i = Len(s) + 1 /\ words[j] = <<>>
                  \/ \E h \in 1..N : i = at[h - 1] + 1 /\ words[j] = texts[h]
      BY ONLY <1>8, <3>1
    <3>3. j < n <=> i < at[k - 1] + 1
      <4>1. \A x, y, from, to, g, h : WordAt(s, "&", x, from, g) /\ WordAt(s, "&", y, to, h) =>
                                      (x < y <=> from < to)
        BY ONLY <1>3, WordsInOrder
      <4> QED BY ONLY <2>2, <3>2, <4>1
    <3>4. i /= Len(s) + 1
      <4> DEFINE a == at[k - 1] + 1
      <4>1. i < a /\ a \in 1..(Len(s) + 1)
        BY <2>3, <3>1, <3>3
      <4> HIDE DEF a
      <4> QED BY ONLY <1>3, <3>2, <4>1
    <3>5. PICK h \in 1..N : i = at[h - 1] + 1 /\ words[j] = texts[h]
      BY ONLY <3>2, <3>4
    <3>6. h /= k
      <4> SUFFICES ASSUME h = k PROVE FALSE
        OBVIOUS
      <4>1. i = at[k - 1] + 1 /\ i < at[k - 1] + 1
        BY ONLY <3>1, <3>3, <3>5, h = k
      <4> QED BY ONLY <3>2, <4>1
    <3>7. pairs[h] /= p /\ pairs[h] \in m /\ Pair(words[j]) = pairs[h]
      BY ONLY <1>1, <1>4, <2>1, <3>5, <3>6, k \in 1..N, h \in 1..N
    <3> QED BY ONLY <1>5, <3>7, p \in m
  <2>5. Pair(words[n]) = p
    BY ONLY <1>4, <2>1, <2>2, k \in 1..N
  <2>6. n \in DOMAIN words /\ IsNew(n)
    BY ONLY <1>7, <2>3, <2>4, <2>5 DEF IsNew
  <2> QED BY ONLY <2>5, <2>6
<1>12. m \subseteq read
  BY ONLY <1>11
<1> QED BY ONLY <1>6, <1>10, <1>12 DEF s

\* Of a map of any size, with any texts that keep to the separators, nothing is lost and
\* nothing is added but a pair of empty strings, through any number of restarts
\* (exchange.hpp:47-69, queue.hpp:40-55).
THEOREM ArgsSurvive ==
    ASSUME NoSeparators
    PROVE  ArgsSpec => []PairsSurvive
<1> DEFINE Inv == /\ declared \in Maps
                  /\ \E pairs \in SetToSeqs(declared) : row = get_args(pairs)
                  /\ args = declared \/ args = set_args({}, row)
<1>1. ArgsInit => Inv
  BY DEF ArgsInit
<1>2. Inv /\ [RestartArgs]_argsVars => Inv'
  BY DEF RestartArgs, argsVars
<1>3. Inv => PairsSurvive
  <2> SUFFICES ASSUME Inv PROVE PairsSurvive
    OBVIOUS
  <2>1. CASE args = declared
    BY <2>1 DEF PairsSurvive
  <2>2. CASE args = set_args({}, row)
    <3>1. PICK pairs \in SetToSeqs(declared) : row = get_args(pairs)
      OBVIOUS
    <3>2. declared \subseteq args /\ args \subseteq declared \union {<<<<>>, <<>>>>}
      BY <2>2, <3>1, RowReadBack
    <3> QED BY <3>2 DEF PairsSurvive
  <2> QED BY <2>1, <2>2
<1> QED BY <1>1, <1>2, <1>3, PTL DEF ArgsSpec
=============================================================================
