---------------------------- MODULE SessionProofs ----------------------------
(* Proofs about what goes over a connection, for texts of every length: what the       *)
(* generated classes write they read back, and so whatever a user or a program asks    *)
(* for arrives.                                                                        *)
EXTENDS Session, ConversionProofs

-----------------------------------------------------------------------------
(* Where texts stand *)

\* t stands in stream behind the first at.
Stands(t, stream, at) ==
    /\ t \in Seq(Nat) /\ stream \in Seq(Nat) /\ at \in Nat /\ at + Len(t) <= Len(stream)
    /\ \A p \in 1..Len(t) : stream[at + p] = t[p]

\* So do the parts of a text.
LEMMA StandsParts ==
    ASSUME NEW a \in Seq(Nat), NEW b \in Seq(Nat), NEW stream, NEW at, Stands(a \o b, stream, at)
    PROVE  Stands(a, stream, at) /\ Stands(b, stream, at + Len(a))
<1>1. /\ a \o b \in Seq(Nat) /\ Len(a) \in Nat /\ Len(b) \in Nat /\ Len(a \o b) = Len(a) + Len(b)
      /\ \A p \in 1..Len(a) : (a \o b)[p] = a[p]
      /\ \A p \in 1..Len(b) : (a \o b)[Len(a) + p] = b[p]
  BY Joined
<1> DEFINE x == Len(a)
           y == Len(b)
           c == a \o b
<1>2. /\ x \in Nat /\ y \in Nat /\ at \in Nat /\ Len(stream) \in Nat /\ at + (x + y) <= Len(stream)
      /\ \A p \in 1..(x + y) : stream[at + p] = c[p]
  <2>1. x \in Nat /\ y \in Nat /\ Len(c) = x + y
    BY <1>1
  <2>2. at \in Nat /\ Len(stream) \in Nat /\ at + Len(c) <= Len(stream) /\ \A p \in 1..Len(c) : stream[at + p] = c[p]
    <3>1. stream \in Seq(Nat) /\ at \in Nat /\ at + Len(c) <= Len(stream) /\ \A p \in 1..Len(c) : stream[at + p] = c[p]
      BY Zenon DEF Stands
    <3> HIDE DEF c
    <3> QED BY <3>1
  <2> HIDE DEF x, y, c
  <2> QED BY ONLY <2>1, <2>2
<1>3. stream \in Seq(Nat)
  BY DEF Stands
<1>4. \A p \in 1..x : c[p] = a[p]
  BY <1>1
<1>5. \A p \in 1..y : c[x + p] = b[p]
  BY <1>1
<1> HIDE DEF x, y, c
<1>6. at + x <= Len(stream) /\ at + x + y <= Len(stream) /\ at + x \in Nat
  BY <1>2
<1>7. ASSUME NEW p \in 1..x PROVE stream[at + p] = a[p]
  <2>1. p \in 1..(x + y)
    BY <1>2
  <2> QED BY <2>1, <1>2, <1>4
<1>8. ASSUME NEW p \in 1..y PROVE stream[(at + x) + p] = b[p]
  <2>1. x + p \in 1..(x + y) /\ at + (x + p) = (at + x) + p
    BY <1>2
  <2> QED BY <2>1, <1>2, <1>5
<1> QED BY <1>3, <1>2, <1>6, <1>7, <1>8 DEF Stands, x, y

\* A text that stands there is what is cut out there.
LEMMA CutOut ==
    ASSUME NEW t, NEW stream, NEW at, Stands(t, stream, at)
    PROVE  SubSeq(stream, at + 1, at + Len(t)) = t
<1> DEFINE n == Len(t)
           s == SubSeq(stream, at + 1, at + n)
<1>1. /\ t \in Seq(Nat) /\ stream \in Seq(Nat) /\ at \in Nat /\ n \in Nat /\ Len(stream) \in Nat /\ at + n <= Len(stream)
      /\ \A p \in 1..n : stream[at + p] = t[p]
  BY DEF Stands
<1>2. s \in Seq(Nat) /\ Len(s) = n /\ \A p \in 1..n : s[p] = stream[at + p]
  <2> HIDE DEF n
  <2>1. at + 1 \in 1..(Len(stream) + 1) /\ at + n \in (at + 1) - 1..Len(stream) /\ at + n \in Int
    BY <1>1
  <2>2. /\ s \in Seq(Nat) /\ Len(s) = IF at + 1 <= at + n THEN (at + n) - (at + 1) + 1 ELSE 0
        /\ \A i \in 1..((at + n) - (at + 1) + 1) : s[i] = stream[(at + 1) + i - 1]
    BY <1>1, <2>1, SubSeqProperties
  <2>3. (at + n) - (at + 1) + 1 = n /\ (IF at + 1 <= at + n THEN (at + n) - (at + 1) + 1 ELSE 0) = n
    BY <1>1
  <2>4. \A p \in 1..n : (at + 1) + p - 1 = at + p
    BY <1>1
  <2> HIDE DEF s
  <2> QED BY ONLY <2>2, <2>3, <2>4
<1> HIDE DEF s
<1>3. \A p \in 1..n : s[p] = t[p]
  BY <1>1, <1>2
<1> QED BY <1>1, <1>2, <1>3, SeqEqual DEF s

-----------------------------------------------------------------------------
(* Numbers *)

\* A number is one byte, or two, three or four.
LEMMA VarintCases ==
    ASSUME NEW n \in Nat
    PROVE  \/ n < 128 /\ Varint(n) = <<n>>
           \/ 128 <= n /\ n < Two14 /\ Varint(n) = <<Low(n), n \div 128>>
           \/ Two14 <= n /\ n < Two21 /\ Varint(n) = <<Low(n), Low(n \div 128), n \div Two14>>
           \/ n >= Two21 /\ Varint(n) = <<Low(n), Low(n \div 128), Low(n \div Two14), n \div Two21>>
<1>1. CASE n < 128
  <2>1. ~(128 <= n /\ n < Two14) /\ ~(Two14 <= n /\ n < Two21) /\ ~(n >= Two21)
    BY <1>1, SMT DEF Two14, Two21
  <2> QED BY <1>1, <2>1, Zenon DEF Varint
<1>2. CASE 128 <= n /\ n < Two14
  <2>1. ~(n < 128) /\ ~(Two14 <= n /\ n < Two21) /\ ~(n >= Two21)
    BY <1>2, SMT DEF Two14, Two21
  <2> QED BY <1>2, <2>1, Zenon DEF Varint
<1>3. CASE Two14 <= n /\ n < Two21
  <2>1. ~(n < 128) /\ ~(128 <= n /\ n < Two14) /\ ~(n >= Two21)
    BY <1>3, SMT DEF Two14, Two21
  <2> QED BY <1>3, <2>1, Zenon DEF Varint
<1>4. CASE n >= Two21
  <2>1. ~(n < 128) /\ ~(128 <= n /\ n < Two14) /\ ~(Two14 <= n /\ n < Two21)
    BY <1>4, SMT DEF Two14, Two21
  <2> QED BY <1>4, <2>1, Zenon DEF Varint
<1>5. n < 128 \/ (128 <= n /\ n < Two14) \/ (Two14 <= n /\ n < Two21) \/ n >= Two21
  BY SMT DEF Two14, Two21
<1> QED BY <1>1, <1>2, <1>3, <1>4, <1>5, SMT DEF Two14, Two21

\* A varint is one to four bytes.
LEMMA VarintType ==
    ASSUME NEW n \in Nat
    PROVE  Varint(n) \in Seq(Nat) /\ Len(Varint(n)) \in 1..4
<1>1. CASE n < 128 /\ Varint(n) = <<n>>
  BY <1>1, SMT DEF Two14, Two21
<1>2. CASE 128 <= n /\ n < Two14 /\ Varint(n) = <<Low(n), n \div 128>>
  BY <1>2, SMT DEF Low, Two14, Two21
<1>3. CASE Two14 <= n /\ n < Two21 /\ Varint(n) = <<Low(n), Low(n \div 128), n \div Two14>>
  BY <1>3, SMT DEF Low, Two14, Two21
<1>4. CASE n >= Two21 /\ Varint(n) = <<Low(n), Low(n \div 128), Low(n \div Two14), n \div Two21>>
  BY <1>4, SMT DEF Low, Two14, Two21
<1> QED BY <1>1, <1>2, <1>3, <1>4, VarintCases, SMT DEF Two14, Two21

\* What ReadVarint makes of the first length bytes, and that it goes on to one below 128.
Part(stream, at, length, k, weight) == IF k <= length THEN (stream[at + k] % 128) * weight ELSE 0

\* It reads as far as the first byte below 128.
LEMMA VarintEnds ==
    ASSUME NEW stream \in Seq(Nat), NEW at \in Nat, NEW length \in 1..4, at + length <= Len(stream),
           stream[at + length] < 128, \A k \in 1..(length - 1) : ~(stream[at + k] < 128)
    PROVE  ReadVarint(stream, at) =
             [value |-> Part(stream, at, length, 1, 1) + Part(stream, at, length, 2, 128)
                        + Part(stream, at, length, 3, Two14) + Part(stream, at, length, 4, Two21),
              length |-> length]
<1> DEFINE ends == {k \in 1..4 : at + k <= Len(stream) /\ stream[at + k] < 128}
<1>1. length \in ends /\ \A k \in ends : length <= k
  <2>1. length \in ends
    OBVIOUS
  <2>2. ASSUME NEW k \in ends, ~(length <= k) PROVE FALSE
    <3>1. k \in 1..4 /\ stream[at + k] < 128
      OBVIOUS
    <3>2. k \in 1..(length - 1)
      BY <2>2, <3>1
    <3> QED BY <3>1, <3>2
  <2> QED BY <2>1, <2>2
<1>2. ends \subseteq 1..4
  BY SMT
<1> HIDE DEF ends
<1>3. ends /= {} /\ Min(ends) = length
  <2>1. \A x \in ends : (\A y \in ends : x <= y) => x = length
    BY <1>1, <1>2, SMT
  <2> DEFINE min == CHOOSE x \in ends : \A y \in ends : x <= y
  <2>2. min \in ends /\ \A y \in ends : min <= y
    BY <1>1, Zenon
  <2>3. Min(ends) = min
    BY Zenon DEF Min
  <2> HIDE DEF min
  <2> QED BY <1>1, <2>1, <2>2, <2>3, Zenon
<1>4. (IF ends = {} THEN 0 ELSE Min(ends)) = length
  BY <1>3, SMT DEF Two14, Two21
<1> DEFINE end == IF ends = {} THEN 0 ELSE Min(ends)
<1>5. ReadVarint(stream, at) =
        [value |-> Part(stream, at, end, 1, 1) + Part(stream, at, end, 2, 128)
                   + Part(stream, at, end, 3, Two14) + Part(stream, at, end, 4, Two21),
         length |-> end]
  BY Zenon DEF ReadVarint, Part, ends
<1>6. end = length
  BY <1>4
<1> HIDE DEF end
<1> QED BY <1>5, <1>6, Zenon

\* A number is read back.
LEMMA VarintBack ==
    ASSUME NEW n \in Nat, n < Two28, NEW stream, NEW at, Stands(Varint(n), stream, at)
    PROVE  ReadVarint(stream, at) = [value |-> n, length |-> Len(Varint(n))]
<1>1. /\ stream \in Seq(Nat) /\ at \in Nat /\ Len(stream) \in Nat /\ at + Len(Varint(n)) <= Len(stream)
      /\ \A p \in 1..Len(Varint(n)) : stream[at + p] = Varint(n)[p]
  BY SMT DEF Stands
<1>2. ASSUME n < 128 /\ Varint(n) = <<n>> PROVE ReadVarint(stream, at) = [value |-> n, length |-> 1]
  <2>1. at + 1 <= Len(stream) /\ stream[at + 1] = n
    BY <1>1, <1>2, SMT DEF Two14, Two21
  <2>2. /\ Part(stream, at, 1, 1, 1) = n /\ Part(stream, at, 1, 2, 128) = 0
        /\ Part(stream, at, 1, 3, Two14) = 0 /\ Part(stream, at, 1, 4, Two21) = 0
    BY <2>1, <1>2, SMT DEF Part, Two14, Two21
  <2> QED BY <1>1, <1>2, <2>1, <2>2, VarintEnds
<1>3. ASSUME 128 <= n /\ n < Two14 /\ Varint(n) = <<Low(n), n \div 128>>
      PROVE  ReadVarint(stream, at) = [value |-> n, length |-> 2]
  <2>1. at + 2 <= Len(stream) /\ stream[at + 1] = Low(n) /\ stream[at + 2] = n \div 128
    BY <1>1, <1>3, SMT DEF Two14, Two21
  <2>2. /\ Part(stream, at, 2, 1, 1) = n % 128 /\ Part(stream, at, 2, 2, 128) = (n \div 128) * 128
        /\ Part(stream, at, 2, 3, Two14) = 0 /\ Part(stream, at, 2, 4, Two21) = 0
    BY <2>1, <1>3, SMT DEF Part, Low, Two14, Two21
  <2>3. stream[at + 2] < 128 /\ \A k \in 1..(2 - 1) : ~(stream[at + k] < 128)
    BY <2>1, <1>3, SMT DEF Low, Two14, Two21
  <2>4. (n % 128) + (n \div 128) * 128 = n
    BY <1>3, SMT DEF Two14, Two21
  <2> DEFINE L == 2
  <2>5. L \in 1..4 /\ at + L <= Len(stream) /\ stream[at + L] < 128 /\ \A k \in 1..(L - 1) : ~(stream[at + k] < 128)
    BY <2>1, <2>3
  <2> HIDE DEF L
  <2>6. ReadVarint(stream, at) =
          [value |-> Part(stream, at, L, 1, 1) + Part(stream, at, L, 2, 128)
                     + Part(stream, at, L, 3, Two14) + Part(stream, at, L, 4, Two21), length |-> L]
    BY ONLY <1>1, <2>5, VarintEnds
  <2> QED BY <2>2, <2>4, <2>6 DEF L
<1>4. ASSUME Two14 <= n /\ n < Two21 /\ Varint(n) = <<Low(n), Low(n \div 128), n \div Two14>>
      PROVE  ReadVarint(stream, at) = [value |-> n, length |-> 3]
  <2>1. /\ at + 3 <= Len(stream) /\ stream[at + 1] = Low(n) /\ stream[at + 2] = Low(n \div 128)
        /\ stream[at + 3] = n \div Two14
    BY <1>1, <1>4, SMT
  <2>2. /\ Part(stream, at, 3, 1, 1) = n % 128 /\ Part(stream, at, 3, 2, 128) = ((n \div 128) % 128) * 128
        /\ Part(stream, at, 3, 3, Two14) = (n \div Two14) * Two14 /\ Part(stream, at, 3, 4, Two21) = 0
    BY <2>1, <1>4, SMT DEF Part, Low, Two14, Two21
  <2>3. stream[at + 3] < 128 /\ \A k \in 1..(3 - 1) : ~(stream[at + k] < 128)
    BY <2>1, <1>4, SMT DEF Low, Two14, Two21
  <2>4. (n % 128) + ((n \div 128) % 128) * 128 + (n \div Two14) * Two14 = n
    BY <1>4, SMT DEF Two14, Two21
  <2> DEFINE L == 3
  <2>5. L \in 1..4 /\ at + L <= Len(stream) /\ stream[at + L] < 128 /\ \A k \in 1..(L - 1) : ~(stream[at + k] < 128)
    BY <2>1, <2>3
  <2> HIDE DEF L
  <2>6. ReadVarint(stream, at) =
          [value |-> Part(stream, at, L, 1, 1) + Part(stream, at, L, 2, 128)
                     + Part(stream, at, L, 3, Two14) + Part(stream, at, L, 4, Two21), length |-> L]
    BY ONLY <1>1, <2>5, VarintEnds
  <2> QED BY <2>2, <2>4, <2>6 DEF L
<1>5. ASSUME n >= Two21 /\ Varint(n) = <<Low(n), Low(n \div 128), Low(n \div Two14), n \div Two21>>
      PROVE  ReadVarint(stream, at) = [value |-> n, length |-> 4]
  <2>1. /\ at + 4 <= Len(stream) /\ stream[at + 1] = Low(n) /\ stream[at + 2] = Low(n \div 128)
        /\ stream[at + 3] = Low(n \div Two14) /\ stream[at + 4] = n \div Two21
    <3> DEFINE code == <<Low(n), Low(n \div 128), Low(n \div Two14), n \div Two21>>
    <3>1. /\ code[1] = Low(n) /\ code[2] = Low(n \div 128) /\ code[3] = Low(n \div Two14) /\ code[4] = n \div Two21
          /\ Len(code) = 4
      OBVIOUS
    <3> HIDE DEF code
    <3>2. at + 4 <= Len(stream) /\ \A p \in 1..4 : stream[at + p] = code[p]
      BY <1>1, <1>5, <3>1 DEF code
    <3>3. 1 \in 1..4 /\ 2 \in 1..4 /\ 3 \in 1..4 /\ 4 \in 1..4
      OBVIOUS
    <3> QED BY ONLY <3>1, <3>2, <3>3
  <2>2. /\ Part(stream, at, 4, 1, 1) = n % 128 /\ Part(stream, at, 4, 2, 128) = ((n \div 128) % 128) * 128
        /\ Part(stream, at, 4, 3, Two14) = ((n \div Two14) % 128) * Two14
        /\ Part(stream, at, 4, 4, Two21) = (n \div Two21) * Two21
    BY <2>1, <1>5, SMT DEF Part, Low, Two28, Two14, Two21
  <2>3. stream[at + 4] < 128 /\ \A k \in 1..(4 - 1) : ~(stream[at + k] < 128)
    BY <2>1, <1>5, SMT DEF Low, Two28, Two14, Two21
  <2>4. (n % 128) + ((n \div 128) % 128) * 128 + ((n \div Two14) % 128) * Two14 + (n \div Two21) * Two21 = n
    BY <1>5, SMT DEF Two14, Two21
  <2> DEFINE L == 4
  <2>5. L \in 1..4 /\ at + L <= Len(stream) /\ stream[at + L] < 128 /\ \A k \in 1..(L - 1) : ~(stream[at + k] < 128)
    BY <2>1, <2>3
  <2> HIDE DEF L
  <2>6. ReadVarint(stream, at) =
          [value |-> Part(stream, at, L, 1, 1) + Part(stream, at, L, 2, 128)
                     + Part(stream, at, L, 3, Two14) + Part(stream, at, L, 4, Two21), length |-> L]
    BY ONLY <1>1, <2>5, VarintEnds
  <2> QED BY <2>2, <2>4, <2>6 DEF L
<1>6. /\ Varint(n) = <<n>> => Len(Varint(n)) = 1
      /\ Varint(n) = <<Low(n), n \div 128>> => Len(Varint(n)) = 2
      /\ Varint(n) = <<Low(n), Low(n \div 128), n \div Two14>> => Len(Varint(n)) = 3
      /\ Varint(n) = <<Low(n), Low(n \div 128), Low(n \div Two14), n \div Two21>> => Len(Varint(n)) = 4
  OBVIOUS
<1> QED BY <1>2, <1>3, <1>4, <1>5, <1>6, VarintCases, Zenon

-----------------------------------------------------------------------------
(* Items *)

\* An item whose tag says that a length and so many bytes follow.
LEMMA TextItemIs ==
    ASSUME NEW stream, NEW tag, NEW n, NEW at, tag.length /= 0, ~(tag.value < 8), tag.value % 8 = 2,
           n.length /= 0, ~(at + (n.length + n.value) > Len(stream))
    PROVE  Item(stream, tag, n, at) =
             [ok |-> TRUE, tag |-> tag.value, value |-> n.value,
              content |-> SubSeq(stream, at + n.length + 1, at + (n.length + n.value)), end |-> at + (n.length + n.value)]
<1> DEFINE type == tag.value % 8
<1>1. type = 2 /\ type /= 0 /\ type /= 1 /\ type /= 5
  OBVIOUS
<1> HIDE DEF type
<1>2. (CASE type = 0 -> n.length [] type = 1 -> 8 [] type = 2 -> n.length + n.value [] type = 5 -> 4) = n.length + n.value
  BY <1>1, Zenon
<1>3. type \in {0, 1, 2, 5}
  BY <1>1, Zenon
<1> QED BY <1>1, <1>2, <1>3, Zenon DEF Item, type

\* An item whose tag says that a number follows.
LEMMA NumberItemIs ==
    ASSUME NEW stream, NEW tag, NEW n, NEW at, tag.length /= 0, ~(tag.value < 8), tag.value % 8 = 0,
           n.length /= 0, ~(at + n.length > Len(stream))
    PROVE  Item(stream, tag, n, at) =
             [ok |-> TRUE, tag |-> tag.value, value |-> n.value,
              content |-> SubSeq(stream, at + n.length + 1, at + n.length), end |-> at + n.length]
<1> DEFINE type == tag.value % 8
<1>1. type = 0 /\ type /= 2 /\ type /= 1 /\ type /= 5
  OBVIOUS
<1> HIDE DEF type
<1>2. (CASE type = 0 -> n.length [] type = 1 -> 8 [] type = 2 -> n.length + n.value [] type = 5 -> 4) = n.length
  BY <1>1, Zenon
<1>3. type \in {0, 1, 2, 5}
  BY <1>1, Zenon
<1> QED BY <1>1, <1>2, <1>3, Zenon DEF Item, type

\* A tag and what stands behind it.
LEMMA TagBack ==
    ASSUME NEW tag \in 8..127, NEW t \in Seq(Nat), NEW stream, NEW at, Stands(<<tag>> \o t, stream, at)
    PROVE  /\ ReadVarint(stream, at) = [value |-> tag, length |-> 1]
           /\ Stands(t, stream, at + 1) /\ at \in Nat /\ Len(stream) \in Nat /\ Len(<<tag>> \o t) = 1 + Len(t)
<1>1. <<tag>> \in Seq(Nat) /\ Len(<<tag>>) = 1
  OBVIOUS
<1>2. Stands(<<tag>>, stream, at) /\ Stands(t, stream, at + Len(<<tag>>))
  BY ONLY <1>1, StandsParts, Stands(<<tag>> \o t, stream, at), t \in Seq(Nat)
<1>3. Varint(tag) = <<tag>> /\ tag \in Nat /\ tag < Two28
  BY VarintCases, SMT DEF Two14, Two21, Two28
<1>4. ReadVarint(stream, at) = [value |-> tag, length |-> Len(<<tag>>)]
  BY ONLY <1>2, <1>3, VarintBack
<1>5. at \in Nat /\ Len(stream) \in Nat
  BY DEF Stands
<1>6. Len(<<tag>> \o t) = Len(<<tag>>) + Len(t)
  BY ONLY <1>1, Joined, t \in Seq(Nat)
<1> QED BY ONLY <1>1, <1>2, <1>4, <1>5, <1>6

\* A text with its length is read back.
LEMMA TextBack ==
    ASSUME NEW tag \in 8..127, tag % 8 = 2, NEW t \in Seq(Nat), Len(t) < Two28,
           NEW stream, NEW at, Stands(<<tag>> \o (Varint(Len(t)) \o t), stream, at)
    PROVE  ItemAt(stream, at) =
             [ok |-> TRUE, tag |-> tag, value |-> Len(t), content |-> t,
              end |-> at + Len(<<tag>> \o (Varint(Len(t)) \o t))]
<1> DEFINE v == Varint(Len(t))
           x == Len(v)
           y == Len(t)
<1>1. v \in Seq(Nat) /\ x \in 1..4 /\ y \in Nat
  BY VarintType
<1>2. /\ v \o t \in Seq(Nat) /\ Len(v \o t) = x + y
  BY <1>1, Joined
<1>3. /\ ReadVarint(stream, at) = [value |-> tag, length |-> 1]
      /\ Stands(v \o t, stream, at + 1) /\ at \in Nat /\ Len(stream) \in Nat
      /\ Len(<<tag>> \o (v \o t)) = 1 + (x + y)
  <2> DEFINE u == v \o t
  <2>1. Stands(<<tag>> \o u, stream, at) /\ u \in Seq(Nat) /\ Len(u) = x + y
    BY <1>2
  <2> HIDE DEF u
  <2>2. /\ ReadVarint(stream, at) = [value |-> tag, length |-> 1]
        /\ Stands(u, stream, at + 1) /\ at \in Nat /\ Len(stream) \in Nat
        /\ Len(<<tag>> \o u) = 1 + Len(u)
    BY ONLY <2>1, TagBack, tag \in 8..127
  <2> QED BY <2>1, <2>2 DEF u
<1>4. Stands(v, stream, at + 1) /\ Stands(t, stream, (at + 1) + x)
  <2> HIDE DEF v
  <2> QED BY <1>1, <1>3, StandsParts
<1>5. ReadVarint(stream, at + 1) = [value |-> y, length |-> x]
  BY <1>1, <1>4, VarintBack
<1>6. SubSeq(stream, ((at + 1) + x) + 1, ((at + 1) + x) + y) = t
  BY <1>4, CutOut
<1>7. ((at + 1) + x) + y <= Len(stream)
  BY <1>4 DEF Stands
<1> HIDE DEF v, x, y
<1> DEFINE r == [value |-> tag, length |-> 1]
           n == [value |-> y, length |-> x]
<1>8. ItemAt(stream, at) = Item(stream, r, n, at + 1)
  <2>1. ItemAt(stream, at) = TaggedItem(stream, r, at)
    BY <1>3, Zenon DEF ItemAt
  <2>2. r.length = 1
    OBVIOUS
  <2> HIDE DEF r
  <2> QED BY <1>5, <2>1, <2>2, Zenon DEF TaggedItem, AfterTag
<1>9. r.length = 1 /\ r.value = tag /\ n.length = x /\ n.value = y
  OBVIOUS
<1> HIDE DEF r, n
<1>10. Item(stream, r, n, at + 1) =
         [ok |-> TRUE, tag |-> r.value, value |-> n.value,
          content |-> SubSeq(stream, (at + 1) + n.length + 1, (at + 1) + (n.length + n.value)),
           end |-> (at + 1) + (n.length + n.value)]
  <2>1. r.length /= 0 /\ ~(r.value < 8) /\ r.value % 8 = 2 /\ n.length /= 0
      /\ ~((at + 1) + (n.length + n.value) > Len(stream))
    BY <1>1, <1>3, <1>7, <1>9
  <2> QED BY <2>1, TextItemIs
<1>11. (at + 1) + (x + y) = ((at + 1) + x) + y /\ at + (1 + (x + y)) = ((at + 1) + x) + y
  BY <1>1, <1>3
<1>12. Len(<<tag>> \o (Varint(Len(t)) \o t)) = 1 + (x + y) /\ y = Len(t)
  BY <1>3 DEF v, y
<1> QED BY ONLY <1>6, <1>8, <1>9, <1>10, <1>11, <1>12

\* So is a number.
NumberAt(item, tag, n, end) == item.ok = TRUE /\ item.tag = tag /\ item.value = n /\ item.end = end

\* It is the item read where it stands.
LEMMA NumberBack ==
    ASSUME NEW tag \in 8..127, tag % 8 = 0, NEW n, n \in Nat, n < Two28,
           NEW stream, NEW at, Stands(<<tag>> \o Varint(n), stream, at)
    PROVE  NumberAt(ItemAt(stream, at), tag, n, at + Len(<<tag>> \o Varint(n)))
<1> DEFINE v == Varint(n)
           x == Len(v)
<1>1. v \in Seq(Nat) /\ x \in 1..4
  BY VarintType
<1>2. /\ ReadVarint(stream, at) = [value |-> tag, length |-> 1]
      /\ Stands(v, stream, at + 1) /\ at \in Nat /\ Len(stream) \in Nat
      /\ Len(<<tag>> \o v) = 1 + x
  <2>1. Stands(<<tag>> \o v, stream, at)
    OBVIOUS
  <2> HIDE DEF v
  <2> QED BY ONLY <2>1, <1>1, TagBack, tag \in 8..127
<1>3. ReadVarint(stream, at + 1) = [value |-> n, length |-> x]
  BY <1>2, VarintBack
<1>4. (at + 1) + x <= Len(stream)
  BY <1>2 DEF Stands
<1> HIDE DEF v, x
<1> DEFINE r == [value |-> tag, length |-> 1]
           m == [value |-> n, length |-> x]
<1>5. ItemAt(stream, at) = Item(stream, r, m, at + 1)
  <2>1. ItemAt(stream, at) = TaggedItem(stream, r, at)
    BY <1>2, Zenon DEF ItemAt
  <2>2. r.length = 1
    OBVIOUS
  <2> HIDE DEF r
  <2> QED BY <1>3, <2>1, <2>2, Zenon DEF TaggedItem, AfterTag
<1>6. r.length = 1 /\ r.value = tag /\ m.length = x /\ m.value = n
  OBVIOUS
<1> HIDE DEF r, m
<1>7. Item(stream, r, m, at + 1) =
         [ok |-> TRUE, tag |-> r.value, value |-> m.value,
          content |-> SubSeq(stream, (at + 1) + m.length + 1, (at + 1) + m.length), end |-> (at + 1) + m.length]
  <2>1. r.length /= 0 /\ ~(r.value < 8) /\ r.value % 8 = 0 /\ m.length /= 0 /\ ~((at + 1) + m.length > Len(stream))
    BY <1>1, <1>2, <1>4, <1>6
  <2> QED BY <2>1, NumberItemIs
<1>8. (at + 1) + x = at + (1 + x)
  BY <1>1, <1>2
<1>9. Len(<<tag>> \o Varint(n)) = 1 + x
  BY <1>2 DEF v
<1> QED BY ONLY <1>5, <1>6, <1>7, <1>8, <1>9 DEF NumberAt

-----------------------------------------------------------------------------
(* Fields *)

\* A text, a flag or a number as it is written.
LEMMA ScalarIs ==
    ASSUME NEW f, NEW v
    PROVE  /\ f.kind = "string" => Scalar(f, v) = <<8 * f.number + 2>> \o (Varint(Len(v)) \o v)
           /\ f.kind = "bool" => Scalar(f, v) = <<8 * f.number + 0>> \o <<1>>
           /\ f.kind = "number" => Scalar(f, v) = <<8 * f.number + 0>> \o Varint(v)
<1>1. ASSUME f.kind = "string" PROVE Scalar(f, v) = <<8 * f.number + 2>> \o (Varint(Len(v)) \o v)
  <2>1. WireType(f.kind) = 2
    BY <1>1 DEF WireType
  <2> QED BY <1>1, <2>1, Zenon DEF Scalar, Tag, Sized
<1>2. ASSUME f.kind = "bool" PROVE Scalar(f, v) = <<8 * f.number + 0>> \o <<1>>
  <2>1. WireType(f.kind) = 0
    BY <1>2 DEF WireType
  <2> QED BY <1>2, <2>1, Zenon DEF Scalar, Tag
<1>3. ASSUME f.kind = "number" PROVE Scalar(f, v) = <<8 * f.number + 0>> \o Varint(v)
  <2>1. WireType(f.kind) = 0
    BY <1>3 DEF WireType
  <2> QED BY <1>3, <2>1, Zenon DEF Scalar, Tag
<1> QED BY <1>1, <1>2, <1>3

\* What a field that is not set holds.
LEMMA UnsetIs ==
    ASSUME NEW f
    PROVE  /\ f.kind \in {"string", "message"} => Unset(f) = <<>>
           /\ f.kind = "bool" => Unset(f) = FALSE
           /\ f.kind = "number" => Unset(f) = 0
           /\ f.kind = "map" => Unset(f) = {}
<1>1. f.kind = "string" => Unset(f) = <<>>
  BY Zenon DEF Unset
<1>2. f.kind = "message" => Unset(f) = <<>>
  BY Zenon DEF Unset
<1>3. f.kind = "bool" => Unset(f) = FALSE
  BY Zenon DEF Unset
<1>4. f.kind = "number" => Unset(f) = 0
  BY Zenon DEF Unset
<1>5. f.kind = "map" => Unset(f) = {}
  BY Zenon DEF Unset
<1> QED BY <1>1, <1>2, <1>3, <1>4, <1>5

\* The fields of a class: no two with one number or one name, all with tags of one byte.
Numbered(fields) ==
    /\ Len(fields) \in Nat /\ DOMAIN fields = 1..Len(fields)
    /\ \A i \in 1..Len(fields) : fields[i].number \in 1..15
    /\ \A i, j \in 1..Len(fields) :
         i /= j => fields[i].number /= fields[j].number /\ fields[i].name /= fields[j].name

\* The tag of a field.
LEMMA TagIs ==
    ASSUME NEW f, f.number \in 1..15
    PROVE  /\ WireType(f.kind) \in {0, 2} /\ 8 * f.number + WireType(f.kind) \in 8..127
           /\ (8 * f.number + WireType(f.kind)) % 8 = WireType(f.kind)
<1>1. WireType(f.kind) \in {0, 2}
  BY DEF WireType
<1> DEFINE w == WireType(f.kind)
           x == f.number
<1>2. w \in {0, 2} /\ x \in 1..15
  BY <1>1
<1> HIDE DEF w, x
<1>3. 8 * x + w \in 8..127 /\ (8 * x + w) % 8 = w
  BY <1>2
<1> QED BY <1>2, <1>3 DEF w, x

\* A tag is known to one field.
LEMMA KnownIs ==
    ASSUME NEW fields, Numbered(fields), NEW i \in 1..Len(fields), NEW item,
           item.tag = 8 * fields[i].number + WireType(fields[i].kind)
    PROVE  Known(fields, item) /= {} /\ FieldFor(fields, item) = fields[i]
<1>1. fields[i] \in Known(fields, item)
  BY DEF Known, Range, Numbered
<1>2. ASSUME NEW f \in Known(fields, item) PROVE f = fields[i]
  <2>1. PICK j \in 1..Len(fields) : f = fields[j]
    BY DEF Known, Range, Numbered
  <2>2. 8 * fields[j].number + WireType(fields[j].kind) = 8 * fields[i].number + WireType(fields[i].kind)
    BY <2>1 DEF Known
  <2>3. fields[i].number \in 1..15 /\ fields[j].number \in 1..15
    BY DEF Numbered
  <2>4. WireType(fields[i].kind) \in {0, 2} /\ WireType(fields[j].kind) \in {0, 2}
    BY <2>3, TagIs
  <2> DEFINE a == fields[i].number
             b == fields[j].number
             c == WireType(fields[i].kind)
             d == WireType(fields[j].kind)
  <2>5. a \in 1..15 /\ b \in 1..15 /\ c \in {0, 2} /\ d \in {0, 2} /\ 8 * b + d = 8 * a + c
    BY <2>2, <2>3, <2>4
  <2> HIDE DEF a, b, c, d
  <2>6. a = b
    BY ONLY <2>5
  <2> QED BY <2>1, <2>6 DEF Numbered, a, b
<1> HIDE DEF Known
<1> QED BY <1>1, <1>2, Zenon DEF FieldFor

\* Classes of texts, flags and numbers, and what their fields may hold.
Plain(fields) ==
    Numbered(fields) /\ \A i \in 1..Len(fields) : fields[i].kind \in {"string", "bool", "number"}
\* What a field of a kind may hold.
Value(f, v) ==
    /\ f.kind = "string" => v \in Seq(Nat)
    /\ f.kind = "bool" => v \in BOOLEAN
    /\ f.kind = "number" => v \in Nat /\ v < Two28
\* A text the parser takes.
TextOk(f, v) == f.kind = "string" => IsUtf8(v)

\* What reading does with the item of a field, in a class of texts, flags and numbers and
\* in any other.
NextOf(scalars, fields, stream, s) == IF scalars THEN NextScalar(fields, stream, s) ELSE NextField(fields, stream, s)
\* The reading goes on behind the item with what the field made of it.
Took(next, set, end) == next = Reading(set.ok, set.m, end)

\* An item goes to the field its tag names, in either of the two loops.
LEMMA FieldRead ==
    ASSUME NEW fields, Numbered(fields), NEW i, i \in 1..Len(fields), NEW stream, NEW p, NEW at,
           NEW item, item = ItemAt(stream, at), item.ok = TRUE,
           item.tag = 8 * fields[i].number + WireType(fields[i].kind)
    PROVE  /\ Took(NextScalar(fields, stream, Reading(TRUE, p, at)), SetScalar(fields[i], p, item), item.end)
           /\ Took(NextField(fields, stream, Reading(TRUE, p, at)), SetField(fields[i], p, item), item.end)
<1> DEFINE s == Reading(TRUE, p, at)
<1>1. s.at = at /\ s.m = p
  BY DEF Reading
<1> HIDE DEF s
<1>2. /\ NextScalar(fields, stream, s) = ReadScalar(fields, s, item)
      /\ NextField(fields, stream, s) = ReadField(fields, s, item)
  BY <1>1, Zenon DEF NextScalar, NextField
<1>3. Known(fields, item) /= {} /\ FieldFor(fields, item) = fields[i]
  BY KnownIs
<1>4. ASSUME NEW set PROVE AfterItem(fields, s, item, set) = Reading(set.ok, set.m, item.end)
  BY <1>3, Zenon DEF AfterItem
<1>5. /\ ReadScalar(fields, s, item) = AfterItem(fields, s, item, SetScalar(fields[i], p, item))
      /\ ReadField(fields, s, item) = AfterItem(fields, s, item, SetField(fields[i], p, item))
  BY <1>1, <1>3, Zenon DEF ReadScalar, ReadField
<1> QED BY <1>2, <1>4, <1>5, Zenon DEF s, Took

\* To a field that is not a message or a map, by SetScalar.
LEMMA ScalarRead ==
    ASSUME NEW scalars, scalars \in BOOLEAN,
           NEW fields, Numbered(fields), NEW i, i \in 1..Len(fields), fields[i].kind \in {"string", "bool", "number"},
           NEW stream, NEW p, NEW at, NEW item, item = ItemAt(stream, at), item.ok = TRUE,
           item.tag = 8 * fields[i].number + WireType(fields[i].kind)
    PROVE  Took(NextOf(scalars, fields, stream, Reading(TRUE, p, at)), SetScalar(fields[i], p, item), item.end)
<1>1. /\ Took(NextScalar(fields, stream, Reading(TRUE, p, at)), SetScalar(fields[i], p, item), item.end)
      /\ Took(NextField(fields, stream, Reading(TRUE, p, at)), SetField(fields[i], p, item), item.end)
  BY FieldRead
<1> DEFINE f == fields[i]
<1>2. f.kind /= "message" /\ f.kind /= "map"
  OBVIOUS
<1> HIDE DEF f
<1>3. SetField(f, p, item) = SetScalar(f, p, item)
  BY <1>2, Zenon DEF SetField
<1> QED BY <1>1, <1>3, Zenon DEF NextOf, f

\* A text with its tag and its length.
LEMMA TextWritten ==
    ASSUME NEW tag \in Nat, NEW t \in Seq(Nat)
    PROVE  /\ <<tag>> \o (Varint(Len(t)) \o t) \in Seq(Nat) /\ Len(t) \in Nat
           /\ Len(<<tag>> \o (Varint(Len(t)) \o t)) = 1 + (Len(Varint(Len(t))) + Len(t))
           /\ Len(Varint(Len(t))) \in 1..4
<1> DEFINE v == Varint(Len(t))
           u == v \o t
<1>1. Len(t) \in Nat /\ v \in Seq(Nat) /\ Len(v) \in 1..4
  BY VarintType
<1> HIDE DEF v
<1>2. u \in Seq(Nat) /\ Len(u) = Len(v) + Len(t)
  BY <1>1, Joined
<1> HIDE DEF u
<1>3. <<tag>> \in Seq(Nat) /\ Len(<<tag>>) = 1
  OBVIOUS
<1>4. <<tag>> \o u \in Seq(Nat) /\ Len(<<tag>> \o u) = Len(<<tag>>) + Len(u)
  BY ONLY <1>2, <1>3, Joined
<1> QED BY <1>1, <1>2, <1>3, <1>4 DEF v, u

\* A field that was written is read back, if it is not a text that is refused.
Came(next, f, v, p, to) ==
    /\ TextOk(f, v) => next = Reading(TRUE, [p EXCEPT ![f.name] = v], to)
    /\ ~TextOk(f, v) => next.ok = FALSE

\* A text that was written is taken back if it is UTF-8 and refused if not; a flag and a number are taken back.
LEMMA ScalarBack ==
    ASSUME NEW scalars, scalars \in BOOLEAN,
           NEW fields, Numbered(fields), NEW i, i \in 1..Len(fields), fields[i].kind \in {"string", "bool", "number"},
           NEW v, Value(fields[i], v), fields[i].kind = "bool" => v = TRUE,
           NEW stream, Len(stream) < Two28, NEW at, Stands(Scalar(fields[i], v), stream, at), NEW p
    PROVE  Came(NextOf(scalars, fields, stream, Reading(TRUE, p, at)), fields[i], v, p, at + Len(Scalar(fields[i], v)))
<1> SUFFICES LET f == fields[i]
                 s == NextOf(scalars, fields, stream, Reading(TRUE, p, at))
             IN /\ TextOk(f, v) => s = Reading(TRUE, [p EXCEPT ![f.name] = v], at + Len(Scalar(f, v)))
                /\ ~TextOk(f, v) => s.ok = FALSE
  BY Zenon DEF Came
<1> DEFINE f == fields[i]
           item == ItemAt(stream, at)
           tag == 8 * f.number + WireType(f.kind)
           s == NextOf(scalars, fields, stream, Reading(TRUE, p, at))
<1>1. Numbered(fields) /\ f.number \in 1..15 /\ f.kind \in {"string", "bool", "number"}
  BY DEF Numbered
<1>2. tag \in 8..127 /\ tag % 8 = WireType(f.kind)
  BY <1>1, TagIs
<1>3. ASSUME item.ok = TRUE, item.tag = tag
      PROVE  Took(s, SetScalar(f, p, item), item.end)
  <2>1. item = ItemAt(stream, at)
    OBVIOUS
  <2> HIDE DEF item
  <2> QED BY ONLY <1>1, <1>3, <2>1, i \in 1..Len(fields), scalars \in BOOLEAN, ScalarRead DEF s, tag, f
<1>4. Stands(Scalar(f, v), stream, at) /\ Len(stream) \in Nat /\ at \in Nat /\ Value(f, v)
  BY DEF Stands
<1> HIDE DEF item, s
<1>5. CASE f.kind = "string"
  <2>1. WireType(f.kind) = 2 /\ v \in Seq(Nat) /\ Scalar(f, v) = <<tag>> \o (Varint(Len(v)) \o v)
    BY <1>4, <1>5, ScalarIs DEF WireType, Value
  <2> HIDE DEF tag, f
  <2>2. Len(v) < Two28
    <3>0. tag \in Nat
      BY <1>2
    <3>1. Len(Scalar(f, v)) = 1 + (Len(Varint(Len(v))) + Len(v)) /\ Len(v) \in Nat /\ Len(Varint(Len(v))) \in 1..4
      BY ONLY <3>0, <2>1, TextWritten
    <3>2. at + Len(Scalar(f, v)) <= Len(stream)
      BY <1>4 DEF Stands
    <3>3. Len(stream) < Two28 /\ Two28 \in Nat
      BY SMT DEF Two28
    <3> QED BY <1>4, <3>1, <3>2, <3>3
  <2>3. item = [ok |-> TRUE, tag |-> tag, value |-> Len(v), content |-> v, end |-> at + Len(Scalar(f, v))]
    <3>1. tag \in 8..127 /\ tag % 8 = 2
      BY <1>2, <2>1
    <3>2. Stands(<<tag>> \o (Varint(Len(v)) \o v), stream, at)
      BY <1>4, <2>1
    <3> QED BY ONLY <3>1, <3>2, <2>1, <2>2, TextBack DEF item
  <2>4. item.ok = TRUE /\ item.tag = tag /\ item.content = v /\ item.end = at + Len(Scalar(f, v))
    BY <2>3
  <2>5. SetScalar(f, p, item) = Parsed(IsUtf8(v), [p EXCEPT ![f.name] = v])
    BY <1>5, <2>4, Zenon DEF SetScalar
  <2>6. Parsed(IsUtf8(v), [p EXCEPT ![f.name] = v]).ok = IsUtf8(v)
      /\ Parsed(IsUtf8(v), [p EXCEPT ![f.name] = v]).m = [p EXCEPT ![f.name] = v]
    BY Zenon DEF Parsed
  <2>7. s = Reading(IsUtf8(v), [p EXCEPT ![f.name] = v], at + Len(Scalar(f, v)))
    BY <1>3, <2>4, <2>5, <2>6, Zenon DEF f, Took
  <2>8. TextOk(f, v) <=> IsUtf8(v)
    BY <1>5 DEF TextOk
  <2>9. ASSUME IsUtf8(v) PROVE s = Reading(TRUE, [p EXCEPT ![f.name] = v], at + Len(Scalar(f, v)))
    <3>1. IsUtf8(v) = TRUE
      BY <2>9, Zenon DEF IsUtf8
    <3> QED BY <2>7, <3>1, Zenon
  <2>10. ASSUME ~IsUtf8(v) PROVE s.ok = FALSE
    <3>1. IsUtf8(v) = FALSE
      BY <2>10, Zenon DEF IsUtf8
    <3> QED BY <2>7, <3>1, Zenon DEF Reading
  <2> QED BY <2>8, <2>9, <2>10, Zenon DEF s, f
<1>6. CASE f.kind = "bool"
  <2>1. WireType(f.kind) = 0 /\ v = TRUE /\ Scalar(f, v) = <<tag>> \o <<1>>
    BY <1>4, <1>6, ScalarIs DEF WireType, Value
  <2>2. Varint(1) = <<1>> /\ 1 < Two28
    BY VarintCases, SMT DEF Two14, Two21, Two28
  <2> HIDE DEF tag
  <2>3. item.ok = TRUE /\ item.tag = tag /\ item.value = 1 /\ item.end = at + Len(Scalar(f, v))
    <3>1. tag \in 8..127 /\ tag % 8 = 0 /\ 1 \in Nat
      BY <1>2, <2>1
    <3>2. Stands(<<tag>> \o Varint(1), stream, at)
      BY <1>4, <2>1, <2>2
    <3>3. NumberAt(item, tag, 1, at + Len(<<tag>> \o Varint(1)))
      BY ONLY <3>1, <3>2, <2>2, NumberBack DEF item
    <3> QED BY <3>3, <2>1, <2>2 DEF NumberAt
  <2>4. SetScalar(f, p, item) = Parsed(TRUE, [p EXCEPT ![f.name] = item.value /= 0])
    BY <1>6, Zenon DEF SetScalar
  <2>5. (item.value /= 0) = TRUE
    BY <2>3
  <2>6. SetScalar(f, p, item) = Parsed(TRUE, [p EXCEPT ![f.name] = v])
    BY <2>1, <2>4, <2>5, Zenon
  <2>7. s = Reading(TRUE, [p EXCEPT ![f.name] = v], at + Len(Scalar(f, v)))
    <3>1. s = Reading(SetScalar(f, p, item).ok, SetScalar(f, p, item).m, item.end)
      BY <1>3, <2>3 DEF Took
    <3> DEFINE q == Parsed(TRUE, [p EXCEPT ![f.name] = v])
    <3>2. q.ok = TRUE /\ q.m = [p EXCEPT ![f.name] = v]
      BY Zenon DEF Parsed
    <3> HIDE DEF q
    <3> QED BY <3>1, <2>3, <2>6, <3>2, Zenon DEF q
  <2> QED BY <1>6, <2>7 DEF s, TextOk
<1>7. CASE f.kind = "number"
  <2>1. WireType(f.kind) = 0 /\ v \in Nat /\ v < Two28 /\ Scalar(f, v) = <<tag>> \o Varint(v)
    BY <1>4, <1>7, ScalarIs DEF WireType, Value
  <2> HIDE DEF tag
  <2>2. item.ok = TRUE /\ item.tag = tag /\ item.value = v /\ item.end = at + Len(Scalar(f, v))
    <3>1. tag \in 8..127 /\ tag % 8 = 0
      BY <1>2, <2>1
    <3>2. Stands(<<tag>> \o Varint(v), stream, at)
      BY <1>4, <2>1
    <3>3. NumberAt(item, tag, v, at + Len(<<tag>> \o Varint(v)))
      BY ONLY <3>1, <3>2, <2>1, NumberBack DEF item
    <3> QED BY <3>3, <2>1 DEF NumberAt
  <2>3. SetScalar(f, p, item) = Parsed(TRUE, [p EXCEPT ![f.name] = v])
    BY <1>7, <2>2, Zenon DEF SetScalar
  <2>4. s = Reading(TRUE, [p EXCEPT ![f.name] = v], at + Len(Scalar(f, v)))
    <3>1. s = Reading(SetScalar(f, p, item).ok, SetScalar(f, p, item).m, item.end)
      BY <1>3, <2>2 DEF Took
    <3> DEFINE q == Parsed(TRUE, [p EXCEPT ![f.name] = v])
    <3>2. q.ok = TRUE /\ q.m = [p EXCEPT ![f.name] = v]
      BY Zenon DEF Parsed
    <3> HIDE DEF q
    <3> QED BY <3>1, <2>2, <2>3, <3>2, Zenon DEF q
  <2> QED BY <1>7, <2>4 DEF s, TextOk
<1> QED BY <1>1, <1>5, <1>6, <1>7

-----------------------------------------------------------------------------
(* A text of many items *)

\* Reading comes to the place at with the object p, and nothing has ended it before.
Reached(read, stream, p, at) ==
    \E k \in 0..Len(stream) :
        k <= at /\ read[k] = Reading(TRUE, p, at) /\ \A j \in 0..(k - 1) : ~Done(read[j], stream)

\* It fails somewhere.
Failed(read, stream) ==
    \E k \in 0..Len(stream) : read[k].ok = FALSE /\ \A j \in 0..(k - 1) : ~Done(read[j], stream)

\* From a place before the end it goes on to the next.
LEMMA ReadOn ==
    ASSUME NEW stream, Len(stream) \in Nat, NEW read, NEW p, NEW at, at \in Nat, at < Len(stream),
           Reached(read, stream, p, at), NEW next,
           \A k \in 1..Len(stream) : read[k - 1] = Reading(TRUE, p, at) => read[k] = next
    PROVE  /\ next.ok = FALSE => Failed(read, stream)
           /\ \A q, to : to \in Nat /\ at < to /\ next = Reading(TRUE, q, to) => Reached(read, stream, q, to)
<1>1. PICK k \in 0..Len(stream) :
        k <= at /\ read[k] = Reading(TRUE, p, at) /\ \A j \in 0..(k - 1) : ~Done(read[j], stream)
  BY DEF Reached
<1>2. k + 1 \in 1..Len(stream) /\ k + 1 \in 0..Len(stream) /\ (k + 1) - 1 = k
  BY <1>1
<1>3. read[k + 1] = next
  BY <1>1, <1>2
<1>4. ~Done(read[k], stream)
  <2>1. Reading(TRUE, p, at).ok = TRUE /\ Reading(TRUE, p, at).at = at
    BY DEF Reading
  <2>2. read[k].ok = TRUE /\ read[k].at = at
    BY <1>1, <2>1, Zenon
  <2>3. at /= Len(stream)
    OBVIOUS
  <2> QED BY <2>2, <2>3, Zenon DEF Done
<1>5. \A j \in 0..((k + 1) - 1) : ~Done(read[j], stream)
  <2>1. \A j \in 0..((k + 1) - 1) : j = k \/ j \in 0..(k - 1)
    BY <1>1
  <2> QED BY <1>1, <1>4, <2>1
<1>6. next.ok = FALSE => Failed(read, stream)
  BY <1>2, <1>3, <1>5 DEF Failed
<1>7. ASSUME NEW q, NEW to, to \in Nat, at < to, next = Reading(TRUE, q, to) PROVE Reached(read, stream, q, to)
  <2>1. k + 1 <= to
    BY <1>1, <1>7
  <2> QED BY <1>2, <1>3, <1>5, <1>7, <2>1 DEF Reached
<1> QED BY <1>6, <1>7

\* If it comes from every piece to the next, it comes to the last; and it fails with the
\* first that it cannot read.
LEMMA ReadThrough ==
    ASSUME NEW stream, NEW read, NEW N, N \in Nat, NEW at, NEW st, NEW Bad, Bad \subseteq 1..N,
           Reached(read, stream, st[0], at[0]),
           \A i \in 1..N : Reached(read, stream, st[i - 1], at[i - 1]) =>
                             IF i \in Bad THEN Failed(read, stream) ELSE Reached(read, stream, st[i], at[i])
    PROVE  /\ Bad = {} => Reached(read, stream, st[N], at[N])
           /\ Bad /= {} => Failed(read, stream)
<1> DEFINE T == {n \in 0..N : (\A i \in 1..n : i \notin Bad) /\ ~Reached(read, stream, st[n], at[n])}
<1>1. T = {}
  <2> SUFFICES ASSUME T /= {} PROVE FALSE
    OBVIOUS
  <2>1. T \subseteq Nat
    OBVIOUS
  <2>2. PICK n \in T : \A m \in T : n <= m
    <3> HIDE DEF T
    <3> QED BY <2>1, Smallest
  <2>3. n \in 0..N /\ (\A i \in 1..n : i \notin Bad) /\ ~Reached(read, stream, st[n], at[n])
    BY <2>2
  <2>4. n /= 0
    BY <2>3
  <2>5. n - 1 \in 0..N /\ n \in 1..N /\ n - 1 \notin T /\ \A i \in 1..(n - 1) : i \in 1..n
    <3>1. n - 1 \in 0..N /\ n \in 1..N /\ ~(n <= n - 1) /\ \A i \in 1..(n - 1) : i \in 1..n
      BY <2>3, <2>4
    <3> HIDE DEF T
    <3> QED BY <2>2, <3>1
  <2>6. Reached(read, stream, st[n - 1], at[n - 1])
    BY <2>3, <2>5
  <2>7. n \notin Bad
    <3>1. n \in 1..n
      BY <2>5
    <3> QED BY <2>3, <3>1
  <2> QED BY ONLY <2>3, <2>5, <2>6, <2>7,
         \A i \in 1..N : Reached(read, stream, st[i - 1], at[i - 1]) =>
                           IF i \in Bad THEN Failed(read, stream) ELSE Reached(read, stream, st[i], at[i])
<1>2. ASSUME Bad = {} PROVE Reached(read, stream, st[N], at[N])
  <2>1. N \notin T /\ N \in 0..N
    BY <1>1
  <2> QED BY <1>2, <2>1
<1>3. ASSUME Bad /= {} PROVE Failed(read, stream)
  <2>1. PICK b \in Bad : \A c \in Bad : b <= c
    <3>1. Bad \subseteq Nat
      OBVIOUS
    <3> QED BY <1>3, <3>1, Smallest
  <2>2. b \in 1..N /\ b - 1 \in 0..N /\ \A i \in 1..(b - 1) : i \notin Bad
    <3>1. b \in 1..N /\ b - 1 \in 0..N /\ \A i \in 1..(b - 1) : ~(b <= i)
      OBVIOUS
    <3> QED BY <2>1, <3>1
  <2>3. Reached(read, stream, st[b - 1], at[b - 1])
    <3>1. b - 1 \notin T
      BY <1>1
    <3> QED BY <2>2, <3>1
  <2> QED BY <2>2, <2>3
<1> QED BY <1>2, <1>3

\* What comes of it.
LEMMA ReadEnds ==
    ASSUME NEW stream, Len(stream) \in Nat, NEW read, DOMAIN read = 0..Len(stream)
    PROVE  /\ \A p : Reached(read, stream, p, Len(stream)) => AtEnd(read, stream) = Reading(TRUE, p, Len(stream))
           /\ Failed(read, stream) => AtEnd(read, stream).ok = FALSE
<1> DEFINE First(k) == Done(read[k], stream) /\ \A j \in 0..(k - 1) : ~Done(read[j], stream)
           end == CHOOSE k \in DOMAIN read : First(k)
<1>1. ASSUME NEW k \in 0..Len(stream), First(k) PROVE AtEnd(read, stream) = read[k]
  <2>1. end \in 0..Len(stream) /\ First(end)
    <3> HIDE DEF First
    <3> QED BY <1>1, Zenon
  <2>2. AtEnd(read, stream) = read[end]
    BY Zenon DEF AtEnd
  <2> HIDE DEF end
  <2>3. k = end
    <3>1. k < end => k \in 0..(end - 1)
      BY <2>1
    <3>2. end < k => end \in 0..(k - 1)
      BY <2>1
    <3>3. ~(k < end) /\ ~(end < k)
      BY <1>1, <2>1, <3>1, <3>2
    <3> QED BY <2>1, <3>3
  <2> QED BY <2>2, <2>3
<1>2. ASSUME NEW p, Reached(read, stream, p, Len(stream)) PROVE AtEnd(read, stream) = Reading(TRUE, p, Len(stream))
  <2>1. PICK k \in 0..Len(stream) :
          read[k] = Reading(TRUE, p, Len(stream)) /\ \A j \in 0..(k - 1) : ~Done(read[j], stream)
    BY <1>2 DEF Reached
  <2>2. Reading(TRUE, p, Len(stream)).at = Len(stream)
    BY DEF Reading
  <2>3. First(k)
    BY <2>1, <2>2 DEF Done
  <2> HIDE DEF First
  <2> QED BY <1>1, <2>1, <2>3
<1>3. ASSUME Failed(read, stream) PROVE AtEnd(read, stream).ok = FALSE
  <2>1. PICK k \in 0..Len(stream) : read[k].ok = FALSE /\ \A j \in 0..(k - 1) : ~Done(read[j], stream)
    BY <1>3 DEF Failed
  <2>2. First(k)
    BY <2>1 DEF Done
  <2> HIDE DEF First
  <2> QED BY <1>1, <2>1, <2>2
<1> QED BY <1>2, <1>3

\* The recursions of MergeScalars and of Merge have solutions.
IsReading(f, N, scalars, fields, m, stream) ==
    f = [k \in 0..N |-> IF k = 0 THEN Reading(TRUE, m, 0) ELSE NextOf(scalars, fields, stream, f[k - 1])]

\* The recursive function of the loops exists: there is no smallest length that has none.
LEMMA ReadExists ==
    ASSUME NEW scalars, NEW fields, NEW m, NEW stream, NEW N, N \in Nat
    PROVE  \E f : IsReading(f, N, scalars, fields, m, stream)
<1> DEFINE After(s) == NextOf(scalars, fields, stream, s)
           s0 == Reading(TRUE, m, 0)
           Solves(f, n) == f = [k \in 0..n |-> IF k = 0 THEN s0 ELSE After(f[k - 1])]
           T == {n \in Nat : ~\E f : Solves(f, n)}
<1> HIDE DEF After, s0
<1>1. T = {}
  <2> SUFFICES ASSUME T /= {} PROVE FALSE
    OBVIOUS
  <2>1. T \subseteq Nat
    OBVIOUS
  <2>2. PICK n \in T : \A k \in T : n <= k
    <3> HIDE DEF T
    <3> QED BY <2>1, Smallest
  <2>3. n \in Nat /\ ~\E f : Solves(f, n)
    BY <2>2
  <2>4. n /= 0
    <3> SUFFICES ASSUME n = 0 PROVE FALSE
      OBVIOUS
    <3>1. Solves([k \in 0..0 |-> s0], 0)
      OBVIOUS
    <3> QED BY <2>3, <3>1
  <2>5. n - 1 \in Nat /\ n - 1 \notin T
    <3>1. n - 1 \in Nat /\ ~(n <= n - 1)
      BY <2>3, <2>4
    <3> HIDE DEF T
    <3> QED BY <2>2, <3>1
  <2>6. PICK f : Solves(f, n - 1)
    BY <2>5
  <2> DEFINE g == [k \in 0..n |-> IF k = n THEN After(f[n - 1]) ELSE f[k]]
  <2>7. ASSUME NEW k \in 0..n PROVE g[k] = IF k = 0 THEN s0 ELSE After(g[k - 1])
    <3>1. CASE k = 0
      <4>1. f[0] = s0 /\ g[0] = f[0]
        BY <2>3, <2>4, <2>5, <2>6
      <4> QED BY <3>1, <4>1
    <3>2. CASE k /= 0
      <4>1. k - 1 \in 0..n /\ k - 1 /= n /\ k - 1 \in 0..(n - 1)
        BY <2>3, <3>2
      <4>2. g[k - 1] = f[k - 1]
        BY <4>1
      <4>3. CASE k = n
        BY <3>2, <4>2, <4>3
      <4>4. CASE k /= n
        <5>1. k \in 0..(n - 1)
          BY <2>3, <4>4
        <5>2. f[k] = After(f[k - 1])
          BY <2>6, <3>2, <5>1
        <5> QED BY <3>2, <4>2, <4>4, <5>2
      <4> QED BY <4>3, <4>4
    <3> QED BY <3>1, <3>2
  <2>8. g = [k \in 0..n |-> g[k]]
    OBVIOUS
  <2>9. Solves(g, n)
    <3> HIDE DEF g
    <3> QED BY <2>7, <2>8
  <2> HIDE DEF Solves
  <2> QED BY <2>3, <2>9
<1> QED BY <1>1 DEF After, s0, IsReading

\* MergeScalars and Merge are the ends of them.
Reads(read, scalars, fields, m, stream) ==
    /\ DOMAIN read = 0..Len(stream) /\ read[0] = Reading(TRUE, m, 0)
    /\ \A k \in 1..Len(stream) : read[k] = NextOf(scalars, fields, stream, read[k - 1])

\* It has the value its definition gives at each step.
LEMMA ReadsAre ==
    ASSUME NEW scalars, NEW fields, NEW m, NEW stream, Len(stream) \in Nat, NEW read,
           read = [k \in 0..Len(stream) |->
                     IF k = 0 THEN Reading(TRUE, m, 0) ELSE NextOf(scalars, fields, stream, read[k - 1])]
    PROVE  Reads(read, scalars, fields, m, stream)
<1> DEFINE After(s) == NextOf(scalars, fields, stream, s)
           s0 == Reading(TRUE, m, 0)
           n == Len(stream)
<1>1. n \in Nat /\ read = [k \in 0..n |-> IF k = 0 THEN s0 ELSE After(read[k - 1])]
  OBVIOUS
<1> HIDE DEF After, s0, n
<1>2. DOMAIN read = 0..n /\ read[0] = s0 /\ \A k \in 1..n : read[k] = After(read[k - 1])
  <2>1. \A k \in 0..n : read[k] = IF k = 0 THEN s0 ELSE After(read[k - 1])
    BY <1>1, Zenon
  <2>2. DOMAIN read = 0..n
    BY <1>1, Zenon
  <2>3. 0 \in 0..n /\ \A k \in 1..n : k \in 0..n /\ k /= 0
    BY <1>1
  <2> QED BY <2>1, <2>2, <2>3, Zenon
<1> QED BY <1>2 DEF Reads, After, s0, n

\* So a submessage is what its loop makes of the bytes, item by item.
LEMMA MergeScalarsReads ==
    ASSUME NEW fields, NEW m, NEW stream, Len(stream) \in Nat
    PROVE  \E read : Reads(read, TRUE, fields, m, stream) /\ MergeScalars(fields, m, stream) = AtEnd(read, stream)
<1> DEFINE read == CHOOSE f : f = [k \in 0..Len(stream) |->
                     IF k = 0 THEN Reading(TRUE, m, 0) ELSE NextScalar(fields, stream, f[k - 1])]
<1>1. PICK f : IsReading(f, Len(stream), TRUE, fields, m, stream)
  BY ReadExists
<1>2. \A s : NextOf(TRUE, fields, stream, s) = NextScalar(fields, stream, s)
  BY DEF NextOf
<1>3. \E g : g = [k \in 0..Len(stream) |->
                    IF k = 0 THEN Reading(TRUE, m, 0) ELSE NextScalar(fields, stream, g[k - 1])]
  <2>1. f = [k \in 0..Len(stream) |-> IF k = 0 THEN Reading(TRUE, m, 0) ELSE NextOf(TRUE, fields, stream, f[k - 1])]
    BY <1>1 DEF IsReading
  <2>2. f = [k \in 0..Len(stream) |-> IF k = 0 THEN Reading(TRUE, m, 0) ELSE NextScalar(fields, stream, f[k - 1])]
    BY <1>2, <2>1, Zenon
  <2> QED BY <2>2
<1>4. read = [k \in 0..Len(stream) |->
                    IF k = 0 THEN Reading(TRUE, m, 0) ELSE NextScalar(fields, stream, read[k - 1])]
  BY <1>3, Zenon
<1>5. MergeScalars(fields, m, stream) = AtEnd(read, stream)
  BY Zenon DEF MergeScalars
<1> HIDE DEF read
<1>6. read = [k \in 0..Len(stream) |->
                    IF k = 0 THEN Reading(TRUE, m, 0) ELSE NextOf(TRUE, fields, stream, read[k - 1])]
  BY <1>2, <1>4, Zenon
<1>7. Reads(read, TRUE, fields, m, stream)
  BY <1>6, ReadsAre
<1> QED BY <1>5, <1>7

\* So is a message.
LEMMA MergeReads ==
    ASSUME NEW fields, NEW m, NEW stream, Len(stream) \in Nat
    PROVE  \E read : Reads(read, FALSE, fields, m, stream) /\ Merge(fields, m, stream) = AtEnd(read, stream)
<1> DEFINE read == CHOOSE f : f = [k \in 0..Len(stream) |->
                     IF k = 0 THEN Reading(TRUE, m, 0) ELSE NextField(fields, stream, f[k - 1])]
<1>1. PICK f : IsReading(f, Len(stream), FALSE, fields, m, stream)
  BY ReadExists
<1>2. \A s : NextOf(FALSE, fields, stream, s) = NextField(fields, stream, s)
  BY DEF NextOf
<1>3. \E g : g = [k \in 0..Len(stream) |->
                    IF k = 0 THEN Reading(TRUE, m, 0) ELSE NextField(fields, stream, g[k - 1])]
  <2>1. f = [k \in 0..Len(stream) |-> IF k = 0 THEN Reading(TRUE, m, 0) ELSE NextOf(FALSE, fields, stream, f[k - 1])]
    BY <1>1 DEF IsReading
  <2>2. f = [k \in 0..Len(stream) |-> IF k = 0 THEN Reading(TRUE, m, 0) ELSE NextField(fields, stream, f[k - 1])]
    BY <1>2, <2>1, Zenon
  <2> QED BY <2>2
<1>4. read = [k \in 0..Len(stream) |->
                    IF k = 0 THEN Reading(TRUE, m, 0) ELSE NextField(fields, stream, read[k - 1])]
  BY <1>3, Zenon
<1>5. Merge(fields, m, stream) = AtEnd(read, stream)
  BY Zenon DEF Merge
<1> HIDE DEF read
<1>6. read = [k \in 0..Len(stream) |->
                    IF k = 0 THEN Reading(TRUE, m, 0) ELSE NextOf(FALSE, fields, stream, read[k - 1])]
  BY <1>2, <1>4, Zenon
<1>7. Reads(read, FALSE, fields, m, stream)
  BY <1>6, ReadsAre
<1> QED BY <1>5, <1>7

-----------------------------------------------------------------------------
(* Writing and measuring *)

\* What is written for a scalar is as long as ByteSizeLong says.
LEMMA ScalarWritten ==
    ASSUME NEW f, f.number \in 1..15, f.kind \in {"string", "bool", "number"}, NEW v, Value(f, v)
    PROVE  /\ Scalar(f, v) \in Seq(Nat) /\ Len(Scalar(f, v)) \in Nat /\ Len(Scalar(f, v)) > 0
           /\ ScalarSize(f, v) = Len(Scalar(f, v))
<1> DEFINE tag == 8 * f.number + WireType(f.kind)
<1>1. tag \in 8..127 /\ tag \in Nat
  <2>1. tag \in 8..127
    BY TagIs
  <2> HIDE DEF tag
  <2> QED BY <2>1
<1>2. CASE f.kind = "string"
  <2>1. WireType(f.kind) = 2 /\ v \in Seq(Nat) /\ Scalar(f, v) = <<tag>> \o (Varint(Len(v)) \o v)
    BY <1>2, ScalarIs DEF WireType, Value
  <2>2. ScalarSize(f, v) = 1 + (Len(Varint(Len(v))) + Len(v))
    BY <1>2, Zenon DEF ScalarSize, SizedLength
  <2> HIDE DEF tag
  <2>3. /\ <<tag>> \o (Varint(Len(v)) \o v) \in Seq(Nat) /\ Len(v) \in Nat
        /\ Len(<<tag>> \o (Varint(Len(v)) \o v)) = 1 + (Len(Varint(Len(v))) + Len(v))
        /\ Len(Varint(Len(v))) \in 1..4
    BY <1>1, <2>1, TextWritten
  <2> QED BY <2>1, <2>2, <2>3
<1>3. CASE f.kind = "bool"
  <2>1. WireType(f.kind) = 0 /\ Scalar(f, v) = <<tag>> \o <<1>>
    BY <1>3, ScalarIs DEF WireType
  <2>2. ScalarSize(f, v) = 2
    BY <1>3, Zenon DEF ScalarSize
  <2> HIDE DEF tag
  <2>3. <<tag>> \o <<1>> \in Seq(Nat) /\ Len(<<tag>> \o <<1>>) = 2
    <3>1. <<tag>> \in Seq(Nat) /\ Len(<<tag>>) = 1 /\ <<1>> \in Seq(Nat) /\ Len(<<1>>) = 1
      BY <1>1
    <3>2. <<tag>> \o <<1>> \in Seq(Nat) /\ Len(<<tag>> \o <<1>>) = Len(<<tag>>) + Len(<<1>>)
      BY ONLY <3>1, Joined
    <3> QED BY <3>1, <3>2
  <2> QED BY <2>1, <2>2, <2>3
<1>4. CASE f.kind = "number"
  <2>1. WireType(f.kind) = 0 /\ v \in Nat /\ Scalar(f, v) = <<tag>> \o Varint(v)
    BY <1>4, ScalarIs DEF WireType, Value
  <2>2. ScalarSize(f, v) = 1 + Len(Varint(v))
    BY <1>4, Zenon DEF ScalarSize
  <2> HIDE DEF tag
  <2> DEFINE w == Varint(v)
  <2>3. w \in Seq(Nat) /\ Len(w) \in 1..4
    BY <2>1, VarintType
  <2> HIDE DEF w
  <2>4. <<tag>> \in Seq(Nat) /\ Len(<<tag>>) = 1
    BY <1>1
  <2>5. <<tag>> \o w \in Seq(Nat) /\ Len(<<tag>> \o w) = Len(<<tag>>) + Len(w)
    BY ONLY <2>3, <2>4, Joined
  <2>6. <<tag>> \o w \in Seq(Nat) /\ Len(<<tag>> \o w) = 1 + Len(w) /\ Len(w) \in 1..4
    BY <2>3, <2>4, <2>5
  <2> QED BY <2>1, <2>2, <2>6 DEF w
<1> QED BY <1>2, <1>3, <1>4

\* The recursion of ByteSizeLong has a solution.
SizeOf(f, m) == IF m[f.name] = Unset(f) THEN 0 ELSE ScalarSize(f, m[f.name])
\* The function ByteSizeLong is defined by.
IsTotal(f, N, fields, m) == f = [i \in 0..N |-> IF i = 0 THEN 0 ELSE f[i - 1] + SizeOf(fields[i], m)]

\* The recursive function that adds up the sizes exists.
LEMMA TotalExists ==
    ASSUME NEW fields, NEW m, NEW N, N \in Nat
    PROVE  \E f : IsTotal(f, N, fields, m)
<1> DEFINE Size(i) == SizeOf(fields[i], m)
           Solves(f, n) == f = [i \in 0..n |-> IF i = 0 THEN 0 ELSE f[i - 1] + Size(i)]
           T == {n \in Nat : ~\E f : Solves(f, n)}
<1> HIDE DEF Size
<1>1. T = {}
  <2> SUFFICES ASSUME T /= {} PROVE FALSE
    OBVIOUS
  <2>1. T \subseteq Nat
    OBVIOUS
  <2>2. PICK n \in T : \A k \in T : n <= k
    <3> HIDE DEF T
    <3> QED BY <2>1, Smallest
  <2>3. n \in Nat /\ ~\E f : Solves(f, n)
    BY <2>2
  <2>4. n /= 0
    <3> SUFFICES ASSUME n = 0 PROVE FALSE
      OBVIOUS
    <3>1. Solves([k \in 0..0 |-> 0], 0)
      OBVIOUS
    <3> QED BY <2>3, <3>1
  <2>5. n - 1 \in Nat /\ n - 1 \notin T
    <3>1. n - 1 \in Nat /\ ~(n <= n - 1)
      BY <2>3, <2>4
    <3> HIDE DEF T
    <3> QED BY <2>2, <3>1
  <2>6. PICK f : Solves(f, n - 1)
    BY <2>5
  <2> DEFINE g == [k \in 0..n |-> IF k = n THEN f[n - 1] + Size(n) ELSE f[k]]
  <2>7. ASSUME NEW k \in 0..n PROVE g[k] = IF k = 0 THEN 0 ELSE g[k - 1] + Size(k)
    <3>1. CASE k = 0
      <4>1. f[0] = 0 /\ g[0] = f[0]
        BY <2>3, <2>4, <2>5, <2>6
      <4> QED BY <3>1, <4>1
    <3>2. CASE k /= 0
      <4>1. k - 1 \in 0..n /\ k - 1 /= n /\ k - 1 \in 0..(n - 1)
        BY <2>3, <3>2
      <4>2. g[k - 1] = f[k - 1]
        BY <4>1
      <4>3. CASE k = n
        BY <3>2, <4>2, <4>3
      <4>4. CASE k /= n
        <5>1. k \in 0..(n - 1)
          BY <2>3, <4>4
        <5>2. f[k] = f[k - 1] + Size(k)
          BY <2>6, <3>2, <5>1
        <5> QED BY <3>2, <4>2, <4>4, <5>2
      <4> QED BY <4>3, <4>4
    <3> QED BY <3>1, <3>2
  <2>8. g = [k \in 0..n |-> g[k]]
    OBVIOUS
  <2>9. Solves(g, n)
    <3> HIDE DEF g
    <3> QED BY <2>7, <2>8
  <2> HIDE DEF Solves
  <2> QED BY <2>3, <2>9
<1> QED BY <1>1 DEF Size, IsTotal

\* ByteSizeLong adds up the sizes of the fields that are written.
LEMMA TotalIs ==
    ASSUME NEW fields, NEW m, Len(fields) \in Nat
    PROVE  \E f : /\ f[0] = 0 /\ ByteSizeLong(fields, m) = f[Len(fields)]
                  /\ \A i \in 1..Len(fields) : f[i] = f[i - 1] + SizeOf(fields[i], m)
<1> DEFINE f == CHOOSE f : f = [i \in 0..Len(fields) |-> IF i = 0 THEN 0 ELSE f[i - 1] + SizeOf(fields[i], m)]
<1>1. f = [i \in 0..Len(fields) |-> IF i = 0 THEN 0 ELSE f[i - 1] + SizeOf(fields[i], m)]
  <2>1. PICK g : IsTotal(g, Len(fields), fields, m)
    BY TotalExists
  <2>2. g = [i \in 0..Len(fields) |-> IF i = 0 THEN 0 ELSE g[i - 1] + SizeOf(fields[i], m)]
    BY <2>1 DEF IsTotal
  <2> QED BY <2>2, Zenon
<1>2. ByteSizeLong(fields, m) = f[Len(fields)]
  BY Zenon DEF ByteSizeLong, SizeOf
<1> HIDE DEF f
<1>3. \A i \in 0..Len(fields) : f[i] = IF i = 0 THEN 0 ELSE f[i - 1] + SizeOf(fields[i], m)
  BY <1>1, Zenon
<1>4. 0 \in 0..Len(fields) /\ \A i \in 1..Len(fields) : i \in 0..Len(fields) /\ i /= 0
  OBVIOUS
<1> QED BY <1>2, <1>3, <1>4, Zenon

\* An object of a class of texts, flags and numbers.
Holds(fields, m) ==
    /\ m = [name \in Names(fields) |-> m[name]]
    /\ \A i \in 1..Len(fields) : Value(fields[i], m[fields[i].name])

\* One piece for each field: what is written for it, or nothing if it is not set.
Written(f, v, piece) ==
    \/ piece = <<>> /\ v = Unset(f)
    \/ piece = Scalar(f, v) /\ (f.kind = "bool" => v = TRUE)
\* The pieces of a submessage.
WrittenAs(fields, m, pieces) ==
    /\ pieces \in [1..Len(fields) -> Seq(Nat)] /\ pieces \in Seq(Seq(Nat)) /\ Len(pieces) = Len(fields)
    /\ \A i \in 1..Len(fields) : Written(fields[i], m[fields[i].name], pieces[i])

\* A function with sequences as its values is a sequence of sequences.
LEMMA PiecesAre ==
    ASSUME NEW N, N \in Nat, NEW pieces, DOMAIN pieces = 1..N, pieces = [i \in 1..N |-> pieces[i]],
           \A i \in 1..N : pieces[i] \in Seq(Nat)
    PROVE  pieces \in [1..N -> Seq(Nat)] /\ pieces \in Seq(Seq(Nat)) /\ Len(pieces) = N
<1> DEFINE S == Seq(Nat)
<1>0. \A i \in 1..N : pieces[i] \in S
  OBVIOUS
<1> HIDE DEF S
<1>1. pieces \in [1..N -> S]
  BY <1>0, Zenon
<1>2. pieces \in Seq(S)
  BY <1>1, IsASeq
<1>3. Len(pieces) = N
  BY <1>2, LenProperties
<1> QED BY <1>1, <1>2, <1>3 DEF S

\* They are these.
ScalarPieces(fields, m) ==
    [i \in DOMAIN fields |-> IF m[fields[i].name] = Unset(fields[i]) THEN <<>> ELSE Scalar(fields[i], m[fields[i].name])]

\* A submessage is the pieces of its fields one behind the other.
LEMMA ScalarsWritten ==
    ASSUME NEW fields, Plain(fields), NEW m, Holds(fields, m)
    PROVE  Scalars(fields, m) = FlattenSeq(ScalarPieces(fields, m)) /\ WrittenAs(fields, m, ScalarPieces(fields, m))
<1> DEFINE pieces == ScalarPieces(fields, m)
           v(i) == m[fields[i].name]
           N == Len(fields)
<1>1. Scalars(fields, m) = FlattenSeq(pieces)
  BY Zenon DEF Scalars, ScalarPieces
<1>2. N \in Nat /\ DOMAIN fields = 1..N
  BY DEF Plain, Numbered
<1>3. /\ DOMAIN pieces = 1..N /\ pieces = [i \in 1..N |-> pieces[i]]
      /\ \A i \in 1..N : pieces[i] = IF v(i) = Unset(fields[i]) THEN <<>> ELSE Scalar(fields[i], v(i))
  <2>1. pieces = [i \in 1..N |-> IF v(i) = Unset(fields[i]) THEN <<>> ELSE Scalar(fields[i], v(i))]
    BY <1>2, Zenon DEF ScalarPieces
  <2> HIDE DEF pieces, v, N
  <2> QED BY <2>1, Zenon
<1> HIDE DEF pieces
<1>4. ASSUME NEW i \in 1..N
      PROVE  pieces[i] \in Seq(Nat) /\ Written(fields[i], v(i), pieces[i])
  <2> DEFINE f == fields[i]
             x == v(i)
             piece == pieces[i]
  <2>1. f.number \in 1..15 /\ f.kind \in {"string", "bool", "number"} /\ Value(f, x)
    BY DEF Plain, Numbered, Holds
  <2>2. piece = IF x = Unset(f) THEN <<>> ELSE Scalar(f, x)
    BY <1>3
  <2> HIDE DEF f, x, piece
  <2>3. ASSUME x = Unset(f) PROVE piece \in Seq(Nat) /\ Written(f, x, piece)
    <3>1. piece = <<>> /\ <<>> \in Seq(Nat)
      BY <2>2, <2>3
    <3>2. Written(f, x, piece)
      BY <3>1, <2>3, Zenon DEF Written
    <3> QED BY <3>1, <3>2
  <2>4. ASSUME x /= Unset(f) PROVE piece \in Seq(Nat) /\ Written(f, x, piece)
    <3>1. piece = Scalar(f, x)
      BY <2>2, <2>4
    <3>2. Scalar(f, x) \in Seq(Nat)
      BY <2>1, ScalarWritten
    <3>3. ASSUME f.kind = "bool" PROVE x = TRUE
      <4>1. x \in BOOLEAN
        BY <2>1, <3>3 DEF Value
      <4>2. x /= FALSE
        BY <2>4, <3>3, UnsetIs
      <4> QED BY <4>1, <4>2, Zenon
    <3>4. Written(f, x, piece)
      BY <3>1, <3>3, Zenon DEF Written
    <3> QED BY <3>1, <3>2, <3>4
  <2>5. piece \in Seq(Nat) /\ Written(f, x, piece)
    BY <2>3, <2>4
  <2> QED BY <2>5 DEF f, x, piece
<1>5. pieces \in [1..N -> Seq(Nat)] /\ pieces \in Seq(Seq(Nat)) /\ Len(pieces) = N
  <2>1. \A i \in 1..N : pieces[i] \in Seq(Nat)
    BY <1>4
  <2> HIDE DEF N
  <2> QED BY <1>2, <1>3, <2>1, PiecesAre
<1> QED BY <1>1, <1>4, <1>5 DEF WrittenAs, pieces

\* ByteSizeLong is the length of what is written.
LEMMA SizeIsLength ==
    ASSUME NEW fields, Plain(fields), NEW m, Holds(fields, m)
    PROVE  Scalars(fields, m) \in Seq(Nat) /\ ByteSizeLong(fields, m) = Len(Scalars(fields, m))
<1> DEFINE pieces == ScalarPieces(fields, m)
           N == Len(fields)
           s == FlattenSeq(pieces)
<1>1. N \in Nat /\ DOMAIN fields = 1..N
  BY DEF Plain, Numbered
<1>2. pieces \in [1..N -> Seq(Nat)] /\ pieces \in Seq(Seq(Nat)) /\ Len(pieces) = N
  BY ScalarsWritten DEF WrittenAs
<1>3. ASSUME NEW i \in 1..N PROVE Len(pieces[i]) = SizeOf(fields[i], m)
  <2> DEFINE f == fields[i]
             x == m[fields[i].name]
             piece == pieces[i]
  <2>1. f.number \in 1..15 /\ f.kind \in {"string", "bool", "number"} /\ Value(f, x)
    BY DEF Plain, Numbered, Holds
  <2>2. piece = IF x = Unset(f) THEN <<>> ELSE Scalar(f, x)
    BY <1>1, Zenon DEF ScalarPieces
  <2>3. SizeOf(f, m) = IF x = Unset(f) THEN 0 ELSE ScalarSize(f, x)
    BY Zenon DEF SizeOf
  <2> HIDE DEF f, x, piece
  <2>4. ScalarSize(f, x) = Len(Scalar(f, x))
    BY <2>1, ScalarWritten
  <2>5. Len(<<>>) = 0
    OBVIOUS
  <2>6. Len(piece) = SizeOf(f, m)
    BY <2>2, <2>3, <2>4, <2>5
  <2> QED BY <2>6 DEF f, piece
<1> HIDE DEF pieces
<1>4. s \in Seq(Nat) /\ \E at : Layout(s, pieces, at)
  BY <1>1, <1>2, FlattenedLayout
<1>5. PICK at : Layout(s, pieces, at)
  BY <1>4
<1>6. PICK f : /\ f[0] = 0 /\ ByteSizeLong(fields, m) = f[N]
               /\ \A i \in 1..N : f[i] = f[i - 1] + SizeOf(fields[i], m)
  BY <1>1, TotalIs
<1> HIDE DEF s
<1>7. at[0] = 0 /\ at[N] = Len(s) /\ \A i \in 1..N : at[i] = at[i - 1] + SizeOf(fields[i], m)
  BY <1>2, <1>3, <1>5 DEF Layout
<1> DEFINE T == {n \in 0..N : at[n] /= f[n]}
<1>8. T = {}
  <2> SUFFICES ASSUME T /= {} PROVE FALSE
    OBVIOUS
  <2>1. T \subseteq Nat
    BY <1>1
  <2>2. PICK n \in T : \A k \in T : n <= k
    <3> HIDE DEF T
    <3> QED BY <2>1, Smallest
  <2>3. n \in 0..N /\ at[n] /= f[n]
    BY <2>2
  <2>4. n /= 0
    BY <1>6, <1>7, <2>3
  <2>5. n \in 1..N /\ n - 1 \notin T /\ n - 1 \in 0..N
    <3>1. n - 1 \in 0..N /\ n \in 1..N /\ ~(n <= n - 1)
      BY <1>1, <2>3, <2>4
    <3> HIDE DEF T
    <3> QED BY <2>2, <3>1
  <2>6. at[n - 1] = f[n - 1]
    BY <2>5
  <2>7. at[n] = at[n - 1] + SizeOf(fields[n], m) /\ f[n] = f[n - 1] + SizeOf(fields[n], m)
    BY ONLY <1>6, <1>7, <2>5
  <2> QED BY ONLY <2>3, <2>6, <2>7
<1>9. at[N] = f[N]
  <2>1. N \notin T /\ N \in 0..N
    BY <1>1, <1>8
  <2> QED BY <2>1
<1>10. Scalars(fields, m) = s
  BY ScalarsWritten DEF s, pieces
<1> QED BY <1>4, <1>6, <1>7, <1>9, <1>10

-----------------------------------------------------------------------------
(* Objects of texts, flags and numbers *)

\* m as far as its first i fields go.
Partial(fields, m, i) ==
    [name \in Names(fields) |-> IF \E j \in 1..i : fields[j].name = name THEN m[name] ELSE Cleared(fields)[name]]

\* A new object has every field, and each is unset.
LEMMA ClearedIs ==
    ASSUME NEW fields, Numbered(fields)
    PROVE  /\ Cleared(fields) = [name \in Names(fields) |-> Cleared(fields)[name]]
           /\ \A i \in 1..Len(fields) : fields[i].name \in Names(fields)
           /\ \A i \in 1..Len(fields) : Cleared(fields)[fields[i].name] = Unset(fields[i])
<1> DEFINE Of(name) == Unset(CHOOSE f \in Range(fields) : f.name = name)
<1>1. Cleared(fields) = [name \in Names(fields) |-> Of(name)]
  BY Zenon DEF Cleared
<1>2. Cleared(fields) = [name \in Names(fields) |-> Cleared(fields)[name]]
  <2> HIDE DEF Of
  <2> QED BY <1>1, Zenon
<1>3. \A i \in 1..Len(fields) : fields[i].name \in Names(fields)
  BY DEF Numbered, Names
<1>4. ASSUME NEW i \in 1..Len(fields) PROVE Of(fields[i].name) = Unset(fields[i])
  <2>1. fields[i] \in Range(fields)
    BY DEF Numbered, Range
  <2>2. ASSUME NEW f \in Range(fields), f.name = fields[i].name PROVE f = fields[i]
    <3>1. PICK j \in 1..Len(fields) : f = fields[j]
      BY DEF Numbered, Range
    <3> QED BY <2>2, <3>1 DEF Numbered
  <2>3. (CHOOSE f \in Range(fields) : f.name = fields[i].name) = fields[i]
    BY <2>1, <2>2, Zenon
  <2> QED BY <2>3, Zenon
<1>5. \A i \in 1..Len(fields) : Cleared(fields)[fields[i].name] = Unset(fields[i])
  <2> HIDE DEF Of
  <2> QED BY <1>1, <1>3, <1>4, Zenon
<1> QED BY <1>2, <1>3, <1>5

\* The fields of an object that is partly read.
LEMMA PartialIs ==
    ASSUME NEW fields, NEW m, NEW i
    PROVE  \A name \in Names(fields) :
             Partial(fields, m, i)[name] =
               IF \E j \in 1..i : fields[j].name = name THEN m[name] ELSE Cleared(fields)[name]
BY Zenon DEF Partial

\* Reading a field goes from one partial object to the next, and skipping one that was not written changes nothing.
LEMMA Partials ==
    ASSUME NEW fields, Numbered(fields), NEW m, m = [name \in Names(fields) |-> m[name]]
    PROVE  /\ Partial(fields, m, 0) = Cleared(fields) /\ Partial(fields, m, Len(fields)) = m
           /\ \A i \in 1..Len(fields) :
                /\ Partial(fields, m, i) = [Partial(fields, m, i - 1) EXCEPT ![fields[i].name] = m[fields[i].name]]
                /\ Partial(fields, m, i - 1)[fields[i].name] = Unset(fields[i])
                /\ m[fields[i].name] = Unset(fields[i]) => Partial(fields, m, i) = Partial(fields, m, i - 1)
<1> DEFINE P(i) == Partial(fields, m, i)
           C == Cleared(fields)
           NS == Names(fields)
           N == Len(fields)
<1>1. N \in Nat /\ DOMAIN fields = 1..N
  BY DEF Numbered
<1>2. C = [name \in NS |-> C[name]] /\ \A i \in 1..N : fields[i].name \in NS /\ C[fields[i].name] = Unset(fields[i])
  BY ClearedIs
<1>3. \A i : P(i) = [name \in NS |-> P(i)[name]]
  BY Zenon DEF Partial
<1>4. \A i : \A name \in NS : P(i)[name] = IF \E j \in 1..i : fields[j].name = name THEN m[name] ELSE C[name]
  BY PartialIs
<1>5. \A name \in NS : \E j \in 1..N : fields[j].name = name
  BY <1>1 DEF Names
<1>6. m = [name \in NS |-> m[name]]
  OBVIOUS
<1>7. \A i, j \in 1..N : i /= j => fields[i].name /= fields[j].name
  BY DEF Numbered
<1> HIDE DEF P, C, NS, N
<1>8. P(0) = C
  <2>1. \A name \in NS : P(0)[name] = C[name]
    BY <1>4
  <2> QED BY <1>2, <1>3, <2>1
<1>9. P(N) = m
  <2>1. \A name \in NS : P(N)[name] = m[name]
    BY <1>4, <1>5
  <2> QED BY <1>3, <1>6, <2>1
<1>10. ASSUME NEW i \in 1..N
       PROVE  /\ P(i) = [P(i - 1) EXCEPT ![fields[i].name] = m[fields[i].name]]
              /\ P(i - 1)[fields[i].name] = Unset(fields[i])
              /\ m[fields[i].name] = Unset(fields[i]) => P(i) = P(i - 1)
  <2> DEFINE me == fields[i].name
  <2>1. me \in NS
    BY <1>2
  <2>2. P(i - 1)[me] = Unset(fields[i])
    <3>1. ~\E j \in 1..(i - 1) : fields[j].name = me
      <4>1. \A j \in 1..(i - 1) : j \in 1..N /\ j /= i
        BY <1>1
      <4> QED BY <1>7, <4>1
    <3> QED BY <1>2, <1>4, <2>1, <3>1
  <2>3. P(i)[me] = m[me]
    <3>1. i \in 1..i
      BY <1>1
    <3> QED BY <1>4, <2>1, <3>1
  <2>4. ASSUME NEW name \in NS, name /= me PROVE P(i)[name] = P(i - 1)[name]
    <3>1. (\E j \in 1..i : fields[j].name = name) <=> (\E j \in 1..(i - 1) : fields[j].name = name)
      <4>1. \A j : j \in 1..i <=> j \in 1..(i - 1) \/ j = i
        BY <1>1
      <4> QED BY <2>4, <4>1
    <3> QED BY <1>4, <3>1
  <2> HIDE DEF me
  <2>5. P(i) = [P(i - 1) EXCEPT ![me] = m[me]]
    <3> DEFINE p == P(i - 1)
               q == P(i)
               x == m[me]
    <3>1. p = [name \in NS |-> p[name]] /\ q = [name \in NS |-> q[name]]
      BY <1>3
    <3>2. q[me] = x /\ \A name \in NS : name /= me => q[name] = p[name]
      BY <2>3, <2>4
    <3> HIDE DEF p, q, x
    <3>3. q = [p EXCEPT ![me] = x]
      BY ONLY <2>1, <3>1, <3>2
    <3> QED BY <3>3 DEF p, q, x
  <2>6. ASSUME m[me] = Unset(fields[i]) PROVE P(i) = P(i - 1)
    <3> DEFINE p == P(i - 1)
               q == P(i)
    <3>1. p = [name \in NS |-> p[name]] /\ q = [name \in NS |-> q[name]]
      BY <1>3
    <3>2. q[me] = p[me] /\ \A name \in NS : name /= me => q[name] = p[name]
      BY <2>2, <2>3, <2>4, <2>6
    <3> HIDE DEF p, q
    <3>3. q = p
      BY ONLY <3>1, <3>2
    <3> QED BY <3>3 DEF p, q
  <2> QED BY <2>2, <2>5, <2>6 DEF me
<1> QED BY <1>8, <1>9, <1>10 DEF P, C, NS, N

\* A piece of a layout stands where the layout says.
PieceAt(stream, pieces, at, i) ==
    /\ at[i - 1] \in Nat /\ at[i] \in Nat /\ Len(stream) \in Nat /\ at[i] <= Len(stream)
    /\ Len(pieces[i]) \in Nat /\ at[i] = at[i - 1] + Len(pieces[i])
    /\ Stands(pieces[i], stream, at[i - 1])

\* Each piece of a layout stands where the one before it ends.
LEMMA PieceStands ==
    ASSUME NEW stream, stream \in Seq(Nat), NEW N, N \in Nat, NEW pieces, pieces \in [1..N -> Seq(Nat)], Len(pieces) = N,
           NEW at, Layout(stream, pieces, at)
    PROVE  \A i \in 1..N : PieceAt(stream, pieces, at, i)
<1> SUFFICES ASSUME NEW i \in 1..N PROVE PieceAt(stream, pieces, at, i)
  OBVIOUS
<1>1. /\ at \in [0..N -> 0..Len(stream)]
      /\ at[i] = at[i - 1] + Len(pieces[i])
      /\ \A p \in 1..Len(pieces[i]) : stream[at[i - 1] + p] = pieces[i][p]
  BY DEF Layout
<1>2. i - 1 \in 0..N /\ i \in 0..N /\ Len(stream) \in Nat /\ pieces[i] \in Seq(Nat) /\ Len(pieces[i]) \in Nat
  OBVIOUS
<1>3. at[i - 1] \in 0..Len(stream) /\ at[i] \in 0..Len(stream)
  BY <1>1, <1>2
<1> QED BY <1>1, <1>2, <1>3 DEF Stands, PieceAt

\* What is not set is a text that is not refused.
LEMMA UnsetOk ==
    ASSUME NEW f
    PROVE  TextOk(f, Unset(f))
<1>1. IsUtf8(<<>>)
  BY DEF IsUtf8
<1> QED BY <1>1, UnsetIs DEF TextOk

\* An object that was written is read back, if no text of it is refused.
LEMMA ScalarsBack ==
    ASSUME NEW fields, Plain(fields), NEW m, Holds(fields, m), NEW pieces, WrittenAs(fields, m, pieces),
           NEW stream, stream = FlattenSeq(pieces), Len(stream) < Two28
    PROVE  /\ stream \in Seq(Nat)
           /\ LegibleScalars(fields, m) => MergeScalars(fields, Cleared(fields), stream) = Reading(TRUE, m, Len(stream))
           /\ ~LegibleScalars(fields, m) => MergeScalars(fields, Cleared(fields), stream).ok = FALSE
<1> DEFINE N == Len(fields)
           v(i) == m[fields[i].name]
           st == [i \in 0..N |-> Partial(fields, m, i)]
           Bad == {i \in 1..N : ~TextOk(fields[i], v(i))}
<1>1. Numbered(fields) /\ N \in Nat /\ DOMAIN fields = 1..N
  BY DEF Plain, Numbered
<1>2. pieces \in [1..N -> Seq(Nat)] /\ pieces \in Seq(Seq(Nat)) /\ Len(pieces) = N
  BY DEF WrittenAs
<1>3. stream \in Seq(Nat) /\ \E at : Layout(stream, pieces, at)
  <2> HIDE DEF N
  <2> QED BY <1>1, <1>2, FlattenedLayout
<1>4. PICK at : Layout(stream, pieces, at)
  BY <1>3
<1>5. Len(stream) \in Nat /\ at[0] = 0 /\ at[N] = Len(stream)
  BY <1>2, <1>3, <1>4 DEF Layout
<1>6. PICK read : /\ Reads(read, TRUE, fields, Cleared(fields), stream)
                  /\ MergeScalars(fields, Cleared(fields), stream) = AtEnd(read, stream)
  BY <1>5, MergeScalarsReads
<1>7. st[0] = Cleared(fields) /\ st[N] = m
  <2>1. 0 \in 0..N /\ N \in 0..N
    BY <1>1
  <2>2. Partial(fields, m, 0) = Cleared(fields) /\ Partial(fields, m, N) = m
    <3>1. m = [name \in Names(fields) |-> m[name]] /\ Numbered(fields)
      BY <1>1 DEF Holds
    <3> QED BY ONLY <3>1, Partials DEF N
  <2> QED BY <2>1, <2>2
<1>8. ASSUME NEW i \in 1..N
      PROVE  /\ st[i] = [st[i - 1] EXCEPT ![fields[i].name] = v(i)]
             /\ v(i) = Unset(fields[i]) => st[i] = st[i - 1]
  <2>1. i \in 0..N /\ i - 1 \in 0..N
    BY <1>1
  <2>2. st[i] = Partial(fields, m, i) /\ st[i - 1] = Partial(fields, m, i - 1)
    BY <2>1
  <2>3. /\ Partial(fields, m, i) = [Partial(fields, m, i - 1) EXCEPT ![fields[i].name] = m[fields[i].name]]
        /\ m[fields[i].name] = Unset(fields[i]) => Partial(fields, m, i) = Partial(fields, m, i - 1)
    <3>1. m = [name \in Names(fields) |-> m[name]] /\ Numbered(fields) /\ i \in 1..Len(fields)
      BY <1>1 DEF Holds
    <3> QED BY ONLY <3>1, Partials
  <2> HIDE DEF st
  <2> QED BY <2>2, <2>3
<1>9. Bad \subseteq 1..N /\ (Bad = {} <=> LegibleScalars(fields, m))
  BY <1>1, Zenon DEF LegibleScalars, TextOk
<1> HIDE DEF st
<1>10. Reached(read, stream, st[0], at[0])
  <2>1. 0 \in 0..Len(stream) /\ 0 <= at[0] /\ \A j : j \notin 0..(0 - 1)
    BY <1>5
  <2>2. read[0] = Reading(TRUE, st[0], at[0])
    BY <1>5, <1>6, <1>7 DEF Reads
  <2> QED BY <2>1, <2>2, Zenon DEF Reached
<1>11. ASSUME NEW i \in 1..N, Reached(read, stream, st[i - 1], at[i - 1])
       PROVE  IF i \in Bad THEN Failed(read, stream) ELSE Reached(read, stream, st[i], at[i])
  <2> DEFINE f == fields[i]
             x == v(i)
             piece == pieces[i]
             from == at[i - 1]
             next == NextScalar(fields, stream, Reading(TRUE, st[i - 1], from))
  <2>1. /\ from \in Nat /\ at[i] \in Nat /\ at[i] <= Len(stream) /\ Len(piece) \in Nat /\ at[i] = from + Len(piece)
        /\ Stands(piece, stream, from)
    <3>1. PieceAt(stream, pieces, at, i)
      <4> HIDE DEF N
      <4> QED BY <1>1, <1>2, <1>3, <1>4, PieceStands
    <3> QED BY <3>1 DEF PieceAt
  <2>2. f.number \in 1..15 /\ f.kind \in {"string", "bool", "number"} /\ Value(f, x) /\ Written(f, x, piece)
    BY DEF Plain, Numbered, Holds, WrittenAs
  <2>3. i \in Bad <=> ~TextOk(f, x)
    OBVIOUS
  <2>4. CASE piece = <<>> /\ x = Unset(f)
    <3>1. Len(piece) = 0
      BY <2>4
    <3>2. at[i] = from
      BY <2>1, <3>1
    <3>3. st[i] = st[i - 1]
      BY <1>8, <2>4
    <3>4. i \notin Bad
      BY <2>3, <2>4, UnsetOk
    <3> QED BY <1>11, <3>2, <3>3, <3>4
  <2>5. CASE piece = Scalar(f, x) /\ (f.kind = "bool" => x = TRUE)
    <3>1. /\ TextOk(f, x) => next = Reading(TRUE, [st[i - 1] EXCEPT ![f.name] = x], from + Len(Scalar(f, x)))
          /\ ~TextOk(f, x) => next.ok = FALSE
      <4>1. Stands(Scalar(fields[i], x), stream, from) /\ Value(fields[i], x) /\ (fields[i].kind = "bool" => x = TRUE)
        BY <2>1, <2>2, <2>5
      <4> HIDE DEF x, from, N
      <4>2. i \in 1..Len(fields)
        BY DEF N
      <4> DEFINE p == st[i - 1]
      <4> HIDE DEF p
      <4>3. Numbered(fields) /\ fields[i].kind \in {"string", "bool", "number"} /\ TRUE \in BOOLEAN
        BY <4>2 DEF Plain
      <4>4. Came(NextOf(TRUE, fields, stream, Reading(TRUE, p, from)), fields[i], x, p, from + Len(Scalar(fields[i], x)))
        BY ONLY <4>1, <4>2, <4>3, Len(stream) < Two28, ScalarBack
      <4> QED BY ONLY <4>4, Zenon DEF next, f, p, Came, NextOf
    <3>2. TextOk(f, x) => next = Reading(TRUE, st[i], at[i])
      BY <1>8, <2>1, <2>5, <3>1
    <3>3. from < at[i] /\ from < Len(stream)
      <4>1. Len(Scalar(f, x)) > 0
        BY <2>2, ScalarWritten
      <4>2. Len(piece) > 0
        BY <2>5, <4>1
      <4> HIDE DEF from, piece
      <4> QED BY ONLY <1>5, <2>1, <4>2
    <3>4. \A k \in 1..Len(stream) : read[k - 1] = Reading(TRUE, st[i - 1], from) => read[k] = next
      <4>1. \A k \in 1..Len(stream) : read[k] = NextScalar(fields, stream, read[k - 1])
        BY <1>6 DEF Reads, NextOf
      <4> QED BY <4>1, Zenon
    <3> HIDE DEF next, from
    <3>5. /\ next.ok = FALSE => Failed(read, stream)
          /\ \A q, to : to \in Nat /\ from < to /\ next = Reading(TRUE, q, to) => Reached(read, stream, q, to)
      <4>1. Reached(read, stream, st[i - 1], from)
        BY <1>11 DEF from
      <4> QED BY ONLY <1>5, <2>1, <3>3, <3>4, <4>1, ReadOn
    <3> HIDE DEF Bad, x, f
    <3> QED BY <2>1, <2>3, <3>1, <3>2, <3>3, <3>5
  <2> QED BY <2>2, <2>4, <2>5 DEF Written
<1>12. /\ Bad = {} => Reached(read, stream, st[N], at[N])
       /\ Bad /= {} => Failed(read, stream)
  <2> HIDE DEF Bad, N
  <2> QED BY <1>1, <1>9, <1>10, <1>11, ReadThrough
<1>13. DOMAIN read = 0..Len(stream)
  BY <1>6 DEF Reads
<1>14. /\ Reached(read, stream, m, Len(stream)) => AtEnd(read, stream) = Reading(TRUE, m, Len(stream))
       /\ Failed(read, stream) => AtEnd(read, stream).ok = FALSE
  BY <1>5, <1>13, ReadEnds
<1> HIDE DEF Bad, N
<1> QED BY <1>3, <1>5, <1>6, <1>7, <1>9, <1>12, <1>14

-----------------------------------------------------------------------------
(* Submessages and maps *)

\* A submessage and the text in front of it.
LEMMA MessageIs ==
    ASSUME NEW f, f.kind = "message", f.number \in 1..15, Plain(f.of), NEW c, Holds(f.of, c), NEW pairs
    PROVE  /\ FieldBytes(f, <<c>>, pairs)
                = <<8 * f.number + 2>> \o (Varint(Len(Scalars(f.of, c))) \o Scalars(f.of, c))
           /\ Scalars(f.of, c) \in Seq(Nat) /\ 8 * f.number + 2 \in 8..127 /\ (8 * f.number + 2) % 8 = 2
           /\ WireType(f.kind) = 2
<1>1. WireType(f.kind) = 2
  BY DEF WireType
<1>2. FieldBytes(f, <<c>>, pairs) = Tag(f) \o (Varint(ByteSizeLong(f.of, <<c>>[1])) \o Scalars(f.of, <<c>>[1]))
  BY Zenon DEF FieldBytes
<1>3. <<c>>[1] = c
  OBVIOUS
<1>4. Tag(f) = <<8 * f.number + 2>>
  BY <1>1, Zenon DEF Tag
<1>5. Scalars(f.of, c) \in Seq(Nat) /\ ByteSizeLong(f.of, c) = Len(Scalars(f.of, c))
  BY SizeIsLength
<1>6. 8 * f.number + 2 \in 8..127 /\ (8 * f.number + 2) % 8 = 2
  <2> DEFINE x == f.number
  <2>1. x \in 1..15
    OBVIOUS
  <2> HIDE DEF x
  <2>2. 8 * x + 2 \in 8..127 /\ (8 * x + 2) % 8 = 2
    BY <2>1
  <2> QED BY <2>2 DEF x
<1> QED BY <1>1, <1>2, <1>3, <1>4, <1>5, <1>6, Zenon

\* What reading makes of a value: the object with it, if no text of it is refused.
Went(next, ok, f, v, p, to) ==
    /\ ok => next = Reading(TRUE, [p EXCEPT ![f.name] = v], to)
    /\ ~ok => next.ok = FALSE

\* A submessage that was written is taken back if its texts are UTF-8, and refused if not.
LEMMA MessageBack ==
    ASSUME NEW fields, Numbered(fields), NEW i, i \in 1..Len(fields), fields[i].kind = "message", Plain(fields[i].of),
           NEW c, Holds(fields[i].of, c), NEW pairs,
           NEW stream, Len(stream) < Two28, NEW at, Stands(FieldBytes(fields[i], <<c>>, pairs), stream, at),
           NEW p, p[fields[i].name] = <<>>
    PROVE  Went(NextField(fields, stream, Reading(TRUE, p, at)), LegibleScalars(fields[i].of, c), fields[i], <<c>>, p,
                at + Len(FieldBytes(fields[i], <<c>>, pairs)))
<1> DEFINE f == fields[i]
           text == Scalars(f.of, c)
           tag == 8 * f.number + 2
           all == FieldBytes(f, <<c>>, pairs)
           item == ItemAt(stream, at)
           next == NextField(fields, stream, Reading(TRUE, p, at))
           inner == MergeScalars(f.of, Cleared(f.of), text)
<1>1. f.kind = "message" /\ f.number \in 1..15 /\ Plain(f.of) /\ Holds(f.of, c) /\ p[f.name] = <<>>
  BY DEF Numbered
<1>2. /\ all = <<tag>> \o (Varint(Len(text)) \o text) /\ text \in Seq(Nat)
      /\ tag \in 8..127 /\ tag % 8 = 2 /\ WireType(f.kind) = 2
  <2> HIDE DEF f
  <2> QED BY <1>1, MessageIs
<1>3. Stands(all, stream, at)
  OBVIOUS
<1>4. Len(stream) \in Nat /\ at \in Nat /\ Len(all) \in Nat /\ at + Len(all) <= Len(stream)
  <2> HIDE DEF all
  <2> QED BY <1>3 DEF Stands
<1>5. Len(text) < Two28
  <2> HIDE DEF text, tag, all
  <2>1. tag \in Nat
    <3>1. tag \in 8..127
      BY <1>2
    <3> QED BY ONLY <3>1
  <2>2. Len(all) = 1 + (Len(Varint(Len(text))) + Len(text)) /\ Len(text) \in Nat /\ Len(Varint(Len(text))) \in 1..4
    BY ONLY <1>2, <2>1, TextWritten
  <2>3. Two28 \in Nat
    BY SMT DEF Two28
  <2> QED BY <1>4, <2>2, <2>3
<1> HIDE DEF all
<1>6. item = [ok |-> TRUE, tag |-> tag, value |-> Len(text), content |-> text, end |-> at + Len(all)]
  <2> HIDE DEF text, tag
  <2>1. Stands(<<tag>> \o (Varint(Len(text)) \o text), stream, at)
    BY <1>2, <1>3
  <2> QED BY ONLY <1>2, <1>5, <2>1, TextBack DEF item
<1>7. item.ok = TRUE /\ item.tag = 8 * f.number + WireType(f.kind) /\ item.content = text /\ item.end = at + Len(all)
  <2> HIDE DEF item, text
  <2> QED BY <1>2, <1>6
<1>8. Took(next, SetField(f, p, item), item.end)
  <2>1. item = ItemAt(stream, at)
    OBVIOUS
  <2> HIDE DEF item
  <2> QED BY ONLY Numbered(fields), i \in 1..Len(fields), <1>7, <2>1, FieldRead DEF next, f
<1> HIDE DEF item, text, next
<1>9. SetField(f, p, item) = Parsed(inner.ok, [p EXCEPT ![f.name] = <<inner.m>>])
  <2> HIDE DEF f
  <2> QED BY <1>1, <1>7, Zenon DEF SetField
<1>10. /\ LegibleScalars(f.of, c) => inner = Reading(TRUE, c, Len(text))
       /\ ~LegibleScalars(f.of, c) => inner.ok = FALSE
  <2>1. text = FlattenSeq(ScalarPieces(f.of, c)) /\ WrittenAs(f.of, c, ScalarPieces(f.of, c))
    BY <1>1, ScalarsWritten DEF text
  <2> DEFINE pieces == ScalarPieces(f.of, c)
             of == f.of
  <2> HIDE DEF pieces, of, f
  <2>2. Plain(of) /\ Holds(of, c)
    BY <1>1 DEF of
  <2>3. text = FlattenSeq(pieces) /\ WrittenAs(of, c, pieces)
    BY <2>1 DEF of, pieces
  <2>4. /\ LegibleScalars(of, c) => MergeScalars(of, Cleared(of), text) = Reading(TRUE, c, Len(text))
        /\ ~LegibleScalars(of, c) => MergeScalars(of, Cleared(of), text).ok = FALSE
    BY ONLY <1>5, <2>2, <2>3, ScalarsBack
  <2> QED BY <2>4 DEF of
<1> HIDE DEF inner
<1>11. ASSUME LegibleScalars(f.of, c) PROVE next = Reading(TRUE, [p EXCEPT ![f.name] = <<c>>], at + Len(all))
  <2>1. inner.ok = TRUE /\ inner.m = c
    BY <1>10, <1>11 DEF Reading
  <2> DEFINE q == Parsed(TRUE, [p EXCEPT ![f.name] = <<c>>])
  <2>2. q.ok = TRUE /\ q.m = [p EXCEPT ![f.name] = <<c>>]
    BY Zenon DEF Parsed
  <2>3. SetField(f, p, item) = q
    BY <1>9, <2>1, Zenon
  <2> HIDE DEF q
  <2> QED BY <1>7, <1>8, <2>2, <2>3, Zenon DEF Took
<1>12. ASSUME ~LegibleScalars(f.of, c) PROVE next.ok = FALSE
  <2>1. inner.ok = FALSE
    BY <1>10, <1>12
  <2> DEFINE q == Parsed(FALSE, [p EXCEPT ![f.name] = <<inner.m>>])
  <2>2. q.ok = FALSE
    BY Zenon DEF Parsed
  <2>3. SetField(f, p, item) = q
    BY <1>9, <2>1, Zenon
  <2> HIDE DEF q
  <2>4. next = Reading(FALSE, q.m, item.end)
    BY <1>8, <2>2, <2>3, Zenon DEF Took
  <2> QED BY <2>4, Zenon DEF Reading
<1> QED BY <1>11, <1>12, Zenon DEF Went, next, f, all

\* A sequence of two fields.
LEMMA EntryIs ==
    /\ Len(Entry) = 2 /\ DOMAIN Entry = 1..2 /\ Plain(Entry) /\ Names(Entry) = {"key", "value"}
    /\ Entry[1].name = "key" /\ Entry[2].name = "value" /\ Entry[1].kind = "string" /\ Entry[2].kind = "string"
<1>1. Len(Entry) = 2 /\ DOMAIN Entry = 1..2
  BY DEF Entry
<1>2. /\ Entry[1].name = "key" /\ Entry[2].name = "value" /\ Entry[1].kind = "string" /\ Entry[2].kind = "string"
      /\ Entry[1].number = 1 /\ Entry[2].number = 2
  BY DEF Entry, Field
<1>3. \A i : i \in 1..2 <=> i = 1 \/ i = 2
  OBVIOUS
<1> HIDE DEF Entry
<1>4. Names(Entry) = {"key", "value"}
  BY <1>1, <1>2, <1>3 DEF Names
<1>5. Numbered(Entry)
  <2>1. \A i \in 1..2 : Entry[i].number \in 1..15
    BY <1>2, <1>3
  <2>2. \A i, j \in 1..2 : i /= j => Entry[i].number /= Entry[j].number /\ Entry[i].name /= Entry[j].name
    BY <1>2, <1>3
  <2>3. 2 \in Nat
    OBVIOUS
  <2> QED BY <1>1, <2>1, <2>2, <2>3, Zenon DEF Numbered
<1>6. \A i \in 1..2 : Entry[i].kind \in {"string", "bool", "number"}
  BY <1>2, <1>3
<1> QED BY <1>1, <1>2, <1>4, <1>5, <1>6, Zenon DEF Plain

\* An entry of a map is an object of two texts.
EntryOf(pair) == [key |-> pair[1], value |-> pair[2]]
\* What is written for one entry of a map.
IsEntry(m, pair, text) ==
    /\ m.key = pair[1] /\ m.value = pair[2] /\ Holds(Entry, m)
    /\ LegibleScalars(Entry, m) <=> IsUtf8(pair[1]) /\ IsUtf8(pair[2])
    /\ text \in Seq(Nat) /\ \E pieces : text = FlattenSeq(pieces) /\ WrittenAs(Entry, m, pieces)

\* An entry of a map is written as its key and its value, also when they are empty.
LEMMA EntryWritten ==
    ASSUME NEW pair, pair[1] \in Seq(Nat), pair[2] \in Seq(Nat), NEW text, text = EntryBytes(pair)
    PROVE  IsEntry(EntryOf(pair), pair, text)
<1> DEFINE m == EntryOf(pair)
           pieces == [i \in DOMAIN Entry |-> Scalar(Entry[i], pair[i])]
<1>1. \A i : i \in 1..2 <=> i = 1 \/ i = 2
  OBVIOUS
<1>2. m = [name \in {"key", "value"} |-> m[name]] /\ m["key"] = pair[1] /\ m["value"] = pair[2]
  BY DEF EntryOf
<1>3. m.key = pair[1] /\ m.value = pair[2]
  BY DEF EntryOf
<1> HIDE DEF m
<1>4. \A i \in 1..2 : m[Entry[i].name] = pair[i] /\ Value(Entry[i], pair[i])
  BY <1>1, <1>2, EntryIs DEF Value
<1>5. Holds(Entry, m)
  BY <1>2, <1>4, EntryIs DEF Holds
<1>6. pieces = [i \in 1..2 |-> Scalar(Entry[i], pair[i])]
  BY EntryIs, Zenon
<1>7. DOMAIN pieces = 1..2 /\ pieces = [i \in 1..2 |-> pieces[i]] /\ \A i \in 1..2 : pieces[i] = Scalar(Entry[i], pair[i])
  <2> HIDE DEF pieces
  <2> QED BY <1>6, Zenon
<1>8. text = FlattenSeq(pieces)
  BY Zenon DEF EntryBytes
<1> HIDE DEF pieces
<1>9. ASSUME NEW i \in 1..2 PROVE pieces[i] \in Seq(Nat) /\ Written(Entry[i], m[Entry[i].name], pieces[i])
  <2> DEFINE f == Entry[i]
             v == pair[i]
  <2>1. f.number \in 1..15 /\ f.kind \in {"string", "bool", "number"} /\ Value(f, v) /\ f.kind /= "bool"
    BY <1>1, <1>4, EntryIs DEF Plain, Numbered
  <2> HIDE DEF f, v
  <2>2. Scalar(f, v) \in Seq(Nat)
    BY <2>1, ScalarWritten
  <2>3. Written(f, v, Scalar(f, v))
    BY <2>1, Zenon DEF Written
  <2>4. pieces[i] = Scalar(f, v) /\ m[f.name] = v
    BY <1>4, <1>7 DEF f, v
  <2>5. pieces[i] \in Seq(Nat) /\ Written(f, m[f.name], pieces[i])
    BY <2>2, <2>3, <2>4
  <2> QED BY <2>5 DEF f
<1>10. WrittenAs(Entry, m, pieces)
  <2>1. pieces \in [1..2 -> Seq(Nat)] /\ pieces \in Seq(Seq(Nat)) /\ Len(pieces) = 2
    <3>1. 2 \in Nat /\ \A i \in 1..2 : pieces[i] \in Seq(Nat)
      BY <1>9
    <3> QED BY <1>7, <3>1, PiecesAre
  <2> QED BY <1>9, <2>1, EntryIs, Zenon DEF WrittenAs
<1>11. text \in Seq(Nat)
  <2>1. pieces \in [1..2 -> Seq(Nat)] /\ pieces \in Seq(Seq(Nat)) /\ Len(pieces) = 2 /\ 2 \in Nat
    BY <1>10, EntryIs DEF WrittenAs
  <2> QED BY <1>8, <2>1, FlattenedLayout
<1>12. LegibleScalars(Entry, m) <=> IsUtf8(pair[1]) /\ IsUtf8(pair[2])
  <2>1. LegibleScalars(Entry, m) <=> IsUtf8(m[Entry[1].name]) /\ IsUtf8(m[Entry[2].name])
    BY <1>1, EntryIs, Zenon DEF LegibleScalars
  <2>2. m[Entry[1].name] = pair[1] /\ m[Entry[2].name] = pair[2]
    BY <1>1, <1>4
  <2> QED BY <2>1, <2>2, Zenon
<1> QED BY <1>3, <1>5, <1>8, <1>10, <1>11, <1>12, Zenon DEF IsEntry, m

\* It is read back.
LEMMA EntryBack ==
    ASSUME NEW pair, pair[1] \in Seq(Nat), pair[2] \in Seq(Nat), NEW text, text = EntryBytes(pair), Len(text) < Two28
    PROVE  LET inner == MergeScalars(Entry, Cleared(Entry), text)
               ok == IsUtf8(pair[1]) /\ IsUtf8(pair[2])
           IN /\ ok => inner.ok = TRUE /\ inner.m.key = pair[1] /\ inner.m.value = pair[2]
              /\ ~ok => inner.ok = FALSE
<1> DEFINE m == EntryOf(pair)
           inner == MergeScalars(Entry, Cleared(Entry), text)
<1>1. IsEntry(m, pair, text)
  BY EntryWritten
<1> HIDE DEF m
<1>2. PICK pieces : text = FlattenSeq(pieces) /\ WrittenAs(Entry, m, pieces)
  BY <1>1 DEF IsEntry
<1>3. Holds(Entry, m) /\ Plain(Entry)
  BY <1>1, EntryIs DEF IsEntry
<1>4. /\ LegibleScalars(Entry, m) => inner = Reading(TRUE, m, Len(text))
      /\ ~LegibleScalars(Entry, m) => inner.ok = FALSE
  BY ONLY <1>2, <1>3, Len(text) < Two28, ScalarsBack
<1>5. Reading(TRUE, m, Len(text)).ok = TRUE /\ Reading(TRUE, m, Len(text)).m = m
  BY Zenon DEF Reading
<1> HIDE DEF inner
<1> QED BY <1>1, <1>4, <1>5, Zenon DEF inner, IsEntry

\* The item of an entry adds a pair to the map.
LEMMA PairRead ==
    ASSUME NEW fields, Numbered(fields), NEW i, i \in 1..Len(fields), fields[i].kind = "map", fields[i].of = Entry,
           NEW pair, pair[1] \in Seq(Nat), pair[2] \in Seq(Nat),
           NEW stream, Len(stream) < Two28, NEW at, Stands(Tag(fields[i]) \o Sized(EntryBytes(pair)), stream, at), NEW p
    PROVE  Went(NextField(fields, stream, Reading(TRUE, p, at)), IsUtf8(pair[1]) /\ IsUtf8(pair[2]), fields[i],
                Put(p[fields[i].name], pair[1], pair[2]), p, at + Len(Tag(fields[i]) \o Sized(EntryBytes(pair))))
<1> DEFINE f == fields[i]
           text == EntryBytes(pair)
           tag == 8 * f.number + 2
           all == Tag(f) \o Sized(text)
           item == ItemAt(stream, at)
           next == NextField(fields, stream, Reading(TRUE, p, at))
           inner == MergeScalars(Entry, Cleared(Entry), text)
           ok == IsUtf8(pair[1]) /\ IsUtf8(pair[2])
           more == Put(p[f.name], pair[1], pair[2])
<1>1. f.kind = "map" /\ f.number \in 1..15 /\ f.of = Entry
  BY DEF Numbered
<1>2. WireType(f.kind) = 2 /\ tag = 8 * f.number + WireType(f.kind) /\ tag \in 8..127 /\ tag % 8 = 2
  <2>1. WireType(f.kind) = 2
    BY <1>1 DEF WireType
  <2>2. 8 * f.number + WireType(f.kind) \in 8..127 /\ (8 * f.number + WireType(f.kind)) % 8 = WireType(f.kind)
    BY <1>1, TagIs
  <2> HIDE DEF f
  <2> QED BY <2>1, <2>2
<1>3. all = <<tag>> \o (Varint(Len(text)) \o text)
  BY <1>2, Zenon DEF Tag, Sized
<1>4. text \in Seq(Nat)
  BY EntryWritten DEF IsEntry
<1>5. Stands(all, stream, at)
  OBVIOUS
<1>6. Len(stream) \in Nat /\ at \in Nat /\ Len(all) \in Nat /\ at + Len(all) <= Len(stream)
  <2> HIDE DEF all
  <2> QED BY <1>5 DEF Stands
<1>7. Len(text) < Two28
  <2> HIDE DEF text, tag, all
  <2>1. tag \in Nat
    <3>1. tag \in 8..127
      BY <1>2
    <3> QED BY ONLY <3>1
  <2>2. Len(all) = 1 + (Len(Varint(Len(text))) + Len(text)) /\ Len(text) \in Nat /\ Len(Varint(Len(text))) \in 1..4
    BY ONLY <1>3, <1>4, <2>1, TextWritten
  <2>3. Two28 \in Nat
    BY SMT DEF Two28
  <2> QED BY <1>6, <2>2, <2>3
<1> HIDE DEF all
<1>8. item = [ok |-> TRUE, tag |-> tag, value |-> Len(text), content |-> text, end |-> at + Len(all)]
  <2> HIDE DEF text, tag
  <2>1. Stands(<<tag>> \o (Varint(Len(text)) \o text), stream, at)
    BY <1>3, <1>5
  <2> QED BY ONLY <1>2, <1>3, <1>4, <1>7, <2>1, TextBack DEF item
<1>9. item.ok = TRUE /\ item.tag = 8 * f.number + WireType(f.kind) /\ item.content = text /\ item.end = at + Len(all)
  <2> HIDE DEF item, text
  <2> QED BY <1>2, <1>8
<1>10. Took(next, SetField(f, p, item), item.end)
  <2>1. item = ItemAt(stream, at)
    OBVIOUS
  <2> HIDE DEF item
  <2> QED BY ONLY Numbered(fields), i \in 1..Len(fields), <1>9, <2>1, FieldRead DEF next, f
<1>11. /\ ok => inner.ok = TRUE /\ inner.m.key = pair[1] /\ inner.m.value = pair[2]
       /\ ~ok => inner.ok = FALSE
  <2> HIDE DEF ok
  <2> QED BY <1>7, EntryBack DEF ok
<1> HIDE DEF item, text, next, ok
<1>12. SetField(f, p, item) =
         Parsed(inner.ok, IF inner.ok THEN [p EXCEPT ![f.name] = Put(p[f.name], inner.m.key, inner.m.value)] ELSE p)
  <2> HIDE DEF f
  <2> QED BY <1>1, <1>9, Zenon DEF SetField
<1> HIDE DEF inner
<1>13. ASSUME ok PROVE next = Reading(TRUE, [p EXCEPT ![f.name] = more], at + Len(all))
  <2> DEFINE q == Parsed(TRUE, [p EXCEPT ![f.name] = more])
  <2>1. q.ok = TRUE /\ q.m = [p EXCEPT ![f.name] = more]
    BY Zenon DEF Parsed
  <2>2. SetField(f, p, item) = q
    BY <1>11, <1>12, <1>13, Zenon
  <2> HIDE DEF q
  <2> QED BY <1>9, <1>10, <2>1, <2>2, Zenon DEF Took
<1>14. ASSUME ~ok PROVE next.ok = FALSE
  <2> DEFINE q == Parsed(FALSE, p)
  <2>1. q.ok = FALSE
    BY Zenon DEF Parsed
  <2>2. SetField(f, p, item) = q
    BY <1>11, <1>12, <1>14, Zenon
  <2> HIDE DEF q
  <2>3. next = Reading(FALSE, q.m, item.end)
    BY <1>10, <2>1, <2>2, Zenon DEF Took
  <2> QED BY <2>3, Zenon DEF Reading
<1> QED BY <1>13, <1>14, Zenon DEF Went, next, f, all, ok, text

\* One item further.
GoesOn(read, stream, ok, f, v, p, to) ==
    /\ ok => Reached(read, stream, [p EXCEPT ![f.name] = v], to)
    /\ ~ok => Failed(read, stream)

\* What one more item makes of the object.
LEMMA ItemRead ==
    ASSUME NEW fields, NEW m, NEW stream, Len(stream) \in Nat, NEW read, Reads(read, FALSE, fields, m, stream),
           NEW p, NEW at, NEW to, at \in Nat, to \in Nat, at < to, to <= Len(stream), Reached(read, stream, p, at),
           NEW ok, NEW f, NEW v, Went(NextField(fields, stream, Reading(TRUE, p, at)), ok, f, v, p, to)
    PROVE  GoesOn(read, stream, ok, f, v, p, to)
<1> DEFINE next == NextField(fields, stream, Reading(TRUE, p, at))
           after == [p EXCEPT ![f.name] = v]
<1>1. \A k \in 1..Len(stream) : read[k - 1] = Reading(TRUE, p, at) => read[k] = next
  <2>1. \A k \in 1..Len(stream) : read[k] = NextField(fields, stream, read[k - 1])
    BY DEF Reads, NextOf
  <2> QED BY <2>1, Zenon
<1>2. (ok => next = Reading(TRUE, after, to)) /\ (~ok => next.ok = FALSE)
  BY Zenon DEF Went
<1>3. at < Len(stream)
  BY ONLY Len(stream) \in Nat, at \in Nat, to \in Nat, at < to, to <= Len(stream)
<1> HIDE DEF next, after
<1>4. /\ next.ok = FALSE => Failed(read, stream)
      /\ \A q, t : t \in Nat /\ at < t /\ next = Reading(TRUE, q, t) => Reached(read, stream, q, t)
  BY <1>1, <1>3, ReadOn
<1>5. ok => Reached(read, stream, after, to)
  BY <1>2, <1>4
<1>6. ~ok => Failed(read, stream)
  BY <1>2, <1>4
<1> QED BY <1>5, <1>6, Zenon DEF after, GoesOn

\* What is written for a pair.
PairText(f, pair) == Tag(f) \o Sized(EntryBytes(pair))

\* It is not empty, so reading it moves on.
LEMMA PairWritten ==
    ASSUME NEW f, f.kind = "map", f.number \in 1..15, NEW pair, pair[1] \in Seq(Nat), pair[2] \in Seq(Nat)
    PROVE  PairText(f, pair) \in Seq(Nat) /\ Len(PairText(f, pair)) \in Nat /\ Len(PairText(f, pair)) > 0
<1> DEFINE text == EntryBytes(pair)
           tag == 8 * f.number + WireType(f.kind)
<1>1. tag \in Nat
  <2>1. tag \in 8..127
    BY TagIs
  <2> HIDE DEF tag
  <2> QED BY <2>1
<1>2. text \in Seq(Nat)
  BY EntryWritten DEF IsEntry
<1>3. PairText(f, pair) = <<tag>> \o (Varint(Len(text)) \o text)
  BY Zenon DEF PairText, Tag, Sized
<1> HIDE DEF tag, text
<1>4. /\ <<tag>> \o (Varint(Len(text)) \o text) \in Seq(Nat) /\ Len(text) \in Nat
      /\ Len(<<tag>> \o (Varint(Len(text)) \o text)) = 1 + (Len(Varint(Len(text))) + Len(text))
      /\ Len(Varint(Len(text))) \in 1..4
  BY <1>1, <1>2, TextWritten
<1> QED BY <1>3, <1>4

\* A part of a text that stands somewhere.
LEMMA StandsWithin ==
    ASSUME NEW all, NEW stream, NEW at, Stands(all, stream, at), NEW pieces, NEW places, NEW i,
           PieceAt(all, pieces, places, i)
    PROVE  /\ at + places[i - 1] \in Nat /\ at + places[i] \in Nat /\ at + places[i] <= Len(stream)
           /\ at + places[i] = (at + places[i - 1]) + Len(pieces[i])
           /\ Stands(pieces[i], stream, at + places[i - 1])
<1> DEFINE t == pieces[i]
           n == Len(t)
           x == places[i - 1]
           y == places[i]
           L == Len(all)
           M == Len(stream)
<1>1. /\ stream \in Seq(Nat) /\ at \in Nat /\ M \in Nat /\ at + L <= M /\ L \in Nat
      /\ \A p \in 1..L : stream[at + p] = all[p]
  BY DEF Stands
<1>2. /\ t \in Seq(Nat) /\ x \in Nat /\ y \in Nat /\ y <= L /\ n \in Nat /\ y = x + n
      /\ \A p \in 1..n : all[x + p] = t[p]
  BY DEF PieceAt, Stands
<1> HIDE DEF t, n, x, y, L, M
<1>3. at + x \in Nat /\ at + y \in Nat /\ at + y <= M /\ at + y = (at + x) + n /\ (at + x) + n <= M
  BY <1>1, <1>2
<1>4. ASSUME NEW p \in 1..n PROVE stream[(at + x) + p] = t[p]
  <2>1. x + p \in 1..L /\ at + (x + p) = (at + x) + p
    BY <1>1, <1>2
  <2> QED BY <1>1, <1>2, <2>1
<1> QED BY <1>1, <1>2, <1>3, <1>4 DEF Stands, t, n, x, y, M

\* Maps of texts, and the pairs of one that have been read.
IsMap(v) ==
    /\ IsFiniteSet(v) /\ v \subseteq Seq(Nat) \X Seq(Nat)
    /\ \A p, r \in v : p[1] = r[1] => p = r
\* The first pairs of an order.
Firsts(pairs, j) == {pairs[k] : k \in 1..j}

\* An order of a map has every pair once, and taking the pairs in it builds the map.
LEMMA OneMore ==
    ASSUME NEW v, IsMap(v), NEW pairs, pairs \in SetToSeqs(v), NEW N, N = Cardinality(v)
    PROVE  /\ N \in Nat /\ Len(pairs) = N /\ DOMAIN pairs = 1..N
           /\ \A j \in 1..N : pairs[j] \in v /\ pairs[j][1] \in Seq(Nat) /\ pairs[j][2] \in Seq(Nat)
           /\ \A q \in v : \E j \in 1..N : pairs[j] = q
           /\ Firsts(pairs, 0) = {} /\ Firsts(pairs, N) = v
           /\ \A j \in 1..N : Put(Firsts(pairs, j - 1), pairs[j][1], pairs[j][2]) = Firsts(pairs, j)
<1>1. /\ N \in Nat /\ pairs \in [1..N -> v] /\ Len(pairs) = N
      /\ \A i, j \in 1..N : pairs[i] = pairs[j] => i = j
      /\ \A q \in v : \E j \in 1..N : pairs[j] = q
  BY OrderHasAll DEF IsMap
<1>2. /\ DOMAIN pairs = 1..N /\ \A j \in 1..N : pairs[j] \in v
  BY <1>1
<1>3. \A q \in v : q[1] \in Seq(Nat) /\ q[2] \in Seq(Nat) /\ q = <<q[1], q[2]>>
  BY DEF IsMap
<1>4. Firsts(pairs, 0) = {}
  BY DEF Firsts
<1>5. Firsts(pairs, N) = v
  BY <1>1, <1>2 DEF Firsts
<1>6. ASSUME NEW j \in 1..N PROVE Put(Firsts(pairs, j - 1), pairs[j][1], pairs[j][2]) = Firsts(pairs, j)
  <2> DEFINE new == pairs[j]
  <2>1. new \in v /\ <<new[1], new[2]>> = new
    BY <1>2, <1>3
  <2>2. ASSUME NEW q \in Firsts(pairs, j - 1) PROVE q[1] /= new[1]
    <3>1. PICK k \in 1..(j - 1) : q = pairs[k]
      BY DEF Firsts
    <3>2. k \in 1..N /\ k /= j
      BY <1>1
    <3>3. q \in v /\ q /= new
      BY <1>1, <1>2, <3>1, <3>2
    <3> HIDE DEF new
    <3> QED BY <2>1, <3>3 DEF IsMap
  <2>3. Firsts(pairs, j) = Firsts(pairs, j - 1) \union {new}
    <3>1. \A k : k \in 1..j <=> k \in 1..(j - 1) \/ k = j
      BY <1>1
    <3> QED BY <3>1 DEF Firsts
  <2> HIDE DEF new
  <2> DEFINE F == Firsts(pairs, j - 1)
  <2>4. {q \in F : q[1] /= new[1]} = F
    <3>1. \A q \in F : q[1] /= new[1]
      BY <2>2
    <3> HIDE DEF F
    <3> QED BY <3>1
  <2> HIDE DEF F
  <2>5. Put(F, new[1], new[2]) = F \union {new}
    BY <2>1, <2>4 DEF Put
  <2> QED BY <2>3, <2>5 DEF F, new
<1> QED BY <1>1, <1>2, <1>3, <1>4, <1>5, <1>6

\* A field set twice is set once; what is set to itself stays.
LEMMA SetAgain ==
    ASSUME NEW NS, NEW p, p = [name \in NS |-> p[name]], NEW name, name \in NS
    PROVE  /\ [p EXCEPT ![name] = p[name]] = p
           /\ \A x : [p EXCEPT ![name] = x][name] = x
           /\ \A x, y : [[p EXCEPT ![name] = x] EXCEPT ![name] = y] = [p EXCEPT ![name] = y]
<1>1. [p EXCEPT ![name] = p[name]] = p
  OBVIOUS
<1>2. \A x : [p EXCEPT ![name] = x][name] = x
  OBVIOUS
<1>3. ASSUME NEW x, NEW y PROVE [[p EXCEPT ![name] = x] EXCEPT ![name] = y] = [p EXCEPT ![name] = y]
  OBVIOUS
<1> QED BY <1>1, <1>2, <1>3

\* A map that was written is read back, pair by pair.
LEMMA MapRead ==
    ASSUME NEW fields, Numbered(fields), NEW i, i \in 1..Len(fields), fields[i].kind = "map", fields[i].of = Entry,
           NEW v, IsMap(v), NEW pairs, pairs \in SetToSeqs(v),
           NEW stream, Len(stream) < Two28, NEW at, Stands(FieldBytes(fields[i], v, pairs), stream, at),
           NEW p, p = [name \in Names(fields) |-> p[name]], p[fields[i].name] = {},
           NEW m, NEW read, Reads(read, FALSE, fields, m, stream), Reached(read, stream, p, at)
    PROVE  LET ok == \A q \in v : IsUtf8(q[1]) /\ IsUtf8(q[2])
           IN /\ ok => Reached(read, stream, [p EXCEPT ![fields[i].name] = v], at + Len(FieldBytes(fields[i], v, pairs)))
              /\ ~ok => Failed(read, stream)
<1> DEFINE f == fields[i]
           N == Cardinality(v)
           all == FieldBytes(f, v, pairs)
           pieces == [j \in 1..N |-> PairText(f, pairs[j])]
           good(j) == IsUtf8(pairs[j][1]) /\ IsUtf8(pairs[j][2])
           st == [j \in 0..N |-> [p EXCEPT ![f.name] = Firsts(pairs, j)]]
           Bad == {j \in 1..N : ~good(j)}
<1>1. f.kind = "map" /\ f.number \in 1..15 /\ f.name \in Names(fields)
  BY ClearedIs DEF Numbered
<1>2. /\ N \in Nat /\ Len(pairs) = N /\ DOMAIN pairs = 1..N
      /\ \A j \in 1..N : pairs[j] \in v /\ pairs[j][1] \in Seq(Nat) /\ pairs[j][2] \in Seq(Nat)
      /\ \A q \in v : \E j \in 1..N : pairs[j] = q
      /\ Firsts(pairs, 0) = {} /\ Firsts(pairs, N) = v
      /\ \A j \in 1..N : Put(Firsts(pairs, j - 1), pairs[j][1], pairs[j][2]) = Firsts(pairs, j)
  BY OneMore
<1>3. all = FlattenSeq(pieces)
  <2>1. all = FlattenSeq([j \in DOMAIN pairs |-> Tag(f) \o Sized(EntryBytes(pairs[j]))])
    BY <1>1, Zenon DEF FieldBytes
  <2> QED BY <1>2, <2>1, Zenon DEF PairText
<1>4. Len(stream) \in Nat /\ at \in Nat /\ Stands(all, stream, at)
  BY DEF Stands
<1> HIDE DEF N, all
<1>5. ASSUME NEW j \in 1..N
      PROVE  pieces[j] = PairText(f, pairs[j]) /\ pieces[j] \in Seq(Nat) /\ Len(pieces[j]) > 0
  <2>1. pieces[j] = PairText(f, pairs[j])
    OBVIOUS
  <2>2. PairText(f, pairs[j]) \in Seq(Nat) /\ Len(PairText(f, pairs[j])) > 0
    <3> DEFINE pair == pairs[j]
    <3>1. pair[1] \in Seq(Nat) /\ pair[2] \in Seq(Nat)
      BY <1>2
    <3> HIDE DEF f, pair
    <3>2. PairText(f, pair) \in Seq(Nat) /\ Len(PairText(f, pair)) > 0
      BY <1>1, <3>1, PairWritten
    <3> QED BY <3>2 DEF pair
  <2> HIDE DEF pieces
  <2> QED BY <2>1, <2>2
<1>6. pieces \in [1..N -> Seq(Nat)] /\ pieces \in Seq(Seq(Nat)) /\ Len(pieces) = N
  <2>1. DOMAIN pieces = 1..N /\ pieces = [j \in 1..N |-> pieces[j]]
    OBVIOUS
  <2> HIDE DEF pieces
  <2> QED BY <1>2, <1>5, <2>1, PiecesAre
<1> HIDE DEF pieces
<1>7. all \in Seq(Nat) /\ \E places : Layout(all, pieces, places)
  BY <1>2, <1>3, <1>6, FlattenedLayout
<1>8. PICK places : Layout(all, pieces, places)
  BY <1>7
<1> DEFINE from == [j \in 0..N |-> at + places[j]]
<1>9. from[0] = at /\ from[N] = at + Len(all)
  <2>1. places[0] = 0 /\ places[N] = Len(all) /\ 0 \in 0..N /\ N \in 0..N
    BY <1>2, <1>6, <1>8 DEF Layout
  <2>2. from[0] = at + places[0] /\ from[N] = at + places[N]
    BY <2>1
  <2> HIDE DEF from
  <2> QED BY <1>4, <2>1, <2>2
<1>10. ASSUME NEW j \in 1..N
       PROVE  /\ from[j - 1] \in Nat /\ from[j] \in Nat /\ from[j] <= Len(stream)
              /\ from[j] = from[j - 1] + Len(pieces[j]) /\ from[j - 1] < from[j]
              /\ Stands(pieces[j], stream, from[j - 1])
  <2>1. PieceAt(all, pieces, places, j)
    BY <1>2, <1>6, <1>7, <1>8, PieceStands
  <2>2. /\ at + places[j - 1] \in Nat /\ at + places[j] \in Nat /\ at + places[j] <= Len(stream)
        /\ at + places[j] = (at + places[j - 1]) + Len(pieces[j])
        /\ Stands(pieces[j], stream, at + places[j - 1])
    BY <1>4, <2>1, StandsWithin
  <2>3. j \in 0..N /\ j - 1 \in 0..N
    BY <1>2
  <2>4. from[j] = at + places[j] /\ from[j - 1] = at + places[j - 1]
    BY <2>3
  <2> HIDE DEF from
  <2>5. Len(pieces[j]) > 0 /\ Len(pieces[j]) \in Nat
    BY <1>5
  <2> QED BY <2>2, <2>4, <2>5
<1> HIDE DEF from
<1>11. st[0] = p /\ st[N] = [p EXCEPT ![f.name] = v]
  <2>1. 0 \in 0..N /\ N \in 0..N
    BY <1>2
  <2>2. st[0] = [p EXCEPT ![f.name] = {}] /\ st[N] = [p EXCEPT ![f.name] = v]
    BY <1>2, <2>1
  <2>3. [p EXCEPT ![f.name] = p[f.name]] = p /\ p[f.name] = {}
    BY <1>1, SetAgain
  <2> HIDE DEF st, f
  <2> QED BY <2>2, <2>3
<1>12. ASSUME NEW j \in 1..N
       PROVE  /\ st[j - 1][f.name] = Firsts(pairs, j - 1)
              /\ [st[j - 1] EXCEPT ![f.name] = Firsts(pairs, j)] = st[j]
  <2>1. j \in 0..N /\ j - 1 \in 0..N
    BY <1>2
  <2> DEFINE a == Firsts(pairs, j - 1)
             b == Firsts(pairs, j)
             name == f.name
  <2>2. st[j - 1] = [p EXCEPT ![name] = a] /\ st[j] = [p EXCEPT ![name] = b]
    BY <2>1
  <2> HIDE DEF a, b, name, st
  <2>3. [p EXCEPT ![name] = a][name] = a /\ [[p EXCEPT ![name] = a] EXCEPT ![name] = b] = [p EXCEPT ![name] = b]
    <3>1. name \in Names(fields)
      BY <1>1 DEF name
    <3> QED BY <3>1, SetAgain
  <2>4. st[j - 1][name] = a /\ [st[j - 1] EXCEPT ![name] = b] = st[j]
    BY <2>2, <2>3
  <2> QED BY <2>4 DEF a, b, name
<1> HIDE DEF st
<1>13. ASSUME NEW j \in 1..N, Reached(read, stream, st[j - 1], from[j - 1])
       PROVE  IF j \in Bad THEN Failed(read, stream) ELSE Reached(read, stream, st[j], from[j])
  <2> DEFINE pair == pairs[j]
             q == st[j - 1]
             a == from[j - 1]
             to == from[j]
             w == Put(q[f.name], pair[1], pair[2])
  <2>1. pair[1] \in Seq(Nat) /\ pair[2] \in Seq(Nat) /\ Stands(PairText(f, pair), stream, a)
      /\ to = a + Len(PairText(f, pair))
    BY <1>2, <1>5, <1>10
  <2>2. Went(NextField(fields, stream, Reading(TRUE, q, a)), IsUtf8(pair[1]) /\ IsUtf8(pair[2]), f, w, q, to)
    <3> HIDE DEF pair, q, a, to
    <3>1. Stands(Tag(fields[i]) \o Sized(EntryBytes(pair)), stream, a)
      BY <2>1, Zenon DEF PairText
    <3>2. Went(NextField(fields, stream, Reading(TRUE, q, a)), IsUtf8(pair[1]) /\ IsUtf8(pair[2]), fields[i],
                Put(q[fields[i].name], pair[1], pair[2]), q, a + Len(Tag(fields[i]) \o Sized(EntryBytes(pair))))
      BY <2>1, <3>1, PairRead
    <3> QED BY <2>1, <3>2, Zenon DEF PairText
  <2>3. a \in Nat /\ to \in Nat /\ a < to /\ to <= Len(stream) /\ Reached(read, stream, q, a)
    BY <1>10, <1>13
  <2>4. w = Firsts(pairs, j)
    BY <1>2, <1>12
  <2>5. [q EXCEPT ![f.name] = w] = st[j]
    BY <1>12, <2>4
  <2>6. j \in Bad <=> ~(IsUtf8(pair[1]) /\ IsUtf8(pair[2]))
    OBVIOUS
  <2> HIDE DEF pair, q, a, w, Bad, f, to
  <2> DEFINE ok == IsUtf8(pair[1]) /\ IsUtf8(pair[2])
  <2> HIDE DEF ok
  <2>7. /\ ok => Reached(read, stream, [q EXCEPT ![f.name] = w], to)
        /\ ~ok => Failed(read, stream)
    <3>1. Went(NextField(fields, stream, Reading(TRUE, q, a)), ok, f, w, q, to)
      BY <2>2 DEF ok
    <3>2. GoesOn(read, stream, ok, f, w, q, to)
      BY ONLY <1>4, <2>3, <3>1, Reads(read, FALSE, fields, m, stream), ItemRead
    <3> QED BY <3>2, Zenon DEF GoesOn
  <2> QED BY <2>5, <2>6, <2>7 DEF ok, to
<1>14. /\ Bad = {} => Reached(read, stream, st[N], from[N])
       /\ Bad /= {} => Failed(read, stream)
  <2>1. Bad \subseteq 1..N /\ Reached(read, stream, st[0], from[0])
    BY <1>9, <1>11
  <2> HIDE DEF Bad
  <2>2. N \in Nat
    BY <1>2
  <2> QED BY ONLY <1>13, <2>1, <2>2, ReadThrough
<1>15. Bad = {} <=> \A q \in v : IsUtf8(q[1]) /\ IsUtf8(q[2])
  BY <1>2
<1> HIDE DEF Bad
<1> QED BY <1>9, <1>11, <1>14, <1>15 DEF f, all

-----------------------------------------------------------------------------
(* Objects of any class *)

\* Classes: submessages, and maps at most one, besides texts, flags and numbers.
Full(fields) ==
    /\ Numbered(fields)
    /\ \A i \in 1..Len(fields) :
         /\ fields[i].kind \in {"string", "bool", "number", "message", "map"}
         /\ fields[i].kind = "message" => Plain(fields[i].of)
         /\ fields[i].kind = "map" => fields[i].of = Entry
    /\ \A i, j \in 1..Len(fields) : fields[i].kind = "map" /\ fields[j].kind = "map" => i = j

\* What a field of any kind may hold, and an object of any class.
FieldValue(f, v) ==
    /\ Value(f, v)
    /\ f.kind = "message" => v = <<>> \/ (v = <<v[1]>> /\ Holds(f.of, v[1]))
    /\ f.kind = "map" => IsMap(v)
\* What the fields of an object may hold.
HoldsAll(fields, m) ==
    /\ m = [name \in Names(fields) |-> m[name]]
    /\ \A i \in 1..Len(fields) : FieldValue(fields[i], m[fields[i].name])

\* Whether no text of a field is refused.
FieldOk(f, v) ==
    /\ f.kind = "string" => IsUtf8(v)
    /\ f.kind = "message" /\ v /= <<>> => LegibleScalars(f.of, v[1])
    /\ f.kind = "map" => \A p \in v : IsUtf8(p[1]) /\ IsUtf8(p[2])

\* An object can be read back if each of its fields can.
LEMMA LegibleIs ==
    ASSUME NEW fields, Full(fields), NEW m
    PROVE  Legible(fields, m) <=> \A i \in 1..Len(fields) : FieldOk(fields[i], m[fields[i].name])
<1> DEFINE Ok(f, v) ==
             CASE f.kind = "string" -> IsUtf8(v)
               [] f.kind = "map" -> \A p \in v : IsUtf8(p[1]) /\ IsUtf8(p[2])
               [] f.kind = "message" -> v /= <<>> => LegibleScalars(f.of, v[1])
               [] OTHER -> TRUE
<1>1. DOMAIN fields = 1..Len(fields)
  BY DEF Full, Numbered
<1>2. Legible(fields, m) <=> \A i \in 1..Len(fields) : Ok(fields[i], m[fields[i].name])
  BY <1>1, Zenon DEF Legible
<1>3. ASSUME NEW f, NEW v, f.kind \in {"string", "bool", "number", "message", "map"}
      PROVE  Ok(f, v) <=> FieldOk(f, v)
  <2>1. CASE f.kind = "string"
    BY <2>1, Zenon DEF FieldOk
  <2>2. CASE f.kind = "map"
    BY <2>2, Zenon DEF FieldOk
  <2>3. CASE f.kind = "message"
    BY <2>3, Zenon DEF FieldOk
  <2>4. CASE f.kind = "bool"
    BY <2>4, Zenon DEF FieldOk
  <2>5. CASE f.kind = "number"
    BY <2>5, Zenon DEF FieldOk
  <2> HIDE DEF Ok
  <2> QED BY <1>3, <2>1, <2>2, <2>3, <2>4, <2>5
<1> HIDE DEF Ok
<1>4. \A i \in 1..Len(fields) : fields[i].kind \in {"string", "bool", "number", "message", "map"}
  BY DEF Full
<1>5. \A i \in 1..Len(fields) : Ok(fields[i], m[fields[i].name]) <=> FieldOk(fields[i], m[fields[i].name])
  <2> SUFFICES ASSUME NEW i \in 1..Len(fields)
               PROVE  Ok(fields[i], m[fields[i].name]) <=> FieldOk(fields[i], m[fields[i].name])
    OBVIOUS
  <2> DEFINE f == fields[i]
             v == m[fields[i].name]
  <2>1. f.kind \in {"string", "bool", "number", "message", "map"}
    BY <1>4
  <2> HIDE DEF f, v
  <2>2. Ok(f, v) <=> FieldOk(f, v)
    BY <1>3, <2>1
  <2> QED BY <2>2 DEF f, v
<1> QED BY <1>2, <1>5

\* The piece of a field.
FieldPieces(fields, m, pairs) ==
    [i \in DOMAIN fields |-> IF m[fields[i].name] = Unset(fields[i]) THEN <<>>
                             ELSE FieldBytes(fields[i], m[fields[i].name], pairs)]

\* What is written for a field is not empty.
LEMMA FieldWritten ==
    ASSUME NEW f, f.number \in 1..15, f.kind \in {"string", "bool", "number", "message", "map"},
           f.kind = "message" => Plain(f.of), f.kind = "map" => f.of = Entry,
           NEW v, FieldValue(f, v), v /= Unset(f), NEW pairs, f.kind = "map" => pairs \in SetToSeqs(v)
    PROVE  /\ FieldBytes(f, v, pairs) \in Seq(Nat)
           /\ f.kind /= "map" => Len(FieldBytes(f, v, pairs)) > 0
<1>1. CASE f.kind \in {"string", "bool", "number"}
  <2>1. f.kind /= "message" /\ f.kind /= "map"
    BY <1>1
  <2>2. FieldBytes(f, v, pairs) = Scalar(f, v)
    BY <2>1, Zenon DEF FieldBytes
  <2>3. Value(f, v)
    BY DEF FieldValue
  <2>4. Scalar(f, v) \in Seq(Nat) /\ Len(Scalar(f, v)) > 0
    BY <1>1, <2>3, ScalarWritten
  <2> QED BY <2>2, <2>4
<1>2. CASE f.kind = "message"
  <2> DEFINE c == v[1]
  <2>1. v /= <<>>
    BY <1>2, UnsetIs
  <2>2. v = <<c>> /\ Holds(f.of, c) /\ Plain(f.of)
    BY <1>2, <2>1 DEF FieldValue
  <2> HIDE DEF c
  <2> DEFINE text == Scalars(f.of, c)
             tag == 8 * f.number + 2
  <2>3. FieldBytes(f, <<c>>, pairs) = <<tag>> \o (Varint(Len(text)) \o text) /\ text \in Seq(Nat) /\ tag \in 8..127
    BY <1>2, <2>2, MessageIs
  <2> HIDE DEF text, tag
  <2>4. tag \in Nat
    <3>1. tag \in 8..127
      BY <2>3
    <3> QED BY ONLY <3>1
  <2>5. /\ <<tag>> \o (Varint(Len(text)) \o text) \in Seq(Nat) /\ Len(text) \in Nat
        /\ Len(<<tag>> \o (Varint(Len(text)) \o text)) = 1 + (Len(Varint(Len(text))) + Len(text))
        /\ Len(Varint(Len(text))) \in 1..4
    BY ONLY <2>3, <2>4, TextWritten
  <2>6. FieldBytes(f, v, pairs) = <<tag>> \o (Varint(Len(text)) \o text)
    BY <2>2, <2>3
  <2> QED BY <2>5, <2>6
<1>3. CASE f.kind = "map"
  <2> DEFINE N == Cardinality(v)
             pieces == [j \in 1..N |-> PairText(f, pairs[j])]
  <2>1. /\ N \in Nat /\ DOMAIN pairs = 1..N
        /\ \A j \in 1..N : pairs[j][1] \in Seq(Nat) /\ pairs[j][2] \in Seq(Nat)
    <3>1. IsMap(v) /\ pairs \in SetToSeqs(v)
      BY <1>3 DEF FieldValue
    <3> QED BY <3>1, OneMore
  <2>2. FieldBytes(f, v, pairs) = FlattenSeq(pieces)
    <3>1. FieldBytes(f, v, pairs) = FlattenSeq([j \in DOMAIN pairs |-> Tag(f) \o Sized(EntryBytes(pairs[j]))])
      BY <1>3, Zenon DEF FieldBytes
    <3> QED BY <2>1, <3>1, Zenon DEF PairText
  <2> HIDE DEF N
  <2>3. \A j \in 1..N : pieces[j] \in Seq(Nat)
    <3>1. ASSUME NEW j \in 1..N PROVE PairText(f, pairs[j]) \in Seq(Nat)
      <4> DEFINE pair == pairs[j]
      <4>1. pair[1] \in Seq(Nat) /\ pair[2] \in Seq(Nat)
        BY <2>1
      <4> HIDE DEF pair
      <4>2. PairText(f, pair) \in Seq(Nat)
        BY <1>3, <4>1, PairWritten
      <4> QED BY <4>2 DEF pair
    <3> QED BY <3>1, Zenon
  <2>4. DOMAIN pieces = 1..N /\ pieces = [j \in 1..N |-> pieces[j]]
    OBVIOUS
  <2> HIDE DEF pieces
  <2>5. pieces \in [1..N -> Seq(Nat)] /\ pieces \in Seq(Seq(Nat)) /\ Len(pieces) = N
    BY <2>1, <2>3, <2>4, PiecesAre
  <2>6. FlattenSeq(pieces) \in Seq(Nat)
    BY <2>1, <2>5, FlattenedLayout
  <2> QED BY <1>3, <2>2, <2>6
<1> QED BY <1>1, <1>2, <1>3

\* A field that was written is read back.
LEMMA FieldGoesOn ==
    ASSUME NEW fields, Full(fields), NEW i, i \in 1..Len(fields),
           NEW v, FieldValue(fields[i], v), v /= Unset(fields[i]),
           NEW pairs, fields[i].kind = "map" => pairs \in SetToSeqs(v),
           NEW stream, Len(stream) < Two28, NEW at, Stands(FieldBytes(fields[i], v, pairs), stream, at),
           NEW p, p = [name \in Names(fields) |-> p[name]], p[fields[i].name] = Unset(fields[i]),
           NEW m, NEW read, Reads(read, FALSE, fields, m, stream), Reached(read, stream, p, at)
    PROVE  GoesOn(read, stream, FieldOk(fields[i], v), fields[i], v, p, at + Len(FieldBytes(fields[i], v, pairs)))
<1> DEFINE f == fields[i]
           all == FieldBytes(f, v, pairs)
           to == at + Len(all)
           next == NextField(fields, stream, Reading(TRUE, p, at))
<1>1. /\ Numbered(fields) /\ f.number \in 1..15 /\ f.kind \in {"string", "bool", "number", "message", "map"}
      /\ f.kind = "message" => Plain(f.of)
      /\ f.kind = "map" => f.of = Entry
      /\ Value(f, v)
  BY DEF Full, Numbered, FieldValue
<1>2. Stands(all, stream, at)
  OBVIOUS
<1>3. Len(stream) \in Nat /\ at \in Nat /\ Len(all) \in Nat /\ to \in Nat /\ to <= Len(stream)
  <2> HIDE DEF all
  <2> QED BY <1>2 DEF Stands
<1>4. f.kind /= "map" => at < to
  <2>1. f.kind /= "map" => Len(all) > 0
    <3> DEFINE g == fields[i]
    <3>1. FieldValue(g, v) /\ v /= Unset(g) /\ (g.kind = "map" => pairs \in SetToSeqs(v))
      OBVIOUS
    <3> HIDE DEF f
    <3> QED BY ONLY <1>1, <3>1, FieldWritten DEF all, f, g
  <2> HIDE DEF all, f
  <2> QED BY ONLY <1>3, <2>1 DEF to
<1>5. ASSUME f.kind /= "map", Went(next, FieldOk(f, v), f, v, p, to)
      PROVE  GoesOn(read, stream, FieldOk(f, v), f, v, p, to)
  <2> HIDE DEF all
  <2>1. to \in Nat /\ at < to /\ to <= Len(stream)
    BY <1>3, <1>4, <1>5
  <2> HIDE DEF to, f
  <2> QED BY ONLY <1>3, <1>5, <2>1, Reads(read, FALSE, fields, m, stream), Reached(read, stream, p, at), ItemRead DEF next
<1>6. CASE f.kind \in {"string", "bool", "number"}
  <2>1. f.kind /= "message" /\ f.kind /= "map"
    BY <1>6
  <2>2. all = Scalar(f, v)
    BY <2>1, Zenon DEF FieldBytes
  <2>3. f.kind = "bool" => v = TRUE
    <3> SUFFICES ASSUME f.kind = "bool" PROVE v = TRUE
      OBVIOUS
    <3>1. v \in BOOLEAN
      BY <1>1 DEF Value
    <3>2. v /= FALSE
      BY UnsetIs
    <3> QED BY <3>1, <3>2, Zenon
  <2>4. Came(NextOf(FALSE, fields, stream, Reading(TRUE, p, at)), f, v, p, at + Len(Scalar(f, v)))
    <3>1. Stands(Scalar(f, v), stream, at) /\ FALSE \in BOOLEAN
      BY <1>2, <2>2
    <3> QED BY ONLY <1>1, <1>6, <2>3, <3>1, i \in 1..Len(fields), Len(stream) < Two28, ScalarBack DEF f
  <2>5. TextOk(f, v) <=> FieldOk(f, v)
    BY <2>1 DEF TextOk, FieldOk
  <2>6. Went(next, FieldOk(f, v), f, v, p, to)
    <3>1. NextOf(FALSE, fields, stream, Reading(TRUE, p, at)) = next
      BY Zenon DEF NextOf
    <3> HIDE DEF next, f
    <3> QED BY <2>2, <2>4, <2>5, <3>1, Zenon DEF Came, Went
  <2> QED BY <1>5, <2>1, <2>6
<1>7. CASE f.kind = "message"
  <2> DEFINE c == v[1]
  <2>1. v /= <<>> /\ p[f.name] = <<>>
    BY <1>7, UnsetIs
  <2>2. v = <<c>> /\ Holds(f.of, c) /\ Plain(f.of)
    BY <1>1, <1>7, <2>1 DEF FieldValue
  <2>3. FieldOk(f, v) <=> LegibleScalars(f.of, c)
    BY <1>7, <2>1 DEF FieldOk
  <2> HIDE DEF c
  <2>4. Went(next, LegibleScalars(f.of, c), f, <<c>>, p, at + Len(FieldBytes(f, <<c>>, pairs)))
    <3>1. Stands(FieldBytes(f, <<c>>, pairs), stream, at)
      BY <1>2, <2>2
    <3> QED BY ONLY <1>1, <1>7, <2>1, <2>2, <3>1, i \in 1..Len(fields), Len(stream) < Two28, MessageBack DEF f, next
  <2>5. Went(next, FieldOk(f, v), f, v, p, to)
    <3> HIDE DEF next, f
    <3> QED BY <2>2, <2>3, <2>4, Zenon DEF Went
  <2> QED BY <1>5, <1>7, <2>5
<1>8. CASE f.kind = "map"
  <2> DEFINE ok == \A q \in v : IsUtf8(q[1]) /\ IsUtf8(q[2])
  <2>1. IsMap(v) /\ p[f.name] = {} /\ f.of = Entry /\ pairs \in SetToSeqs(v)
    BY <1>1, <1>8, UnsetIs DEF FieldValue
  <2>2. FieldOk(f, v) <=> ok
    BY <1>8 DEF FieldOk
  <2>3. /\ ok => Reached(read, stream, [p EXCEPT ![f.name] = v], to)
        /\ ~ok => Failed(read, stream)
    <3> HIDE DEF ok
    <3> QED BY <1>1, <1>2, <1>8, <2>1, MapRead DEF ok
  <2> HIDE DEF ok
  <2> QED BY <2>2, <2>3, Zenon DEF GoesOn
<1> QED BY <1>1, <1>6, <1>7, <1>8

\* Nothing is not refused.
LEMMA UnsetFieldOk ==
    ASSUME NEW f
    PROVE  FieldOk(f, Unset(f))
<1>1. IsUtf8(<<>>)
  BY DEF IsUtf8
<1> QED BY <1>1, UnsetIs DEF FieldOk

\* The order in which a map is written is one of the map's.
LEMMA OrderOfMap ==
    ASSUME NEW fields, Full(fields), NEW i, i \in 1..Len(fields), fields[i].kind = "map",
           NEW m, NEW pairs, pairs \in Orders(fields, m)
    PROVE  pairs \in SetToSeqs(m[fields[i].name])
<1> DEFINE f == fields[i]
           maps == {g \in Range(fields) : g.kind = "map"}
<1>1. f \in maps
  BY DEF Full, Numbered, Range
<1>2. ASSUME NEW g \in maps PROVE g = f
  <2>1. PICK j \in 1..Len(fields) : g = fields[j]
    BY DEF Full, Numbered, Range
  <2> QED BY <2>1 DEF Full
<1>3. pairs \in UNION {SetToSeqs(m[g.name]) : g \in maps}
  <2>1. maps /= {}
    BY <1>1
  <2> HIDE DEF f
  <2> QED BY <2>1, Zenon DEF Orders
<1> HIDE DEF f, maps
<1> QED BY <1>2, <1>3, Zenon DEF f

\* One piece for each field.
PiecesOf(fields, m, pairs, pieces) ==
    \A i \in 1..Len(fields) : pieces[i] = IF m[fields[i].name] = Unset(fields[i]) THEN <<>>
                                          ELSE FieldBytes(fields[i], m[fields[i].name], pairs)

\* A message is the pieces of its fields one behind the other.
LEMMA FieldsWritten ==
    ASSUME NEW fields, Full(fields), NEW m, HoldsAll(fields, m), NEW pairs, pairs \in Orders(fields, m)
    PROVE  \E pieces : /\ Serialize(fields, m, pairs) = FlattenSeq(pieces) /\ PiecesOf(fields, m, pairs, pieces)
                       /\ pieces \in [1..Len(fields) -> Seq(Nat)] /\ pieces \in Seq(Seq(Nat)) /\ Len(pieces) = Len(fields)
<1> DEFINE pieces == FieldPieces(fields, m, pairs)
           v(i) == m[fields[i].name]
           N == Len(fields)
<1>1. Serialize(fields, m, pairs) = FlattenSeq(pieces)
  BY Zenon DEF Serialize, FieldPieces
<1>2. N \in Nat /\ DOMAIN fields = 1..N
  BY DEF Full, Numbered
<1>3. /\ DOMAIN pieces = 1..N /\ pieces = [i \in 1..N |-> pieces[i]]
      /\ \A i \in 1..N : pieces[i] = IF v(i) = Unset(fields[i]) THEN <<>> ELSE FieldBytes(fields[i], v(i), pairs)
  <2>1. pieces = [i \in 1..N |-> IF v(i) = Unset(fields[i]) THEN <<>> ELSE FieldBytes(fields[i], v(i), pairs)]
    BY <1>2, Zenon DEF FieldPieces
  <2> HIDE DEF pieces, v, N
  <2> QED BY <2>1, Zenon
<1> HIDE DEF pieces
<1>4. ASSUME NEW i \in 1..N
      PROVE  pieces[i] \in Seq(Nat)
  <2> DEFINE f == fields[i]
             x == v(i)
             piece == pieces[i]
  <2>1. /\ f.number \in 1..15 /\ f.kind \in {"string", "bool", "number", "message", "map"}
        /\ (f.kind = "message" => Plain(f.of)) /\ (f.kind = "map" => f.of = Entry) /\ FieldValue(f, x)
    BY DEF Full, Numbered, HoldsAll
  <2>2. f.kind = "map" => pairs \in SetToSeqs(x)
    BY OrderOfMap
  <2>3. piece = IF x = Unset(f) THEN <<>> ELSE FieldBytes(f, x, pairs)
    BY <1>3
  <2> HIDE DEF f, x, piece
  <2>4. x /= Unset(f) => FieldBytes(f, x, pairs) \in Seq(Nat)
    BY <2>1, <2>2, FieldWritten
  <2>5. piece \in Seq(Nat)
    BY <2>3, <2>4
  <2> QED BY <2>5 DEF piece
<1>5. pieces \in [1..N -> Seq(Nat)] /\ pieces \in Seq(Seq(Nat)) /\ Len(pieces) = N
  <2>1. \A i \in 1..N : pieces[i] \in Seq(Nat)
    BY <1>4
  <2> HIDE DEF N
  <2> QED BY <1>2, <1>3, <2>1, PiecesAre
<1>6. PiecesOf(fields, m, pairs, pieces)
  BY <1>3 DEF PiecesOf
<1> QED BY <1>1, <1>5, <1>6

\* What a class writes is read back, if no text of it is refused.
ReadBack(fields, stream, m) ==
    /\ stream \in Seq(Nat)
    /\ Legible(fields, m) => ParseFromString(fields, stream) = Reading(TRUE, m, Len(stream))
    /\ ~Legible(fields, m) => ParseFromString(fields, stream).ok = FALSE

\* What Serialize writes ParseFromString reads back, or refuses because a text is not UTF-8.
LEMMA ParseBack ==
    ASSUME NEW fields, Full(fields), NEW m, HoldsAll(fields, m), NEW pairs, pairs \in Orders(fields, m),
           NEW stream, stream = Serialize(fields, m, pairs), Len(stream) < Two28
    PROVE  ReadBack(fields, stream, m)
<1> DEFINE N == Len(fields)
           v(i) == m[fields[i].name]
           st == [i \in 0..N |-> Partial(fields, m, i)]
           Bad == {i \in 1..N : ~FieldOk(fields[i], v(i))}
<1>1. Numbered(fields) /\ N \in Nat /\ DOMAIN fields = 1..N
  BY DEF Full, Numbered
<1>2. PICK pieces : /\ stream = FlattenSeq(pieces) /\ PiecesOf(fields, m, pairs, pieces)
                    /\ pieces \in [1..N -> Seq(Nat)] /\ pieces \in Seq(Seq(Nat)) /\ Len(pieces) = N
  BY FieldsWritten
<1>3. stream \in Seq(Nat) /\ \E at : Layout(stream, pieces, at)
  <2> HIDE DEF N
  <2> QED BY <1>1, <1>2, FlattenedLayout
<1>4. PICK at : Layout(stream, pieces, at)
  BY <1>3
<1>5. Len(stream) \in Nat /\ at[0] = 0 /\ at[N] = Len(stream)
  BY <1>2, <1>3, <1>4 DEF Layout
<1>6. PICK read : /\ Reads(read, FALSE, fields, Cleared(fields), stream)
                  /\ Merge(fields, Cleared(fields), stream) = AtEnd(read, stream)
  BY <1>5, MergeReads
<1>7. st[0] = Cleared(fields) /\ st[N] = m
  <2>1. 0 \in 0..N /\ N \in 0..N
    BY <1>1
  <2>2. Partial(fields, m, 0) = Cleared(fields) /\ Partial(fields, m, N) = m
    <3>1. m = [name \in Names(fields) |-> m[name]] /\ Numbered(fields)
      BY <1>1 DEF HoldsAll
    <3> QED BY ONLY <3>1, Partials DEF N
  <2> QED BY <2>1, <2>2
<1>8. ASSUME NEW i \in 1..N
      PROVE  /\ st[i] = [st[i - 1] EXCEPT ![fields[i].name] = v(i)]
             /\ v(i) = Unset(fields[i]) => st[i] = st[i - 1]
             /\ st[i - 1][fields[i].name] = Unset(fields[i])
             /\ st[i - 1] = [name \in Names(fields) |-> st[i - 1][name]]
  <2>1. i \in 0..N /\ i - 1 \in 0..N
    BY <1>1
  <2>2. st[i] = Partial(fields, m, i) /\ st[i - 1] = Partial(fields, m, i - 1)
    BY <2>1
  <2>3. /\ Partial(fields, m, i) = [Partial(fields, m, i - 1) EXCEPT ![fields[i].name] = m[fields[i].name]]
        /\ m[fields[i].name] = Unset(fields[i]) => Partial(fields, m, i) = Partial(fields, m, i - 1)
        /\ Partial(fields, m, i - 1)[fields[i].name] = Unset(fields[i])
    <3>1. m = [name \in Names(fields) |-> m[name]] /\ Numbered(fields) /\ i \in 1..Len(fields)
      BY <1>1 DEF HoldsAll
    <3> QED BY ONLY <3>1, Partials
  <2>4. Partial(fields, m, i - 1) = [name \in Names(fields) |-> Partial(fields, m, i - 1)[name]]
    BY Zenon DEF Partial
  <2> HIDE DEF st
  <2> QED BY <2>2, <2>3, <2>4
<1>9. Bad \subseteq 1..N /\ (Bad = {} <=> Legible(fields, m))
  <2>1. Legible(fields, m) <=> \A i \in 1..N : FieldOk(fields[i], v(i))
    BY LegibleIs
  <2> HIDE DEF v, N
  <2> QED BY <2>1
<1> HIDE DEF st
<1>10. Reached(read, stream, st[0], at[0])
  <2>1. 0 \in 0..Len(stream) /\ 0 <= at[0] /\ \A j : j \notin 0..(0 - 1)
    BY <1>5
  <2>2. read[0] = Reading(TRUE, st[0], at[0])
    BY <1>5, <1>6, <1>7 DEF Reads
  <2> QED BY <2>1, <2>2, Zenon DEF Reached
<1>11. ASSUME NEW i \in 1..N, Reached(read, stream, st[i - 1], at[i - 1])
       PROVE  IF i \in Bad THEN Failed(read, stream) ELSE Reached(read, stream, st[i], at[i])
  <2> DEFINE f == fields[i]
             x == v(i)
             piece == pieces[i]
             from == at[i - 1]
             p == st[i - 1]
             all == FieldBytes(f, x, pairs)
  <2>1. /\ from \in Nat /\ at[i] \in Nat /\ at[i] <= Len(stream) /\ Len(piece) \in Nat /\ at[i] = from + Len(piece)
        /\ Stands(piece, stream, from)
    <3>1. PieceAt(stream, pieces, at, i)
      <4> HIDE DEF N
      <4> QED BY <1>1, <1>2, <1>3, <1>4, PieceStands
    <3> QED BY <3>1 DEF PieceAt
  <2>2. FieldValue(f, x) /\ piece = (IF x = Unset(f) THEN <<>> ELSE all)
    BY <1>2 DEF HoldsAll, PiecesOf
  <2>3. i \in Bad <=> ~FieldOk(f, x)
    OBVIOUS
  <2>4. CASE x = Unset(f)
    <3>1. piece = <<>> /\ Len(piece) = 0
      BY <2>2, <2>4
    <3>2. at[i] = from
      BY <2>1, <3>1
    <3>3. st[i] = st[i - 1]
      BY <1>8, <2>4
    <3>4. FieldOk(f, x)
      BY <2>4, UnsetFieldOk
    <3> QED BY <1>11, <2>3, <3>2, <3>3, <3>4
  <2>5. CASE x /= Unset(f)
    <3>1. piece = all
      BY <2>2, <2>5
    <3>2. f.kind = "map" => pairs \in SetToSeqs(x)
      BY OrderOfMap
    <3>3. p[f.name] = Unset(f) /\ p = [name \in Names(fields) |-> p[name]]
      BY <1>8
    <3>4. Stands(all, stream, from) /\ at[i] = from + Len(all)
      BY <2>1, <3>1
    <3>5. Reads(read, FALSE, fields, Cleared(fields), stream) /\ Reached(read, stream, p, from) /\ i \in 1..Len(fields)
      BY <1>6, <1>11
    <3> HIDE DEF x, from, p, N
    <3>6. GoesOn(read, stream, FieldOk(f, x), f, x, p, from + Len(all))
      BY ONLY Full(fields), Len(stream) < Two28, <2>2, <2>5, <3>2, <3>3, <3>4, <3>5, FieldGoesOn DEF f, all
    <3> HIDE DEF f, all
    <3>7. st[i] = [p EXCEPT ![f.name] = x]
      BY <1>8 DEF f, p, x
    <3>8. GoesOn(read, stream, FieldOk(f, x), f, x, p, at[i])
      BY <3>4, <3>6
    <3> HIDE DEF Bad
    <3> QED BY <2>3, <3>7, <3>8, Zenon DEF GoesOn
  <2> QED BY <2>4, <2>5
<1>12. /\ Bad = {} => Reached(read, stream, st[N], at[N])
       /\ Bad /= {} => Failed(read, stream)
  <2> HIDE DEF Bad, N
  <2> QED BY <1>1, <1>9, <1>10, <1>11, ReadThrough
<1>13. DOMAIN read = 0..Len(stream)
  BY <1>6 DEF Reads
<1>14. /\ Reached(read, stream, m, Len(stream)) => AtEnd(read, stream) = Reading(TRUE, m, Len(stream))
       /\ Failed(read, stream) => AtEnd(read, stream).ok = FALSE
  BY <1>5, <1>13, ReadEnds
<1>15. ParseFromString(fields, stream) = AtEnd(read, stream)
  BY <1>6, Zenon DEF ParseFromString
<1> HIDE DEF Bad, N
<1> QED BY <1>3, <1>5, <1>7, <1>9, <1>12, <1>14, <1>15 DEF ReadBack

-----------------------------------------------------------------------------
(* The classes *)

\* What the fields of the classes may hold.
AnyText == Seq(Nat)
AnyMap == {v \in SUBSET (Seq(Nat) \X Seq(Nat)) : IsMap(v)}
AnyProperties == [id : AnyText, delivery_mode : DeliveryMode, routing_key : AnyText]

\* The objects of a class.
Fits(fields, m) == Full(fields) /\ HoldsAll(fields, m)

\* One field of a class, the ith of n.
Fitting(f, i, n, v) ==
    /\ f.number = i /\ f.kind \in {"string", "bool", "number", "message", "map"}
    /\ f.kind = "message" => Plain(f.of)
    /\ f.kind = "map" => f.of = Entry /\ i = n
    /\ FieldValue(f, v)

\* A class whose fields fit, one by one, with its objects.
LEMMA FitsTogether ==
    ASSUME NEW F, NEW n, n \in 1..15, Len(F) = n, DOMAIN F = 1..n, NEW names, names = {F[i].name : i \in 1..n},
           \A i, j \in 1..n : F[i].name = F[j].name => i = j,
           NEW m, m = [name \in names |-> m[name]],
           \A i \in 1..n : Fitting(F[i], i, n, m[F[i].name])
    PROVE  Fits(F, m)
<1>1. \A i \in 1..n : F[i].number = i /\ i \in 1..15
  BY DEF Fitting
<1>2. n \in Nat
  OBVIOUS
<1>3. Numbered(F)
  <2>1. \A i, j \in 1..n : i /= j => F[i].number /= F[j].number /\ F[i].name /= F[j].name
    BY <1>1
  <2> QED BY <1>1, <1>2, <2>1 DEF Numbered
<1>4. Full(F)
  <2>1. \A i \in 1..n : /\ F[i].kind \in {"string", "bool", "number", "message", "map"}
                        /\ F[i].kind = "message" => Plain(F[i].of)
                        /\ F[i].kind = "map" => F[i].of = Entry
    BY DEF Fitting
  <2>2. \A i, j \in 1..n : F[i].kind = "map" /\ F[j].kind = "map" => i = j
    BY DEF Fitting
  <2> QED BY <1>3, <2>1, <2>2 DEF Full
<1>5. HoldsAll(F, m)
  <2>1. Names(F) = names
    BY DEF Names
  <2>2. \A i \in 1..n : FieldValue(F[i], m[F[i].name])
    BY DEF Fitting
  <2> QED BY <2>1, <2>2 DEF HoldsAll
<1> QED BY <1>4, <1>5 DEF Fits

\* A text, a number, a flag.
LEMMA TextFits ==
    ASSUME NEW i, NEW n, NEW name, NEW v, v \in AnyText
    PROVE  Fitting(Field(i, name, "string"), i, n, v) /\ Field(i, name, "string").name = name
BY DEF Fitting, Field, FieldValue, Value, AnyText

\* So may one be a number.
LEMMA NumberFits ==
    ASSUME NEW i, NEW n, NEW name, NEW v, v \in 0..3
    PROVE  Fitting(Field(i, name, "number"), i, n, v) /\ Field(i, name, "number").name = name
<1>1. v \in Nat /\ v < Two28
  BY SMT DEF Two28
<1> QED BY <1>1 DEF Fitting, Field, FieldValue, Value

\* So may one be a flag.
LEMMA FlagFits ==
    ASSUME NEW i, NEW n, NEW name, NEW v, v \in BOOLEAN
    PROVE  Fitting(Field(i, name, "bool"), i, n, v) /\ Field(i, name, "bool").name = name
BY DEF Fitting, Field, FieldValue, Value

\* The last field may be a map.
LEMMA MapFits ==
    ASSUME NEW n, NEW name, NEW v, v \in AnyMap
    PROVE  Fitting(MapField(n, name), n, n, v) /\ MapField(n, name).name = name
BY DEF Fitting, MapField, FieldValue, Value, AnyMap

\* A class of texts.
LEMMA TextsFit ==
    ASSUME NEW F, NEW n, n \in 1..15, Len(F) = n, DOMAIN F = 1..n, NEW names, names = {F[i].name : i \in 1..n},
           \A i, j \in 1..n : F[i].name = F[j].name => i = j,
           \A i \in 1..n : F[i] = Field(i, F[i].name, "string"),
           NEW m, m = [name \in names |-> m[name]], \A name \in names : m[name] \in AnyText
    PROVE  Fits(F, m)
<1>1. ASSUME NEW i \in 1..n PROVE Fitting(F[i], i, n, m[F[i].name])
  <2> DEFINE name == F[i].name
             v == m[name]
  <2>1. v \in AnyText /\ F[i] = Field(i, name, "string")
    OBVIOUS
  <2> HIDE DEF name, v
  <2>2. Fitting(Field(i, name, "string"), i, n, v)
    BY ONLY <2>1, TextFits
  <2> QED BY <2>1, <2>2 DEF name, v
<1> QED BY <1>1, FitsTogether

\* The properties of a message.
LEMMA PropertiesHold ==
    ASSUME NEW c, c \in AnyProperties
    PROVE  Plain(BasicProperties_fields) /\ Holds(BasicProperties_fields, c)
<1> DEFINE F == BasicProperties_fields
           names == {"id", "delivery_mode", "routing_key"}
<1>1. /\ Len(F) = 3 /\ DOMAIN F = 1..3
      /\ F[1] = Field(1, "id", "string") /\ F[2] = Field(2, "delivery_mode", "number")
      /\ F[3] = Field(3, "routing_key", "string")
  BY DEF BasicProperties_fields
<1>2. /\ c = [name \in names |-> c[name]]
      /\ c["id"] \in AnyText /\ c["delivery_mode"] \in 0..3 /\ c["routing_key"] \in AnyText
  BY DEF AnyProperties, DeliveryMode, UNKNOWMODE, UNDURABLE, DURABLE
<1>3. \A i : i \in 1..3 <=> i = 1 \/ i = 2 \/ i = 3
  OBVIOUS
<1> HIDE DEF F
<1>4. names = {F[i].name : i \in 1..3} /\ \A i, j \in 1..3 : F[i].name = F[j].name => i = j
  BY <1>1, <1>3 DEF Field
<1> HIDE DEF names
<1>5. \A i \in 1..3 : Fitting(F[i], i, 3, c[F[i].name])
  <2>1. Fitting(F[1], 1, 3, c["id"]) /\ F[1].name = "id"
    BY <1>1, <1>2, TextFits DEF Field
  <2>2. Fitting(F[2], 2, 3, c["delivery_mode"]) /\ F[2].name = "delivery_mode"
    BY <1>1, <1>2, NumberFits DEF Field
  <2>3. Fitting(F[3], 3, 3, c["routing_key"]) /\ F[3].name = "routing_key"
    BY <1>1, <1>2, TextFits DEF Field
  <2> QED BY <1>3, <2>1, <2>2, <2>3
<1>6. Fits(F, c)
  BY ONLY <1>1, <1>2, <1>4, <1>5, 3 \in 1..15, FitsTogether
<1>7. \A i \in 1..3 : F[i].kind \in {"string", "bool", "number"}
  BY <1>1, <1>3 DEF Field
<1> QED BY <1>1, <1>6, <1>7 DEF Fits, Full, HoldsAll, Plain, Holds, FieldValue, F

\* So may one be the properties of a message, or none.
LEMMA PropertiesFit ==
    ASSUME NEW i, NEW n, NEW name, NEW v, v \in Optional(AnyProperties)
    PROVE  /\ Fitting(Submessage(i, name, BasicProperties_fields), i, n, v)
           /\ Submessage(i, name, BasicProperties_fields).name = name
<1> DEFINE f == Submessage(i, name, BasicProperties_fields)
<1>1. f.number = i /\ f.name = name /\ f.kind = "message" /\ f.of = BasicProperties_fields
  BY DEF Submessage
<1>2. Plain(BasicProperties_fields)
  <2>1. [id |-> <<>>, delivery_mode |-> 0, routing_key |-> <<>>] \in AnyProperties
    BY DEF AnyProperties, AnyText, DeliveryMode, UNKNOWMODE
  <2> QED BY <2>1, PropertiesHold
<1>3. v = <<>> \/ (v = <<v[1]>> /\ Holds(BasicProperties_fields, v[1]))
  <2>1. v = <<>> \/ \E c \in AnyProperties : v = <<c>>
    BY DEF Optional
  <2>2. ASSUME NEW c \in AnyProperties, v = <<c>> PROVE v = <<v[1]>> /\ Holds(BasicProperties_fields, v[1])
    BY <2>2, PropertiesHold
  <2> QED BY <2>1, <2>2
<1> HIDE DEF f
<1> QED BY <1>1, <1>2, <1>3 DEF Fitting, FieldValue, Value, f

\* The objects of the class openChannelRequest.
LEMMA openChannelRequestFits ==
    ASSUME NEW m, m \in [rid : AnyText, cid : AnyText]
    PROVE  Fits(openChannelRequest_fields, m)
<1> DEFINE F == openChannelRequest_fields
           names == {"rid", "cid"}
<1>1. /\ Len(F) = 2 /\ DOMAIN F = 1..2
      /\ F[1] = Field(1, "rid", "string") /\ F[2] = Field(2, "cid", "string")
  BY DEF openChannelRequest_fields
<1>2. m = [name \in names |-> m[name]] /\ \A name \in names : m[name] \in AnyText
  OBVIOUS
<1>3. \A i : i \in 1..2 <=> i = 1 \/ i = 2
  OBVIOUS
<1> HIDE DEF F
<1>4. names = {F[i].name : i \in 1..2} /\ \A i, j \in 1..2 : F[i].name = F[j].name => i = j
  BY <1>1, <1>3 DEF Field
<1> HIDE DEF names
<1>5. \A i \in 1..2 : F[i] = Field(i, F[i].name, "string")
  BY <1>1, <1>3 DEF Field
<1> QED BY ONLY <1>1, <1>2, <1>4, <1>5, 2 \in 1..15, TextsFit DEF F

\* The objects of the class closeChannelRequest.
LEMMA closeChannelRequestFits ==
    ASSUME NEW m, m \in [rid : AnyText, cid : AnyText]
    PROVE  Fits(closeChannelRequest_fields, m)
<1> DEFINE F == closeChannelRequest_fields
           names == {"rid", "cid"}
<1>1. /\ Len(F) = 2 /\ DOMAIN F = 1..2
      /\ F[1] = Field(1, "rid", "string") /\ F[2] = Field(2, "cid", "string")
  BY DEF closeChannelRequest_fields
<1>2. m = [name \in names |-> m[name]] /\ \A name \in names : m[name] \in AnyText
  OBVIOUS
<1>3. \A i : i \in 1..2 <=> i = 1 \/ i = 2
  OBVIOUS
<1> HIDE DEF F
<1>4. names = {F[i].name : i \in 1..2} /\ \A i, j \in 1..2 : F[i].name = F[j].name => i = j
  BY <1>1, <1>3 DEF Field
<1> HIDE DEF names
<1>5. \A i \in 1..2 : F[i] = Field(i, F[i].name, "string")
  BY <1>1, <1>3 DEF Field
<1> QED BY ONLY <1>1, <1>2, <1>4, <1>5, 2 \in 1..15, TextsFit DEF F

\* The objects of the class declareExchangeRequest.
LEMMA declareExchangeRequestFits ==
    ASSUME NEW m, m \in [rid : AnyText, cid : AnyText, exchange_name : AnyText, exchange_type : ExchangeType,
                          durable : BOOLEAN, auto_delete : BOOLEAN, args : AnyMap]
    PROVE  Fits(declareExchangeRequest_fields, m)
<1> DEFINE F == declareExchangeRequest_fields
           names == {"rid", "cid", "exchange_name", "exchange_type", "durable", "auto_delete", "args"}
<1>1. /\ Len(F) = 7 /\ DOMAIN F = 1..7
      /\ F[1] = Field(1, "rid", "string") /\ F[2] = Field(2, "cid", "string")
      /\ F[3] = Field(3, "exchange_name", "string") /\ F[4] = Field(4, "exchange_type", "number")
      /\ F[5] = Field(5, "durable", "bool") /\ F[6] = Field(6, "auto_delete", "bool")
      /\ F[7] = MapField(7, "args")
  BY DEF declareExchangeRequest_fields
<1>2. /\ m = [name \in names |-> m[name]]
      /\ m["rid"] \in AnyText /\ m["cid"] \in AnyText /\ m["exchange_name"] \in AnyText
      /\ m["exchange_type"] \in 0..3 /\ m["durable"] \in BOOLEAN /\ m["auto_delete"] \in BOOLEAN
      /\ m["args"] \in AnyMap
  BY DEF ExchangeType, UNKNOWTYPE, DIRECT, FANOUT, TOPIC
<1>3. \A i : i \in 1..7 <=> i = 1 \/ i = 2 \/ i = 3 \/ i = 4 \/ i = 5 \/ i = 6 \/ i = 7
  OBVIOUS
<1> HIDE DEF F
<1>4. names = {F[i].name : i \in 1..7} /\ \A i, j \in 1..7 : F[i].name = F[j].name => i = j
  BY <1>1, <1>3 DEF Field, MapField
<1> HIDE DEF names
<1>5. \A i \in 1..7 : Fitting(F[i], i, 7, m[F[i].name])
  <2>1. Fitting(F[1], 1, 7, m["rid"]) /\ F[1].name = "rid"
    BY <1>1, <1>2, TextFits DEF Field
  <2>2. Fitting(F[2], 2, 7, m["cid"]) /\ F[2].name = "cid"
    BY <1>1, <1>2, TextFits DEF Field
  <2>3. Fitting(F[3], 3, 7, m["exchange_name"]) /\ F[3].name = "exchange_name"
    BY <1>1, <1>2, TextFits DEF Field
  <2>4. Fitting(F[4], 4, 7, m["exchange_type"]) /\ F[4].name = "exchange_type"
    BY <1>1, <1>2, NumberFits DEF Field
  <2>5. Fitting(F[5], 5, 7, m["durable"]) /\ F[5].name = "durable"
    BY <1>1, <1>2, FlagFits DEF Field
  <2>6. Fitting(F[6], 6, 7, m["auto_delete"]) /\ F[6].name = "auto_delete"
    BY <1>1, <1>2, FlagFits DEF Field
  <2>7. Fitting(F[7], 7, 7, m["args"]) /\ F[7].name = "args"
    BY <1>1, <1>2, MapFits DEF MapField
  <2> QED BY <1>3, <2>1, <2>2, <2>3, <2>4, <2>5, <2>6, <2>7
<1> QED BY ONLY <1>1, <1>2, <1>4, <1>5, 7 \in 1..15, FitsTogether DEF F

\* The objects of the class deleteExchangeRequest.
LEMMA deleteExchangeRequestFits ==
    ASSUME NEW m, m \in [rid : AnyText, cid : AnyText, exchange_name : AnyText]
    PROVE  Fits(deleteExchangeRequest_fields, m)
<1> DEFINE F == deleteExchangeRequest_fields
           names == {"rid", "cid", "exchange_name"}
<1>1. /\ Len(F) = 3 /\ DOMAIN F = 1..3
      /\ F[1] = Field(1, "rid", "string") /\ F[2] = Field(2, "cid", "string")
      /\ F[3] = Field(3, "exchange_name", "string")
  BY DEF deleteExchangeRequest_fields
<1>2. m = [name \in names |-> m[name]] /\ \A name \in names : m[name] \in AnyText
  OBVIOUS
<1>3. \A i : i \in 1..3 <=> i = 1 \/ i = 2 \/ i = 3
  OBVIOUS
<1> HIDE DEF F
<1>4. names = {F[i].name : i \in 1..3} /\ \A i, j \in 1..3 : F[i].name = F[j].name => i = j
  BY <1>1, <1>3 DEF Field
<1> HIDE DEF names
<1>5. \A i \in 1..3 : F[i] = Field(i, F[i].name, "string")
  BY <1>1, <1>3 DEF Field
<1> QED BY ONLY <1>1, <1>2, <1>4, <1>5, 3 \in 1..15, TextsFit DEF F

\* The objects of the class declareQueueRequest.
LEMMA declareQueueRequestFits ==
    ASSUME NEW m, m \in [rid : AnyText, cid : AnyText, queue_name : AnyText, exclusive : BOOLEAN,
                          durable : BOOLEAN, auto_delete : BOOLEAN, args : AnyMap]
    PROVE  Fits(declareQueueRequest_fields, m)
<1> DEFINE F == declareQueueRequest_fields
           names == {"rid", "cid", "queue_name", "exclusive", "durable", "auto_delete", "args"}
<1>1. /\ Len(F) = 7 /\ DOMAIN F = 1..7
      /\ F[1] = Field(1, "rid", "string") /\ F[2] = Field(2, "cid", "string")
      /\ F[3] = Field(3, "queue_name", "string") /\ F[4] = Field(4, "exclusive", "bool")
      /\ F[5] = Field(5, "durable", "bool") /\ F[6] = Field(6, "auto_delete", "bool")
      /\ F[7] = MapField(7, "args")
  BY DEF declareQueueRequest_fields
<1>2. /\ m = [name \in names |-> m[name]]
      /\ m["rid"] \in AnyText /\ m["cid"] \in AnyText /\ m["queue_name"] \in AnyText
      /\ m["exclusive"] \in BOOLEAN /\ m["durable"] \in BOOLEAN /\ m["auto_delete"] \in BOOLEAN
      /\ m["args"] \in AnyMap
  OBVIOUS
<1>3. \A i : i \in 1..7 <=> i = 1 \/ i = 2 \/ i = 3 \/ i = 4 \/ i = 5 \/ i = 6 \/ i = 7
  OBVIOUS
<1> HIDE DEF F
<1>4. names = {F[i].name : i \in 1..7} /\ \A i, j \in 1..7 : F[i].name = F[j].name => i = j
  BY <1>1, <1>3 DEF Field, MapField
<1> HIDE DEF names
<1>5. \A i \in 1..7 : Fitting(F[i], i, 7, m[F[i].name])
  <2>1. Fitting(F[1], 1, 7, m["rid"]) /\ F[1].name = "rid"
    BY <1>1, <1>2, TextFits DEF Field
  <2>2. Fitting(F[2], 2, 7, m["cid"]) /\ F[2].name = "cid"
    BY <1>1, <1>2, TextFits DEF Field
  <2>3. Fitting(F[3], 3, 7, m["queue_name"]) /\ F[3].name = "queue_name"
    BY <1>1, <1>2, TextFits DEF Field
  <2>4. Fitting(F[4], 4, 7, m["exclusive"]) /\ F[4].name = "exclusive"
    BY <1>1, <1>2, FlagFits DEF Field
  <2>5. Fitting(F[5], 5, 7, m["durable"]) /\ F[5].name = "durable"
    BY <1>1, <1>2, FlagFits DEF Field
  <2>6. Fitting(F[6], 6, 7, m["auto_delete"]) /\ F[6].name = "auto_delete"
    BY <1>1, <1>2, FlagFits DEF Field
  <2>7. Fitting(F[7], 7, 7, m["args"]) /\ F[7].name = "args"
    BY <1>1, <1>2, MapFits DEF MapField
  <2> QED BY <1>3, <2>1, <2>2, <2>3, <2>4, <2>5, <2>6, <2>7
<1> QED BY ONLY <1>1, <1>2, <1>4, <1>5, 7 \in 1..15, FitsTogether DEF F

\* The objects of the class deleteQueueRequest.
LEMMA deleteQueueRequestFits ==
    ASSUME NEW m, m \in [rid : AnyText, cid : AnyText, queue_name : AnyText]
    PROVE  Fits(deleteQueueRequest_fields, m)
<1> DEFINE F == deleteQueueRequest_fields
           names == {"rid", "cid", "queue_name"}
<1>1. /\ Len(F) = 3 /\ DOMAIN F = 1..3
      /\ F[1] = Field(1, "rid", "string") /\ F[2] = Field(2, "cid", "string")
      /\ F[3] = Field(3, "queue_name", "string")
  BY DEF deleteQueueRequest_fields
<1>2. m = [name \in names |-> m[name]] /\ \A name \in names : m[name] \in AnyText
  OBVIOUS
<1>3. \A i : i \in 1..3 <=> i = 1 \/ i = 2 \/ i = 3
  OBVIOUS
<1> HIDE DEF F
<1>4. names = {F[i].name : i \in 1..3} /\ \A i, j \in 1..3 : F[i].name = F[j].name => i = j
  BY <1>1, <1>3 DEF Field
<1> HIDE DEF names
<1>5. \A i \in 1..3 : F[i] = Field(i, F[i].name, "string")
  BY <1>1, <1>3 DEF Field
<1> QED BY ONLY <1>1, <1>2, <1>4, <1>5, 3 \in 1..15, TextsFit DEF F

\* The objects of the class bindRequest.
LEMMA bindRequestFits ==
    ASSUME NEW m, m \in [rid : AnyText, cid : AnyText, exchange_name : AnyText, queue_name : AnyText,
                          binding_key : AnyText]
    PROVE  Fits(bindRequest_fields, m)
<1> DEFINE F == bindRequest_fields
           names == {"rid", "cid", "exchange_name", "queue_name", "binding_key"}
<1>1. /\ Len(F) = 5 /\ DOMAIN F = 1..5
      /\ F[1] = Field(1, "rid", "string") /\ F[2] = Field(2, "cid", "string")
      /\ F[3] = Field(3, "exchange_name", "string") /\ F[4] = Field(4, "queue_name", "string")
      /\ F[5] = Field(5, "binding_key", "string")
  BY DEF bindRequest_fields
<1>2. m = [name \in names |-> m[name]] /\ \A name \in names : m[name] \in AnyText
  OBVIOUS
<1>3. \A i : i \in 1..5 <=> i = 1 \/ i = 2 \/ i = 3 \/ i = 4 \/ i = 5
  OBVIOUS
<1> HIDE DEF F
<1>4. names = {F[i].name : i \in 1..5} /\ \A i, j \in 1..5 : F[i].name = F[j].name => i = j
  BY <1>1, <1>3 DEF Field
<1> HIDE DEF names
<1>5. \A i \in 1..5 : F[i] = Field(i, F[i].name, "string")
  BY <1>1, <1>3 DEF Field
<1> QED BY ONLY <1>1, <1>2, <1>4, <1>5, 5 \in 1..15, TextsFit DEF F

\* The objects of the class unbindRequest.
LEMMA unbindRequestFits ==
    ASSUME NEW m, m \in [rid : AnyText, cid : AnyText, exchange_name : AnyText, queue_name : AnyText]
    PROVE  Fits(unbindRequest_fields, m)
<1> DEFINE F == unbindRequest_fields
           names == {"rid", "cid", "exchange_name", "queue_name"}
<1>1. /\ Len(F) = 4 /\ DOMAIN F = 1..4
      /\ F[1] = Field(1, "rid", "string") /\ F[2] = Field(2, "cid", "string")
      /\ F[3] = Field(3, "exchange_name", "string") /\ F[4] = Field(4, "queue_name", "string")
  BY DEF unbindRequest_fields
<1>2. m = [name \in names |-> m[name]] /\ \A name \in names : m[name] \in AnyText
  OBVIOUS
<1>3. \A i : i \in 1..4 <=> i = 1 \/ i = 2 \/ i = 3 \/ i = 4
  OBVIOUS
<1> HIDE DEF F
<1>4. names = {F[i].name : i \in 1..4} /\ \A i, j \in 1..4 : F[i].name = F[j].name => i = j
  BY <1>1, <1>3 DEF Field
<1> HIDE DEF names
<1>5. \A i \in 1..4 : F[i] = Field(i, F[i].name, "string")
  BY <1>1, <1>3 DEF Field
<1> QED BY ONLY <1>1, <1>2, <1>4, <1>5, 4 \in 1..15, TextsFit DEF F

\* The objects of the class basicPublishRequest.
LEMMA basicPublishRequestFits ==
    ASSUME NEW m, m \in [rid : AnyText, cid : AnyText, exchange_name : AnyText, body : AnyText,
                          properties : Optional(AnyProperties)]
    PROVE  Fits(basicPublishRequest_fields, m)
<1> DEFINE F == basicPublishRequest_fields
           names == {"rid", "cid", "exchange_name", "body", "properties"}
<1>1. /\ Len(F) = 5 /\ DOMAIN F = 1..5
      /\ F[1] = Field(1, "rid", "string") /\ F[2] = Field(2, "cid", "string")
      /\ F[3] = Field(3, "exchange_name", "string") /\ F[4] = Field(4, "body", "string")
      /\ F[5] = Submessage(5, "properties", BasicProperties_fields)
  BY DEF basicPublishRequest_fields
<1>2. /\ m = [name \in names |-> m[name]]
      /\ m["rid"] \in AnyText /\ m["cid"] \in AnyText /\ m["exchange_name"] \in AnyText /\ m["body"] \in AnyText
      /\ m["properties"] \in Optional(AnyProperties)
  OBVIOUS
<1>3. \A i : i \in 1..5 <=> i = 1 \/ i = 2 \/ i = 3 \/ i = 4 \/ i = 5
  OBVIOUS
<1> HIDE DEF F
<1>4. names = {F[i].name : i \in 1..5} /\ \A i, j \in 1..5 : F[i].name = F[j].name => i = j
  BY <1>1, <1>3 DEF Field, Submessage
<1> HIDE DEF names
<1>5. \A i \in 1..5 : Fitting(F[i], i, 5, m[F[i].name])
  <2>1. Fitting(F[1], 1, 5, m["rid"]) /\ F[1].name = "rid"
    BY <1>1, <1>2, TextFits DEF Field
  <2>2. Fitting(F[2], 2, 5, m["cid"]) /\ F[2].name = "cid"
    BY <1>1, <1>2, TextFits DEF Field
  <2>3. Fitting(F[3], 3, 5, m["exchange_name"]) /\ F[3].name = "exchange_name"
    BY <1>1, <1>2, TextFits DEF Field
  <2>4. Fitting(F[4], 4, 5, m["body"]) /\ F[4].name = "body"
    BY <1>1, <1>2, TextFits DEF Field
  <2>5. Fitting(F[5], 5, 5, m["properties"]) /\ F[5].name = "properties"
    BY <1>1, <1>2, PropertiesFit DEF Submessage
  <2> QED BY <1>3, <2>1, <2>2, <2>3, <2>4, <2>5
<1> QED BY ONLY <1>1, <1>2, <1>4, <1>5, 5 \in 1..15, FitsTogether DEF F

\* The objects of the class basicAckRequest.
LEMMA basicAckRequestFits ==
    ASSUME NEW m, m \in [rid : AnyText, cid : AnyText, queue_name : AnyText, message_id : AnyText]
    PROVE  Fits(basicAckRequest_fields, m)
<1> DEFINE F == basicAckRequest_fields
           names == {"rid", "cid", "queue_name", "message_id"}
<1>1. /\ Len(F) = 4 /\ DOMAIN F = 1..4
      /\ F[1] = Field(1, "rid", "string") /\ F[2] = Field(2, "cid", "string")
      /\ F[3] = Field(3, "queue_name", "string") /\ F[4] = Field(4, "message_id", "string")
  BY DEF basicAckRequest_fields
<1>2. m = [name \in names |-> m[name]] /\ \A name \in names : m[name] \in AnyText
  OBVIOUS
<1>3. \A i : i \in 1..4 <=> i = 1 \/ i = 2 \/ i = 3 \/ i = 4
  OBVIOUS
<1> HIDE DEF F
<1>4. names = {F[i].name : i \in 1..4} /\ \A i, j \in 1..4 : F[i].name = F[j].name => i = j
  BY <1>1, <1>3 DEF Field
<1> HIDE DEF names
<1>5. \A i \in 1..4 : F[i] = Field(i, F[i].name, "string")
  BY <1>1, <1>3 DEF Field
<1> QED BY ONLY <1>1, <1>2, <1>4, <1>5, 4 \in 1..15, TextsFit DEF F

\* The objects of the class basicConsumeRequest.
LEMMA basicConsumeRequestFits ==
    ASSUME NEW m, m \in [rid : AnyText, cid : AnyText, consumer_tag : AnyText, queue_name : AnyText,
                          auto_ack : BOOLEAN]
    PROVE  Fits(basicConsumeRequest_fields, m)
<1> DEFINE F == basicConsumeRequest_fields
           names == {"rid", "cid", "consumer_tag", "queue_name", "auto_ack"}
<1>1. /\ Len(F) = 5 /\ DOMAIN F = 1..5
      /\ F[1] = Field(1, "rid", "string") /\ F[2] = Field(2, "cid", "string")
      /\ F[3] = Field(3, "consumer_tag", "string") /\ F[4] = Field(4, "queue_name", "string")
      /\ F[5] = Field(5, "auto_ack", "bool")
  BY DEF basicConsumeRequest_fields
<1>2. /\ m = [name \in names |-> m[name]]
      /\ m["rid"] \in AnyText /\ m["cid"] \in AnyText /\ m["consumer_tag"] \in AnyText
      /\ m["queue_name"] \in AnyText /\ m["auto_ack"] \in BOOLEAN
  OBVIOUS
<1>3. \A i : i \in 1..5 <=> i = 1 \/ i = 2 \/ i = 3 \/ i = 4 \/ i = 5
  OBVIOUS
<1> HIDE DEF F
<1>4. names = {F[i].name : i \in 1..5} /\ \A i, j \in 1..5 : F[i].name = F[j].name => i = j
  BY <1>1, <1>3 DEF Field
<1> HIDE DEF names
<1>5. \A i \in 1..5 : Fitting(F[i], i, 5, m[F[i].name])
  <2>1. Fitting(F[1], 1, 5, m["rid"]) /\ F[1].name = "rid"
    BY <1>1, <1>2, TextFits DEF Field
  <2>2. Fitting(F[2], 2, 5, m["cid"]) /\ F[2].name = "cid"
    BY <1>1, <1>2, TextFits DEF Field
  <2>3. Fitting(F[3], 3, 5, m["consumer_tag"]) /\ F[3].name = "consumer_tag"
    BY <1>1, <1>2, TextFits DEF Field
  <2>4. Fitting(F[4], 4, 5, m["queue_name"]) /\ F[4].name = "queue_name"
    BY <1>1, <1>2, TextFits DEF Field
  <2>5. Fitting(F[5], 5, 5, m["auto_ack"]) /\ F[5].name = "auto_ack"
    BY <1>1, <1>2, FlagFits DEF Field
  <2> QED BY <1>3, <2>1, <2>2, <2>3, <2>4, <2>5
<1> QED BY ONLY <1>1, <1>2, <1>4, <1>5, 5 \in 1..15, FitsTogether DEF F

\* The objects of the class basicCancelRequest.
LEMMA basicCancelRequestFits ==
    ASSUME NEW m, m \in [rid : AnyText, cid : AnyText, consumer_tag : AnyText, queue_name : AnyText]
    PROVE  Fits(basicCancelRequest_fields, m)
<1> DEFINE F == basicCancelRequest_fields
           names == {"rid", "cid", "consumer_tag", "queue_name"}
<1>1. /\ Len(F) = 4 /\ DOMAIN F = 1..4
      /\ F[1] = Field(1, "rid", "string") /\ F[2] = Field(2, "cid", "string")
      /\ F[3] = Field(3, "consumer_tag", "string") /\ F[4] = Field(4, "queue_name", "string")
  BY DEF basicCancelRequest_fields
<1>2. m = [name \in names |-> m[name]] /\ \A name \in names : m[name] \in AnyText
  OBVIOUS
<1>3. \A i : i \in 1..4 <=> i = 1 \/ i = 2 \/ i = 3 \/ i = 4
  OBVIOUS
<1> HIDE DEF F
<1>4. names = {F[i].name : i \in 1..4} /\ \A i, j \in 1..4 : F[i].name = F[j].name => i = j
  BY <1>1, <1>3 DEF Field
<1> HIDE DEF names
<1>5. \A i \in 1..4 : F[i] = Field(i, F[i].name, "string")
  BY <1>1, <1>3 DEF Field
<1> QED BY ONLY <1>1, <1>2, <1>4, <1>5, 4 \in 1..15, TextsFit DEF F

\* The objects of the class basicQueryRequest.
LEMMA basicQueryRequestFits ==
    ASSUME NEW m, m \in [rid : AnyText, cid : AnyText]
    PROVE  Fits(basicQueryRequest_fields, m)
<1> DEFINE F == basicQueryRequest_fields
           names == {"rid", "cid"}
<1>1. /\ Len(F) = 2 /\ DOMAIN F = 1..2
      /\ F[1] = Field(1, "rid", "string") /\ F[2] = Field(2, "cid", "string")
  BY DEF basicQueryRequest_fields
<1>2. m = [name \in names |-> m[name]] /\ \A name \in names : m[name] \in AnyText
  OBVIOUS
<1>3. \A i : i \in 1..2 <=> i = 1 \/ i = 2
  OBVIOUS
<1> HIDE DEF F
<1>4. names = {F[i].name : i \in 1..2} /\ \A i, j \in 1..2 : F[i].name = F[j].name => i = j
  BY <1>1, <1>3 DEF Field
<1> HIDE DEF names
<1>5. \A i \in 1..2 : F[i] = Field(i, F[i].name, "string")
  BY <1>1, <1>3 DEF Field
<1> QED BY ONLY <1>1, <1>2, <1>4, <1>5, 2 \in 1..15, TextsFit DEF F

\* The objects of the class basicCommonResponse.
LEMMA basicCommonResponseFits ==
    ASSUME NEW m, m \in [rid : AnyText, cid : AnyText, ok : BOOLEAN]
    PROVE  Fits(basicCommonResponse_fields, m)
<1> DEFINE F == basicCommonResponse_fields
           names == {"rid", "cid", "ok"}
<1>1. /\ Len(F) = 3 /\ DOMAIN F = 1..3
      /\ F[1] = Field(1, "rid", "string") /\ F[2] = Field(2, "cid", "string") /\ F[3] = Field(3, "ok", "bool")
  BY DEF basicCommonResponse_fields
<1>2. /\ m = [name \in names |-> m[name]]
      /\ m["rid"] \in AnyText /\ m["cid"] \in AnyText /\ m["ok"] \in BOOLEAN
  OBVIOUS
<1>3. \A i : i \in 1..3 <=> i = 1 \/ i = 2 \/ i = 3
  OBVIOUS
<1> HIDE DEF F
<1>4. names = {F[i].name : i \in 1..3} /\ \A i, j \in 1..3 : F[i].name = F[j].name => i = j
  BY <1>1, <1>3 DEF Field
<1> HIDE DEF names
<1>5. \A i \in 1..3 : Fitting(F[i], i, 3, m[F[i].name])
  <2>1. Fitting(F[1], 1, 3, m["rid"]) /\ F[1].name = "rid"
    BY <1>1, <1>2, TextFits DEF Field
  <2>2. Fitting(F[2], 2, 3, m["cid"]) /\ F[2].name = "cid"
    BY <1>1, <1>2, TextFits DEF Field
  <2>3. Fitting(F[3], 3, 3, m["ok"]) /\ F[3].name = "ok"
    BY <1>1, <1>2, FlagFits DEF Field
  <2> QED BY <1>3, <2>1, <2>2, <2>3
<1> QED BY ONLY <1>1, <1>2, <1>4, <1>5, 3 \in 1..15, FitsTogether DEF F

\* The objects of the class basicConsumeResponse.
LEMMA basicConsumeResponseFits ==
    ASSUME NEW m, m \in [cid : AnyText, consumer_tag : AnyText, body : AnyText,
                          properties : Optional(AnyProperties)]
    PROVE  Fits(basicConsumeResponse_fields, m)
<1> DEFINE F == basicConsumeResponse_fields
           names == {"cid", "consumer_tag", "body", "properties"}
<1>1. /\ Len(F) = 4 /\ DOMAIN F = 1..4
      /\ F[1] = Field(1, "cid", "string") /\ F[2] = Field(2, "consumer_tag", "string")
      /\ F[3] = Field(3, "body", "string") /\ F[4] = Submessage(4, "properties", BasicProperties_fields)
  BY DEF basicConsumeResponse_fields
<1>2. /\ m = [name \in names |-> m[name]]
      /\ m["cid"] \in AnyText /\ m["consumer_tag"] \in AnyText /\ m["body"] \in AnyText
      /\ m["properties"] \in Optional(AnyProperties)
  OBVIOUS
<1>3. \A i : i \in 1..4 <=> i = 1 \/ i = 2 \/ i = 3 \/ i = 4
  OBVIOUS
<1> HIDE DEF F
<1>4. names = {F[i].name : i \in 1..4} /\ \A i, j \in 1..4 : F[i].name = F[j].name => i = j
  BY <1>1, <1>3 DEF Field, Submessage
<1> HIDE DEF names
<1>5. \A i \in 1..4 : Fitting(F[i], i, 4, m[F[i].name])
  <2>1. Fitting(F[1], 1, 4, m["cid"]) /\ F[1].name = "cid"
    BY <1>1, <1>2, TextFits DEF Field
  <2>2. Fitting(F[2], 2, 4, m["consumer_tag"]) /\ F[2].name = "consumer_tag"
    BY <1>1, <1>2, TextFits DEF Field
  <2>3. Fitting(F[3], 3, 4, m["body"]) /\ F[3].name = "body"
    BY <1>1, <1>2, TextFits DEF Field
  <2>4. Fitting(F[4], 4, 4, m["properties"]) /\ F[4].name = "properties"
    BY <1>1, <1>2, PropertiesFit DEF Submessage
  <2> QED BY <1>3, <2>1, <2>2, <2>3, <2>4
<1> QED BY ONLY <1>1, <1>2, <1>4, <1>5, 4 \in 1..15, FitsTogether DEF F

\* The objects of the class basicQueryResponse.
LEMMA basicQueryResponseFits ==
    ASSUME NEW m, m \in [rid : AnyText, cid : AnyText, body : AnyText]
    PROVE  Fits(basicQueryResponse_fields, m)
<1> DEFINE F == basicQueryResponse_fields
           names == {"rid", "cid", "body"}
<1>1. /\ Len(F) = 3 /\ DOMAIN F = 1..3
      /\ F[1] = Field(1, "rid", "string") /\ F[2] = Field(2, "cid", "string")
      /\ F[3] = Field(3, "body", "string")
  BY DEF basicQueryResponse_fields
<1>2. m = [name \in names |-> m[name]] /\ \A name \in names : m[name] \in AnyText
  OBVIOUS
<1>3. \A i : i \in 1..3 <=> i = 1 \/ i = 2 \/ i = 3
  OBVIOUS
<1> HIDE DEF F
<1>4. names = {F[i].name : i \in 1..3} /\ \A i, j \in 1..3 : F[i].name = F[j].name => i = j
  BY <1>1, <1>3 DEF Field
<1> HIDE DEF names
<1>5. \A i \in 1..3 : F[i] = Field(i, F[i].name, "string")
  BY <1>1, <1>3 DEF Field
<1> QED BY ONLY <1>1, <1>2, <1>4, <1>5, 3 \in 1..15, TextsFit DEF F

-----------------------------------------------------------------------------
(* From one end to the other *)

\* An object of a class that goes over a connection.
Sendable(class, m) == class \in DOMAIN FieldsOf /\ Fits(FieldsOf[class], m)

\* The constants hold texts and maps of texts.
LEMMA TextIs == \A t \in Seq(Byte) : t \in AnyText
<1>1. Byte \subseteq Nat
  BY DEF Byte
<1> HIDE DEF Byte
<1>2. ASSUME NEW t \in Seq(Byte) PROVE t \in Seq(Nat)
  <2>1. Len(t) \in Nat /\ t \in [1..Len(t) -> Byte]
    OBVIOUS
  <2>2. t \in [1..Len(t) -> Nat]
    BY <1>1, <2>1
  <2> QED BY <2>1, <2>2, IsASeq
<1> QED BY <1>2 DEF AnyText

\* So do the objects a program may make of them.
LEMMA Texts == Id \subseteq AnyText /\ Text \subseteq AnyText /\ ArgMaps \subseteq AnyMap
<1>1. \A t \in Seq(Byte) : t \in Seq(Nat)
  BY TextIs DEF AnyText
<1>2. ASSUME NEW map \in ArgMaps PROVE map \in AnyMap
  <2>1. IsFiniteSet(map) /\ map \subseteq Seq(Byte) \X Seq(Byte) /\ \A p, r \in map : p[1] = r[1] => p = r
    BY ProtocolAssumption
  <2>2. map \subseteq Seq(Nat) \X Seq(Nat)
    BY <1>1, <2>1
  <2> QED BY <2>1, <2>2 DEF AnyMap, IsMap
<1> QED BY <1>1, <1>2, ProtocolAssumption DEF AnyText

\* The bytes of an object.
LEMMA EncodedIs ==
    ASSUME NEW class, NEW m, Sendable(class, m), NEW text, text \in Encoded(class, m)
    PROVE  text \in Seq(Nat)
<1> DEFINE fields == FieldsOf[class]
<1>1. PICK pairs \in Orders(fields, m) : text = Serialize(fields, m, pairs)
  BY DEF Encoded
<1>2. Full(fields) /\ HoldsAll(fields, m) /\ Len(fields) \in Nat
  BY DEF Sendable, Fits, Full, Numbered
<1> HIDE DEF fields
<1> DEFINE N == Len(fields)
<1>3. PICK pieces : Serialize(fields, m, pairs) = FlattenSeq(pieces)
                    /\ pieces \in [1..N -> Seq(Nat)] /\ pieces \in Seq(Seq(Nat)) /\ Len(pieces) = N
  BY <1>2, FieldsWritten
<1> HIDE DEF N
<1>4. FlattenSeq(pieces) \in Seq(Nat)
  BY <1>2, <1>3, FlattenedLayout DEF N
<1> QED BY <1>1, <1>3, <1>4

\* What the codec of one end writes, the codec of the other reads, if it is not too long and
\* no text of it is refused.
Arrives(class, m, parsed) ==
    /\ parsed.ok \in BOOLEAN
    /\ parsed.ok => Legible(FieldsOf[class], m) /\ parsed.m = m
    /\ ~parsed.ok => ~Legible(FieldsOf[class], m) \/ ~\A t \in Encoded(class, m) : Len(t) <= MaxMessage

\* An object arrives if its texts are UTF-8 and it is not longer than the codec takes, and is refused otherwise.
LEMMA CodecReads ==
    ASSUME NEW class, NEW m, Sendable(class, m), NEW text, text \in Encoded(class, m)
    PROVE  Arrives(class, m, Decoded(class, text))
<1> DEFINE fields == FieldsOf[class]
           parsed == Decoded(class, text)
<1>1. text \in Seq(Nat) /\ Len(text) \in Nat
  BY EncodedIs
<1>2. MaxMessage \in Nat /\ MaxMessage < Two28 /\ Two28 \in Nat
  BY SessionAssumption, SMT DEF Two28
<1>3. CASE Len(text) > MaxMessage
  <2>1. parsed = Parsed(FALSE, Cleared(fields))
    BY <1>3, Zenon DEF Decoded
  <2>2. parsed.ok = FALSE
    <3> HIDE DEF parsed
    <3> QED BY <2>1, Zenon DEF Parsed
  <2>3. ~(Len(text) <= MaxMessage)
    BY <1>1, <1>2, <1>3
  <2> HIDE DEF parsed
  <2> QED BY <2>2, <2>3, Zenon DEF Arrives, parsed
<1>4. CASE ~(Len(text) > MaxMessage)
  <2>1. parsed = ParseFromString(fields, text)
    BY <1>4, Zenon DEF Decoded
  <2>2. PICK pairs \in Orders(fields, m) : text = Serialize(fields, m, pairs)
    BY DEF Encoded
  <2>3. Full(fields) /\ HoldsAll(fields, m)
    BY DEF Sendable, Fits
  <2>4. Len(text) < Two28
    BY <1>1, <1>2, <1>4
  <2>5. ReadBack(fields, text, m)
    <3> HIDE DEF fields
    <3> QED BY <2>2, <2>3, <2>4, ParseBack
  <2>6. ASSUME Legible(fields, m) PROVE Arrives(class, m, parsed)
    <3>1. parsed = Reading(TRUE, m, Len(text))
      BY <2>1, <2>5, <2>6 DEF ReadBack
    <3>2. parsed.ok = TRUE /\ parsed.m = m
      <4> HIDE DEF parsed
      <4> QED BY <3>1, Zenon DEF Reading
    <3> HIDE DEF parsed
    <3> QED BY <2>6, <3>2, Zenon DEF Arrives, parsed
  <2>7. ASSUME ~Legible(fields, m) PROVE Arrives(class, m, parsed)
    <3>1. parsed.ok = FALSE
      BY <2>1, <2>5, <2>7 DEF ReadBack
    <3> HIDE DEF parsed
    <3> QED BY <2>7, <3>1, Zenon DEF Arrives, parsed
  <2> QED BY <2>6, <2>7
<1> QED BY <1>3, <1>4

\* What other_args means is a map of texts.
LEMMA PartsAreTexts ==
    ASSUME NEW s \in Seq(Nat), NEW sep, Has(s, sep)
    PROVE  Cut(s, sep)[1] \in Seq(Nat) /\ Cut(s, sep)[2] \in Seq(Nat) /\ Cut(s, sep) = <<Cut(s, sep)[1], Cut(s, sep)[2]>>
<1> DEFINE First(i) == s[i] = sep /\ ~Has(SubSeq(s, 1, i - 1), sep)
           pos == CHOOSE i \in DOMAIN s : First(i)
           N == Len(s)
<1>1. N \in Nat /\ DOMAIN s = 1..N
  OBVIOUS
<1>2. \E i \in DOMAIN s : First(i)
  <2> DEFINE T == {i \in 1..N : s[i] = sep}
  <2>1. T \subseteq Nat /\ T /= {}
    BY <1>1 DEF Has
  <2>2. PICK i \in T : \A j \in T : i <= j
    <3> HIDE DEF T
    <3> QED BY <2>1, Smallest
  <2>3. i \in 1..N /\ s[i] = sep /\ \A j \in 1..N : s[j] = sep => i <= j
    BY <2>2
  <2>4. ~Has(SubSeq(s, 1, i - 1), sep)
    <3>1. \A j \in DOMAIN SubSeq(s, 1, i - 1) : j \in 1..(i - 1) /\ SubSeq(s, 1, i - 1)[j] = s[j]
      BY <1>1, <2>3
    <3>2. \A j \in 1..(i - 1) : j \in 1..N /\ ~(i <= j)
      BY <1>1, <2>3
    <3> QED BY <2>3, <3>1, <3>2 DEF Has
  <2> QED BY <1>1, <2>3, <2>4
<1>3. pos \in 1..N
  <2>1. pos \in DOMAIN s
    <3> HIDE DEF First
    <3> QED BY <1>2, Zenon
  <2> HIDE DEF pos
  <2> QED BY <1>1, <2>1
<1>4. Cut(s, sep) = <<SubSeq(s, 1, pos - 1), SubSeq(s, pos + 1, N)>>
  BY Zenon DEF Cut
<1> HIDE DEF pos, N
<1> DEFINE left == SubSeq(s, 1, pos - 1)
           right == SubSeq(s, pos + 1, N)
<1>5. left \in Seq(Nat) /\ right \in Seq(Nat)
  BY <1>1, <1>3 DEF N
<1>6. Cut(s, sep) = <<left, right>>
  BY <1>4
<1> HIDE DEF left, right
<1> QED BY <1>5, <1>6

\* The args of a line that is done are a map: a key typed twice keeps its first value.
LEMMA ArgsAreMap ==
    ASSUME NEW words, words \in Seq(Seq(Nat)), ArgsLegal(words)
    PROVE  ArgsOf(words) \in AnyMap
<1> DEFINE pieces == Pieces(words)
           New(i) == \A j \in 1..(i - 1) : Cut(pieces[j], 61)[1] /= Cut(pieces[i], 61)[1]
           kept == {i \in DOMAIN pieces : New(i)}
<1>1. ArgsOf(words) = {Cut(pieces[i], 61) : i \in kept}
  BY Zenon DEF ArgsOf
<1>2. \E n \in Nat : DOMAIN pieces = 1..n /\ \A i \in 1..n : pieces[i] \in Seq(Nat)
  <2>1. CASE words = <<>> \/ words[1] = <<>>
    <3>1. pieces = <<>>
      BY <2>1, Zenon DEF Pieces
    <3>2. DOMAIN pieces = 1..0 /\ \A i \in 1..0 : pieces[i] \in Seq(Nat)
      BY <3>1
    <3> HIDE DEF pieces
    <3> QED BY <3>2
  <2>2. CASE ~(words = <<>> \/ words[1] = <<>>)
    <3>1. pieces = Split(words[1], 38)
      BY <2>2, Zenon DEF Pieces
    <3>2. words[1] \in Seq(Nat)
      BY <2>2
    <3> DEFINE s == words[1]
               n == Len(Split(s, 38))
    <3>3. s \in Seq(Nat) /\ Len(s) \in Nat
      BY <3>2
    <3> HIDE DEF s
    <3>4. DOMAIN Split(s, 38) = 1..n /\ n \in Nat
      BY <3>3, SplitFacts
    <3>5. \A i \in 1..n : Split(s, 38)[i] \in Seq(Nat)
      BY <3>3, WordsAreTexts
    <3> QED BY <3>1, <3>4, <3>5 DEF s
  <2> QED BY <2>1, <2>2
<1>3. PICK n \in Nat : DOMAIN pieces = 1..n /\ \A i \in 1..n : pieces[i] \in Seq(Nat)
  BY <1>2
<1>4. \A i \in DOMAIN pieces : Has(pieces[i], 61)
  BY DEF ArgsLegal
<1> HIDE DEF pieces
<1>5. ASSUME NEW i \in 1..n
      PROVE  Cut(pieces[i], 61)[1] \in Seq(Nat) /\ Cut(pieces[i], 61)[2] \in Seq(Nat)
             /\ Cut(pieces[i], 61) = <<Cut(pieces[i], 61)[1], Cut(pieces[i], 61)[2]>>
  BY <1>3, <1>4, PartsAreTexts
<1> DEFINE of == [i \in kept |-> Cut(pieces[i], 61)]
           map == {Cut(pieces[i], 61) : i \in kept}
<1>6. IsFiniteSet(map)
  <2>1. IsFiniteSet(kept)
    <3>1. IsFiniteSet(1..n) /\ kept \subseteq 1..n
      BY <1>3, FS_Interval
    <3> HIDE DEF kept
    <3> QED BY <3>1, FS_Subset
  <2>2. of \in Surjection(kept, map)
    <3> HIDE DEF kept
    <3> QED BY DEF Surjection
  <2> HIDE DEF of, map, kept
  <2> QED BY <2>1, <2>2, FS_Surjection
<1>7. map \subseteq Seq(Nat) \X Seq(Nat)
  BY <1>3, <1>5
<1>8. ASSUME NEW p \in map, NEW r \in map, p[1] = r[1] PROVE p = r
  <2>1. PICK i \in kept : p = Cut(pieces[i], 61)
    OBVIOUS
  <2>2. PICK j \in kept : r = Cut(pieces[j], 61)
    OBVIOUS
  <2>3. i \in 1..n /\ j \in 1..n /\ New(i) /\ New(j)
    BY <1>3
  <2>4. i = j
    <3>1. i < j => i \in 1..(j - 1)
      BY <2>3
    <3>2. j < i => j \in 1..(i - 1)
      BY <2>3
    <3>3. i < j \/ j < i \/ i = j
      BY <2>3
    <3> QED BY <1>8, <2>1, <2>2, <2>3, <3>1, <3>2, <3>3
  <2> QED BY <2>1, <2>2, <2>4
<1> HIDE DEF kept, map, New
<1> QED BY <1>1, <1>6, <1>7, <1>8 DEF AnyMap, IsMap, map

\* A request: the broker has a handler for its class, and it goes over a connection.
Proper(r) ==
    /\ r.class \in DOMAIN Requests /\ Sendable(r.class, r.req)
    /\ r.req.rid \in AnyText /\ r.req.cid \in AnyText

\* What a program may ask for.
LEMMA CallsAreProper ==
    ASSUME NEW class \in DOMAIN Requests, NEW req \in Requests[class]
    PROVE  Proper([class |-> class, req |-> req])
<1> DEFINE r == [class |-> class, req |-> req]
<1>0. r.class = class /\ r.req = req
  OBVIOUS
<1>1. /\ Id \subseteq AnyText /\ Text \subseteq AnyText /\ ArgMaps \subseteq AnyMap
      /\ Optional(BasicProperties) \subseteq Optional(AnyProperties)
  BY Texts DEF Optional, BasicProperties, AnyProperties
<1> HIDE DEF r
<1> SUFFICES Sendable(class, req) /\ req.rid \in AnyText /\ req.cid \in AnyText
  BY <1>0 DEF Proper
<1>2. CASE class = "openChannelRequest"
  <2>1. req \in [rid : AnyText, cid : AnyText]
    BY <1>1, <1>2 DEF Requests, openChannelRequest
  <2> QED BY <1>2, <2>1, openChannelRequestFits DEF FieldsOf, Sendable
<1>3. CASE class = "closeChannelRequest"
  <2>1. req \in [rid : AnyText, cid : AnyText]
    BY <1>1, <1>3 DEF Requests, closeChannelRequest
  <2> QED BY <1>3, <2>1, closeChannelRequestFits DEF FieldsOf, Sendable
<1>4. CASE class = "declareExchangeRequest"
  <2>1. req \in [rid : AnyText, cid : AnyText, exchange_name : AnyText, exchange_type : ExchangeType,
                 durable : BOOLEAN, auto_delete : BOOLEAN, args : AnyMap]
    BY <1>1, <1>4 DEF Requests, declareExchangeRequest
  <2> QED BY <1>4, <2>1, declareExchangeRequestFits DEF FieldsOf, Sendable
<1>5. CASE class = "deleteExchangeRequest"
  <2>1. req \in [rid : AnyText, cid : AnyText, exchange_name : AnyText]
    BY <1>1, <1>5 DEF Requests, deleteExchangeRequest
  <2> QED BY <1>5, <2>1, deleteExchangeRequestFits DEF FieldsOf, Sendable
<1>6. CASE class = "declareQueueRequest"
  <2>1. req \in [rid : AnyText, cid : AnyText, queue_name : AnyText, exclusive : BOOLEAN,
                 durable : BOOLEAN, auto_delete : BOOLEAN, args : AnyMap]
    BY <1>1, <1>6 DEF Requests, declareQueueRequest
  <2> QED BY <1>6, <2>1, declareQueueRequestFits DEF FieldsOf, Sendable
<1>7. CASE class = "deleteQueueRequest"
  <2>1. req \in [rid : AnyText, cid : AnyText, queue_name : AnyText]
    BY <1>1, <1>7 DEF Requests, deleteQueueRequest
  <2> QED BY <1>7, <2>1, deleteQueueRequestFits DEF FieldsOf, Sendable
<1>8. CASE class = "bindRequest"
  <2>1. req \in [rid : AnyText, cid : AnyText, exchange_name : AnyText, queue_name : AnyText,
                 binding_key : AnyText]
    BY <1>1, <1>8 DEF Requests, bindRequest
  <2> QED BY <1>8, <2>1, bindRequestFits DEF FieldsOf, Sendable
<1>9. CASE class = "unbindRequest"
  <2>1. req \in [rid : AnyText, cid : AnyText, exchange_name : AnyText, queue_name : AnyText]
    BY <1>1, <1>9 DEF Requests, unbindRequest
  <2> QED BY <1>9, <2>1, unbindRequestFits DEF FieldsOf, Sendable
<1>10. CASE class = "basicPublishRequest"
  <2>1. req \in [rid : AnyText, cid : AnyText, exchange_name : AnyText, body : AnyText,
                 properties : Optional(AnyProperties)]
    BY <1>1, <1>10 DEF Requests, basicPublishRequest
  <2> QED BY <1>10, <2>1, basicPublishRequestFits DEF FieldsOf, Sendable
<1>11. CASE class = "basicAckRequest"
  <2>1. req \in [rid : AnyText, cid : AnyText, queue_name : AnyText, message_id : AnyText]
    BY <1>1, <1>11 DEF Requests, basicAckRequest
  <2> QED BY <1>11, <2>1, basicAckRequestFits DEF FieldsOf, Sendable
<1>12. CASE class = "basicConsumeRequest"
  <2>1. req \in [rid : AnyText, cid : AnyText, consumer_tag : AnyText, queue_name : AnyText,
                 auto_ack : BOOLEAN]
    BY <1>1, <1>12 DEF Requests, basicConsumeRequest
  <2> QED BY <1>12, <2>1, basicConsumeRequestFits DEF FieldsOf, Sendable
<1>13. CASE class = "basicCancelRequest"
  <2>1. req \in [rid : AnyText, cid : AnyText, consumer_tag : AnyText, queue_name : AnyText]
    BY <1>1, <1>13 DEF Requests, basicCancelRequest
  <2> QED BY <1>13, <2>1, basicCancelRequestFits DEF FieldsOf, Sendable
<1>14. CASE class = "basicQueryRequest"
  <2>1. req \in [rid : AnyText, cid : AnyText]
    BY <1>1, <1>14 DEF Requests, basicQueryRequest
  <2> QED BY <1>14, <2>1, basicQueryRequestFits DEF FieldsOf, Sendable
<1> QED BY <1>2, <1>3, <1>4, <1>5, <1>6, <1>7, <1>8, <1>9, <1>10, <1>11, <1>12, <1>13, <1>14 DEF Requests

\* A word for a type of exchange is one for one of the types.
LEMMA TypesOfWords == \A word \in DOMAIN TypeWords : TypeWords[word] \in ExchangeType
<1> DEFINE Of(word) == CASE word[1] = 68 -> DIRECT [] word[1] = 70 -> FANOUT [] word[1] = 84 -> TOPIC
<1>1. DOMAIN TypeWords = {<<68>>, <<70>>, <<84>>} /\ \A word \in DOMAIN TypeWords : TypeWords[word] = Of(word)
  BY Zenon DEF TypeWords
<1>2. \A word \in {<<68>>, <<70>>, <<84>>} : word[1] \in {68, 70, 84}
  OBVIOUS
<1>3. \A word : /\ word[1] = 68 => Of(word) \in {DIRECT, FANOUT, TOPIC}
                /\ word[1] = 70 => Of(word) \in {DIRECT, FANOUT, TOPIC}
                /\ word[1] = 84 => Of(word) \in {DIRECT, FANOUT, TOPIC}
  BY Zenon
<1> HIDE DEF Of
<1> QED BY <1>1, <1>2, <1>3 DEF ExchangeType

\* So is what users may ask for, publications excepted: every line the client accepts.
LEMMA LinesAreProper ==
    ASSUME NEW cmd \in CommandWords \ {"publish", "publish_mode"}, NEW words \in Seq(AnyText), Accepts(cmd, words),
           NEW rid \in AnyText, NEW cid \in AnyText
    PROVE  Proper(RequestOf(cmd, words, rid, cid))
<1>0. \A i \in 1..Len(words) : words[i] \in AnyText
  OBVIOUS
<1>1. \A i : (words[i] = true) \in BOOLEAN
  OBVIOUS
<1>2. CASE cmd = "bind"
  <2>1. RequestOf(cmd, words, rid, cid) = bind(rid, cid, words[1], words[2], words[3])
    BY <1>2, Zenon DEF RequestOf
  <2>2. Len(words) = 3
    BY <1>2, Zenon DEF Accepts
  <2>3. words[1] \in AnyText /\ words[2] \in AnyText /\ words[3] \in AnyText
    BY <1>0, <2>2
  <2> QED BY <1>0, <2>1, <2>3, bindRequestFits DEF Proper, Sendable, FieldsOf, Requests, bind
<1>3. CASE cmd = "unbind"
  <2>1. RequestOf(cmd, words, rid, cid) = unbind(rid, cid, words[1], words[2])
    BY <1>3, Zenon DEF RequestOf
  <2>2. Len(words) = 2
    BY <1>3, Zenon DEF Accepts
  <2>3. words[1] \in AnyText /\ words[2] \in AnyText
    BY <1>0, <2>2
  <2> QED BY <1>0, <2>1, <2>3, unbindRequestFits DEF Proper, Sendable, FieldsOf, Requests, unbind
<1>4. CASE cmd = "delete_exchange"
  <2>1. RequestOf(cmd, words, rid, cid) = delete_exchange(rid, cid, words[1])
    BY <1>4, Zenon DEF RequestOf
  <2>2. Len(words) = 1
    BY <1>4, Zenon DEF Accepts
  <2>3. words[1] \in AnyText
    BY <1>0, <2>2
  <2> QED BY <1>0, <2>1, <2>3, deleteExchangeRequestFits DEF Proper, Sendable, FieldsOf, Requests, delete_exchange
<1>5. CASE cmd = "delete_queue"
  <2>1. RequestOf(cmd, words, rid, cid) = delete_queue(rid, cid, words[1])
    BY <1>5, Zenon DEF RequestOf
  <2>2. Len(words) = 1
    BY <1>5, Zenon DEF Accepts
  <2>3. words[1] \in AnyText
    BY <1>0, <2>2
  <2> QED BY <1>0, <2>1, <2>3, deleteQueueRequestFits DEF Proper, Sendable, FieldsOf, Requests, delete_queue
<1>6. CASE cmd = "svrstat"
  <2>1. RequestOf(cmd, words, rid, cid) = basic_query(rid, cid)
    BY <1>6, Zenon DEF RequestOf
  <2> QED BY <2>1, basicQueryRequestFits DEF Proper, Sendable, FieldsOf, Requests, basic_query
<1>7. CASE cmd = "subscribe"
  <2> DEFINE f == (words[3] = true)
  <2>1. RequestOf(cmd, words, rid, cid) = basic_consume(rid, cid, words[1], words[2], f)
    BY <1>7, Zenon DEF RequestOf
  <2>2. Len(words) = 3
    BY <1>7, Zenon DEF Accepts
  <2>3. words[1] \in AnyText /\ words[2] \in AnyText /\ f \in BOOLEAN
    BY <1>0, <2>2
  <2> HIDE DEF f
  <2> QED BY <2>1, <2>3, basicConsumeRequestFits DEF Proper, Sendable, FieldsOf, Requests, basic_consume
<1>8. Len(words) \in {4, 5} /\ ArgsLegal(OtherArgs(words)) => ArgsOf(OtherArgs(words)) \in AnyMap
  <2> SUFFICES ASSUME Len(words) \in {4, 5}, ArgsLegal(OtherArgs(words)) PROVE ArgsOf(OtherArgs(words)) \in AnyMap
    OBVIOUS
  <2>1. OtherArgs(words) \in Seq(Seq(Nat))
    BY DEF OtherArgs, AnyText
  <2> QED BY <2>1, ArgsAreMap
<1>9. CASE cmd = "declare_exchange"
  <2> DEFINE f3 == (words[3] = true)
             f4 == (words[4] = true)
             type == TypeWords[words[2]]
             map == ArgsOf(OtherArgs(words))
  <2>1. RequestOf(cmd, words, rid, cid) = declare_exchange(rid, cid, words[1], type, f3, f4, map)
    BY <1>9, Zenon DEF RequestOf
  <2>2. Len(words) \in {4, 5} /\ words[2] \in DOMAIN TypeWords /\ ArgsLegal(OtherArgs(words))
    BY <1>9, Zenon DEF Accepts
  <2>3. words[1] \in AnyText /\ f3 \in BOOLEAN /\ f4 \in BOOLEAN /\ map \in AnyMap
    BY <1>0, <1>8, <2>2
  <2>4. type \in ExchangeType
    BY <2>2, TypesOfWords
  <2> HIDE DEF f3, f4, type, map
  <2> QED BY <2>1, <2>3, <2>4, declareExchangeRequestFits DEF Proper, Sendable, FieldsOf, Requests, declare_exchange
<1>10. CASE cmd = "declare_queue"
  <2> DEFINE f2 == (words[2] = true)
             f3 == (words[3] = true)
             f4 == (words[4] = true)
             map == ArgsOf(OtherArgs(words))
  <2>1. RequestOf(cmd, words, rid, cid) = declare_queue(rid, cid, words[1], f2, f3, f4, map)
    BY <1>10, Zenon DEF RequestOf
  <2>2. Len(words) \in {4, 5} /\ ArgsLegal(OtherArgs(words))
    BY <1>10, Zenon DEF Accepts
  <2>3. words[1] \in AnyText /\ f2 \in BOOLEAN /\ f3 \in BOOLEAN /\ f4 \in BOOLEAN /\ map \in AnyMap
    BY <1>0, <1>8, <2>2
  <2> HIDE DEF f2, f3, f4, map
  <2> QED BY <2>1, <2>3, declareQueueRequestFits DEF Proper, Sendable, FieldsOf, Requests, declare_queue
<1> QED BY <1>2, <1>3, <1>4, <1>5, <1>6, <1>7, <1>9, <1>10 DEF CommandWords

\* The answers of the broker.
Answers(h) == h = Ignored \/ (h.class /= "none" /\ Sendable(h.class, h.answer))

\* The answer of most handlers, with the rid and cid of the request.
LEMMA CommonAnswers ==
    ASSUME NEW calls, NEW req, req.rid \in AnyText, req.cid \in AnyText, NEW ok \in BOOLEAN
    PROVE  Answers(Answered(calls, req, ok))
<1> DEFINE answer == [rid |-> req.rid, cid |-> req.cid, ok |-> ok]
           h == Answered(calls, req, ok)
<1>1. answer \in [rid : AnyText, cid : AnyText, ok : BOOLEAN]
  OBVIOUS
<1>2. h = [calls |-> calls, class |-> "basicCommonResponse", answer |-> answer]
  BY Zenon DEF Answered, Outcome, Common
<1> HIDE DEF answer
<1>3. h.class = "basicCommonResponse" /\ h.answer = answer
  BY <1>2
<1>4. Sendable("basicCommonResponse", answer)
  BY <1>1, basicCommonResponseFits DEF Sendable, FieldsOf
<1> HIDE DEF h
<1> QED BY <1>3, <1>4 DEF Answers, h

\* Every handler answers with something that goes over a connection, or not at all.
LEMMA HandlersAnswer ==
    ASSUME NEW class \in DOMAIN Requests, NEW req, req.rid \in AnyText, req.cid \in AnyText, NEW open,
           NEW ok \in BOOLEAN, NEW status \in AnyText
    PROVE  Answers(Handle(class, req, open, ok, status))
<1> DEFINE h == Handle(class, req, open, ok, status)
           ByTheConnection == {"openChannelRequest", "closeChannelRequest"}
<1>1. \A calls : \A x \in BOOLEAN : Answers(Answered(calls, req, x))
  BY CommonAnswers
<1>2. Answers(Ignored)
  BY DEF Answers
<1>3. CASE class = "openChannelRequest"
  <2>1. h = Answered(<<>>, req, req.cid \notin open)
    BY <1>3, Zenon DEF Handle, on_openChannel
  <2>2. (req.cid \notin open) \in BOOLEAN
    OBVIOUS
  <2> QED BY <1>1, <2>1, <2>2
<1>4. CASE class = "closeChannelRequest"
  <2>1. h = Answered(<<>>, req, TRUE)
    BY <1>4, Zenon DEF Handle, on_closeChannel
  <2> QED BY <1>1, <2>1
<1>5. CASE class \notin ByTheConnection /\ req.cid \notin open
  <2>1. h = Ignored
    BY <1>5, Zenon DEF Handle
  <2> QED BY <1>2, <2>1
<1>6. CASE class \notin ByTheConnection /\ req.cid \in open
  <2>1. h = CASE class = "declareExchangeRequest" -> on_declareExchange(req, ok)
              [] class = "deleteExchangeRequest" -> on_deleteExchange(req)
              [] class = "declareQueueRequest" -> on_declareQueue(req, ok)
              [] class = "deleteQueueRequest" -> on_deleteQueue(req)
              [] class = "bindRequest" -> on_bind(req, ok)
              [] class = "unbindRequest" -> on_unbind(req)
              [] class = "basicPublishRequest" -> on_basicPublish(req, ok)
              [] class = "basicAckRequest" -> on_basicAck(req)
              [] class = "basicConsumeRequest" -> on_basicConsume(req, ok)
              [] class = "basicCancelRequest" -> on_basicCancel(req)
              [] class = "basicQueryRequest" -> on_basicQuery(req, status)
    BY <1>6, Zenon DEF Handle
  <2> HIDE DEF h
  <2>2. CASE class = "basicQueryRequest"
    <3> DEFINE answer == [rid |-> req.rid, cid |-> req.cid, body |-> status]
               calls == <<<<"basic_query">>>>
    <3>1. answer \in [rid : AnyText, cid : AnyText, body : AnyText]
      OBVIOUS
    <3>2. h = [calls |-> calls, class |-> "basicQueryResponse", answer |-> answer]
      BY <2>1, <2>2, Zenon DEF on_basicQuery, Outcome
    <3> HIDE DEF answer, calls
    <3>3. h.class = "basicQueryResponse" /\ h.answer = answer
      BY <3>2
    <3>4. Sendable("basicQueryResponse", answer)
      BY <3>1, basicQueryResponseFits DEF Sendable, FieldsOf
    <3> QED BY <3>3, <3>4 DEF Answers, h
  <2>3. CASE class /= "basicQueryRequest"
    <3>1. class \in {"declareExchangeRequest", "deleteExchangeRequest", "declareQueueRequest", "deleteQueueRequest",
                     "bindRequest", "unbindRequest", "basicPublishRequest", "basicAckRequest",
                     "basicConsumeRequest", "basicCancelRequest"}
      BY <1>6, <2>3 DEF Requests
    <3>2. \E calls : \E x \in BOOLEAN : h = Answered(calls, req, x)
      <4>1. CASE class = "declareExchangeRequest"
        BY <2>1, <4>1, Zenon DEF on_declareExchange
      <4>2. CASE class = "deleteExchangeRequest"
        BY <2>1, <4>2, Zenon DEF on_deleteExchange
      <4>3. CASE class = "declareQueueRequest"
        BY <2>1, <4>3, Zenon DEF on_declareQueue
      <4>4. CASE class = "deleteQueueRequest"
        BY <2>1, <4>4, Zenon DEF on_deleteQueue
      <4>5. CASE class = "bindRequest"
        BY <2>1, <4>5, Zenon DEF on_bind
      <4>6. CASE class = "unbindRequest"
        BY <2>1, <4>6, Zenon DEF on_unbind
      <4>7. CASE class = "basicPublishRequest"
        BY <2>1, <4>7, Zenon DEF on_basicPublish
      <4>8. CASE class = "basicAckRequest"
        BY <2>1, <4>8, Zenon DEF on_basicAck
      <4>9. CASE class = "basicConsumeRequest"
        BY <2>1, <4>9, Zenon DEF on_basicConsume
      <4>10. CASE class = "basicCancelRequest"
        BY <2>1, <4>10, Zenon DEF on_basicCancel
      <4> QED BY <3>1, <4>1, <4>2, <4>3, <4>4, <4>5, <4>6, <4>7, <4>8, <4>9, <4>10
    <3> QED BY <1>1, <3>2 DEF h
  <2> QED BY <2>2, <2>3
<1> QED BY <1>3, <1>4, <1>5, <1>6

-----------------------------------------------------------------------------
(* The session *)

\* What the command-line client reads next: it has the words and properties it needs.
PromptInv ==
    /\ prompt.reads = "message" =>
         prompt.cmd /= "subscribe" /\ prompt.words[1] \in AnyText /\ prompt.properties \in Optional(AnyProperties)
    /\ prompt.reads = "quit" /\ prompt.cmd = "subscribe" => prompt.words[1] \in AnyText /\ prompt.words[2] \in AnyText

\* What is on the way, and what comes of it, by where the request is.
StageInv ==
    /\ stage \in {"idle", "sent", "usage"} => outcome = Ignored
    /\ stage = "sent" => Proper(request) /\ bytes \in Encoded(request.class, request.req)
    /\ stage \in {"handled", "pushed"} =>
         /\ outcome.class /= "none" /\ Sendable(outcome.class, outcome.answer)
         /\ bytes \in Encoded(outcome.class, outcome.answer)
    /\ stage = "ignored" => outcome.class = "none"
    /\ stage /= "usage" /\ typed.cmd = "subscribe" =>
         stage /= "idle" /\ typed.words[1] \in AnyText /\ typed.words[2] \in AnyText

\* With what the user types next it is inductive, and it has Delivered in it.
SessionInv == channels \subseteq AnyText /\ PromptInv /\ StageInv /\ Delivered

\* Nothing is said of what has arrived before a request or a message is read.
LEMMA NothingArrived ==
    ASSUME stage' \in {"idle", "sent", "usage", "pushed"}
    PROVE  Delivered'
BY DEF Delivered

\* The lines users type are texts.
LEMMA LinesAreTexts ==
    ASSUME NEW line \in Lines
    PROVE  line.cmd \in CommandWords /\ line.words \in Seq(AnyText)
<1>1. line.cmd \in CommandWords /\ line.words \in Seq(Seq(Byte))
  BY SessionAssumption
<1> DEFINE S == Seq(Byte)
           words == line.words
<1>2. \A t \in S : t \in AnyText
  BY TextIs
<1>3. words \in Seq(S)
  BY <1>1
<1> HIDE DEF S, words
<1>4. Len(words) \in Nat /\ words \in [1..Len(words) -> S]
  BY <1>3
<1>5. words \in [1..Len(words) -> AnyText]
  BY <1>2, <1>4
<1>6. words \in Seq(AnyText)
  BY <1>4, <1>5, IsASeq
<1> QED BY <1>1, <1>6 DEF words

\* The properties of what is published.
LEMMA PropertiesTyped ==
    ASSUME NEW words, NEW id, id \in AnyText
    PROVE  PropertiesOf(words, id) \in AnyProperties
<1> DEFINE mode == CASE words[2] = Word_DURABLE -> DURABLE
                     [] words[2] = Word_DIRECT -> UNDURABLE
                     [] OTHER -> UNKNOWMODE
<1>1. mode \in {DURABLE, UNDURABLE, UNKNOWMODE}
  <2>1. words[2] = Word_DURABLE => words[2] /= Word_DIRECT
    BY DEF Word_DURABLE, Word_DIRECT
  <2>2. CASE words[2] = Word_DURABLE
    BY <2>1, <2>2, Zenon
  <2>3. CASE words[2] = Word_DIRECT
    BY <2>1, <2>3, Zenon
  <2>4. CASE words[2] /= Word_DURABLE /\ words[2] /= Word_DIRECT
    BY <2>4, Zenon
  <2> QED BY <2>2, <2>3, <2>4
<1>2. PropertiesOf(words, id) = [id |-> id, delivery_mode |-> mode, routing_key |-> <<>>]
  BY Zenon DEF PropertiesOf
<1> HIDE DEF mode
<1> QED BY <1>1, <1>2 DEF AnyProperties, DeliveryMode, AnyText

\* The steps that send a request.
LEMMA SendKeeps ==
    ASSUME NEW r, Proper(r), Send(r), outcome = Ignored, UNCHANGED outcome
    PROVE  /\ stage' = "sent" /\ Delivered' /\ outcome' = Ignored
           /\ Proper(request') /\ bytes' \in Encoded(request'.class, request'.req)
<1>1. request' = r /\ bytes' \in Encoded(r.class, r.req) /\ stage' = "sent"
  BY DEF Send
<1> QED BY <1>1, NothingArrived

\* A program calls the client library.
LEMMA CallKeeps == SessionInv /\ Call => SessionInv'
<1> SUFFICES ASSUME SessionInv, Call PROVE SessionInv'
  OBVIOUS
<1>1. /\ stage = "idle" /\ outcome = Ignored /\ typed.cmd /= "subscribe"
      /\ UNCHANGED <<prompt, typed, body, got, channels, outcome>>
  BY DEF Call, SessionInv, StageInv
<1>2. PICK class \in DOMAIN Requests : \E req \in Requests[class] : Send([class |-> class, req |-> req])
  BY DEF Call
<1>3. PICK req \in Requests[class] : Send([class |-> class, req |-> req])
  BY <1>2
<1>4. Proper([class |-> class, req |-> req])
  BY CallsAreProper
<1>5. /\ stage' = "sent" /\ Delivered' /\ outcome' = Ignored
      /\ Proper(request') /\ bytes' \in Encoded(request'.class, request'.req)
  BY <1>1, <1>3, <1>4, SendKeeps
<1>6. channels' \subseteq AnyText /\ PromptInv'
  BY <1>1 DEF SessionInv, PromptInv
<1>7. StageInv'
  BY <1>1, <1>5 DEF StageInv
<1> QED BY <1>5, <1>6, <1>7 DEF SessionInv

\* A user types a line at the first prompt.
LEMMA TypeKeeps == SessionInv /\ Type => SessionInv'
<1> SUFFICES ASSUME SessionInv, Type PROVE SessionInv'
  OBVIOUS
<1>1. /\ stage = "idle" /\ outcome = Ignored /\ Cid \in channels /\ channels \subseteq AnyText
      /\ UNCHANGED <<body, got, channels, outcome>> /\ PromptInv
  BY DEF Type, SessionInv, StageInv
<1>2. PICK line \in Lines, rid \in Id :
         /\ typed' = line
         /\ IF ~Accepts(line.cmd, line.words)
            THEN stage' = "usage" /\ UNCHANGED <<prompt, request, bytes>>
            ELSE IF line.cmd \in {"publish", "publish_mode"}
            THEN /\ prompt' = [reads |-> "message", cmd |-> line.cmd, words |-> line.words,
                               properties |-> <<PropertiesOf(line.words, rid)>>]
                 /\ UNCHANGED <<stage, request, bytes>>
            ELSE /\ Send(RequestOf(line.cmd, line.words, rid, Cid))
                 /\ UNCHANGED prompt
  BY DEF Type
<1>3. line.cmd \in CommandWords /\ line.words \in Seq(AnyText) /\ rid \in AnyText /\ Cid \in AnyText
  BY <1>1, LinesAreTexts, Texts
<1>4. CASE ~Accepts(line.cmd, line.words)
  <2>1. stage' = "usage" /\ UNCHANGED prompt
    BY <1>2, <1>4
  <2>2. PromptInv' /\ Delivered'
    BY <1>1, <2>1, NothingArrived DEF PromptInv
  <2>3. StageInv'
    BY <1>1, <2>1 DEF StageInv
  <2> QED BY <1>1, <2>2, <2>3 DEF SessionInv
<1>5. CASE Accepts(line.cmd, line.words) /\ line.cmd \in {"publish", "publish_mode"}
  <2> DEFINE properties == PropertiesOf(line.words, rid)
  <2>1. /\ prompt' = [reads |-> "message", cmd |-> line.cmd, words |-> line.words, properties |-> <<properties>>]
        /\ UNCHANGED <<stage, request, bytes>>
    BY <1>2, <1>5
  <2>2. Len(line.words) = 3
    BY <1>5, Zenon DEF Accepts
  <2>3. line.words[1] \in AnyText
    BY <1>3, <2>2
  <2>4. properties \in AnyProperties
    BY <1>3, PropertiesTyped
  <2> HIDE DEF properties
  <2>5. PromptInv'
    BY <1>5, <2>1, <2>3, <2>4 DEF PromptInv, Optional
  <2>6. Delivered'
    BY <1>1, <2>1, NothingArrived
  <2>7. StageInv'
    BY <1>1, <1>2, <1>5, <2>1 DEF StageInv
  <2> QED BY <1>1, <2>5, <2>6, <2>7 DEF SessionInv
<1>6. CASE Accepts(line.cmd, line.words) /\ line.cmd \notin {"publish", "publish_mode"}
  <2>1. Send(RequestOf(line.cmd, line.words, rid, Cid)) /\ UNCHANGED prompt
    BY <1>2, <1>6
  <2>2. Proper(RequestOf(line.cmd, line.words, rid, Cid))
    <3> DEFINE cmd == line.cmd
               words == line.words
    <3>1. cmd \in CommandWords \ {"publish", "publish_mode"} /\ words \in Seq(AnyText) /\ Accepts(cmd, words)
      BY <1>3, <1>6
    <3> HIDE DEF cmd, words
    <3>2. Proper(RequestOf(cmd, words, rid, Cid))
      BY <1>3, <3>1, LinesAreProper
    <3> QED BY <3>2 DEF cmd, words
  <2>3. /\ stage' = "sent" /\ Delivered' /\ outcome' = Ignored
        /\ Proper(request') /\ bytes' \in Encoded(request'.class, request'.req)
    BY <1>1, <2>1, <2>2, SendKeeps
  <2>4. PromptInv'
    BY <1>1, <2>1 DEF PromptInv
  <2>5. line.cmd = "subscribe" => line.words[1] \in AnyText /\ line.words[2] \in AnyText
    <3>1. line.cmd = "subscribe" => Len(line.words) = 3
      BY <1>6, Zenon DEF Accepts
    <3> QED BY <1>3, <3>1
  <2>6. StageInv'
    BY <1>2, <2>3, <2>5 DEF StageInv
  <2> QED BY <1>1, <2>3, <2>4, <2>6 DEF SessionInv
<1> QED BY <1>4, <1>5, <1>6

\* A user types a message to publish.
LEMMA TypeMessageKeeps == SessionInv /\ TypeMessage => SessionInv'
<1> SUFFICES ASSUME SessionInv, TypeMessage PROVE SessionInv'
  OBVIOUS
<1>1. /\ stage = "idle" /\ outcome = Ignored /\ channels \subseteq AnyText /\ prompt.reads = "message"
      /\ UNCHANGED <<got, channels, outcome>> /\ PromptInv
      /\ prompt.cmd /= "subscribe" /\ prompt.words[1] \in AnyText /\ prompt.properties \in Optional(AnyProperties)
  BY DEF TypeMessage, SessionInv, StageInv, PromptInv
<1>2. PICK line \in Bodies, rid \in Id :
         IF line = quit
         THEN prompt' = AtCommand /\ typed' = NoLine /\ UNCHANGED <<stage, body, request, bytes>>
         ELSE /\ Send(basic_publish(rid, Cid, prompt.words[1], prompt.properties, line))
              /\ typed' = [cmd |-> prompt.cmd, words |-> prompt.words]
              /\ body' = line
              /\ UNCHANGED prompt
  BY DEF TypeMessage
<1>3. CASE line = quit
  <2>1. prompt' = AtCommand /\ typed' = NoLine /\ UNCHANGED <<stage, request, bytes>>
    BY <1>2, <1>3
  <2>2. PromptInv'
    BY <2>1 DEF PromptInv, AtCommand
  <2>3. Delivered'
    BY <1>1, <2>1, NothingArrived
  <2>4. StageInv'
    BY <1>1, <2>1 DEF StageInv, NoLine
  <2> QED BY <1>1, <2>2, <2>3, <2>4 DEF SessionInv
<1>4. CASE line /= quit
  <2> DEFINE r == basic_publish(rid, Cid, prompt.words[1], prompt.properties, line)
  <2>1. Send(r) /\ typed' = [cmd |-> prompt.cmd, words |-> prompt.words] /\ UNCHANGED prompt
    BY <1>2, <1>4
  <2>2. rid \in AnyText /\ Cid \in AnyText /\ line \in AnyText
    <3>1. Cid \in Id
      BY DEF Cid
    <3> QED BY <3>1, Texts, TextIs, SessionAssumption
  <2>3. Proper(r)
    BY <1>1, <2>2, basicPublishRequestFits DEF Proper, Sendable, FieldsOf, Requests, basic_publish
  <2> HIDE DEF r
  <2>4. /\ stage' = "sent" /\ Delivered' /\ outcome' = Ignored
        /\ Proper(request') /\ bytes' \in Encoded(request'.class, request'.req)
    BY <1>1, <2>1, <2>3, SendKeeps
  <2>5. PromptInv'
    BY <1>1, <2>1 DEF PromptInv
  <2>6. StageInv'
    BY <1>1, <2>1, <2>4 DEF StageInv
  <2> QED BY <1>1, <2>4, <2>5, <2>6 DEF SessionInv
<1> QED BY <1>3, <1>4

\* A user leaves the inner prompt.
LEMMA TypeQuitKeeps == SessionInv /\ TypeQuit => SessionInv'
<1> SUFFICES ASSUME SessionInv, TypeQuit PROVE SessionInv'
  OBVIOUS
<1>1. /\ stage = "idle" /\ outcome = Ignored /\ channels \subseteq AnyText /\ prompt.reads = "quit"
      /\ UNCHANGED <<typed, got, channels, outcome>> /\ PromptInv /\ prompt' = AtCommand /\ typed.cmd /= "subscribe"
  BY DEF TypeQuit, SessionInv, StageInv
<1>2. PromptInv'
  BY <1>1 DEF PromptInv, AtCommand
<1>3. CASE prompt.cmd /= "subscribe"
  <2>1. UNCHANGED <<stage, request, bytes>>
    BY <1>3 DEF TypeQuit
  <2>2. Delivered'
    BY <1>1, <2>1, NothingArrived
  <2>3. StageInv'
    BY <1>1, <2>1 DEF StageInv
  <2> QED BY <1>1, <1>2, <2>2, <2>3 DEF SessionInv
<1>4. CASE prompt.cmd = "subscribe"
  <2>1. PICK rid \in Id : Send(basic_cancel(rid, Cid, prompt.words[1], prompt.words[2]))
    BY <1>4 DEF TypeQuit
  <2> DEFINE r == basic_cancel(rid, Cid, prompt.words[1], prompt.words[2])
  <2>2. rid \in AnyText /\ Cid \in AnyText
    <3>1. Cid \in Id
      BY DEF Cid
    <3> QED BY <3>1, Texts
  <2>3. prompt.words[1] \in AnyText /\ prompt.words[2] \in AnyText
    BY <1>1, <1>4 DEF PromptInv
  <2>4. Proper(r)
    BY <2>2, <2>3, basicCancelRequestFits DEF Proper, Sendable, FieldsOf, Requests, basic_cancel
  <2>5. Send(r)
    BY <2>1
  <2> HIDE DEF r
  <2>6. /\ stage' = "sent" /\ Delivered' /\ outcome' = Ignored
        /\ Proper(request') /\ bytes' \in Encoded(request'.class, request'.req)
    BY <1>1, <2>4, <2>5, SendKeeps
  <2>7. StageInv'
    BY <1>1, <2>6 DEF StageInv
  <2> QED BY <1>1, <1>2, <2>6, <2>7 DEF SessionInv
<1> QED BY <1>3, <1>4

\* The call returns.
LEMMA ReturnKeeps == SessionInv /\ Return => SessionInv'
<1> SUFFICES ASSUME SessionInv, Return PROVE SessionInv'
  OBVIOUS
<1>1. /\ stage \in {"answered", "ignored", "usage"} /\ channels \subseteq AnyText
      /\ PromptInv /\ stage' = "idle" /\ typed' = NoLine /\ outcome' = Ignored /\ UNCHANGED channels
      /\ stage /= "usage" /\ typed.cmd = "subscribe" => typed.words[1] \in AnyText /\ typed.words[2] \in AnyText
  BY DEF Return, SessionInv, StageInv
<1> DEFINE waits == [reads |-> "quit", cmd |-> IF got.ok THEN "subscribe" ELSE "none",
                     words |-> typed.words, properties |-> <<>>]
           Again == stage = "answered" /\ typed.cmd = "publish_mode"
           Subscribed == stage = "answered" /\ typed.cmd = "subscribe" /\ request.class = "basicConsumeRequest"
<1>2. prompt' = CASE Again -> prompt [] Subscribed -> waits [] OTHER -> AtCommand
  BY DEF Return
<1>3. PromptInv'
  <2>1. CASE Again
    <3>1. ~Subscribed
      BY <2>1
    <3>2. prompt' = prompt
      BY <1>2, <2>1, <3>1, Zenon
    <3> QED BY <1>1, <3>2 DEF PromptInv
  <2>2. CASE Subscribed
    <3>1. ~Again
      BY <2>2
    <3>2. prompt' = waits
      BY <1>2, <2>2, <3>1, Zenon
    <3> QED BY <1>1, <2>2, <3>2 DEF PromptInv
  <2>3. CASE ~Again /\ ~Subscribed
    <3>1. prompt' = AtCommand
      BY <1>2, <2>3, Zenon
    <3> QED BY <3>1 DEF PromptInv, AtCommand
  <2> QED BY <2>1, <2>2, <2>3
<1>4. Delivered'
  BY <1>1, NothingArrived
<1>5. StageInv'
  BY <1>1 DEF StageInv, NoLine
<1> QED BY <1>1, <1>3, <1>4, <1>5 DEF SessionInv

\* The client reads the answer, or the message pushed to it.
LEMMA ClientReadsKeeps == SessionInv /\ ClientReads => SessionInv'
<1> SUFFICES ASSUME SessionInv, ClientReads PROVE SessionInv'
  OBVIOUS
<1> DEFINE parsed == Decoded(outcome.class, bytes)
           class == outcome.class
           m == outcome.answer
<1>1. /\ stage \in {"handled", "pushed"} /\ channels \subseteq AnyText /\ PromptInv
      /\ UNCHANGED <<prompt, typed, body, request, channels, outcome>>
      /\ class /= "none" /\ Sendable(class, m) /\ bytes \in Encoded(class, m)
      /\ typed.cmd = "subscribe" => typed.words[1] \in AnyText /\ typed.words[2] \in AnyText
  BY DEF ClientReads, SessionInv, StageInv
<1>2. got' = parsed.m /\ stage' = IF parsed.ok THEN "answered" ELSE "lost"
  BY DEF ClientReads
<1>3. Arrives(class, m, parsed)
  BY <1>1, CodecReads
<1>4. class \in DOMAIN FieldsOf
  BY <1>1 DEF Sendable
<1>5. PromptInv' /\ StageInv'
  BY <1>1, <1>2 DEF PromptInv, StageInv
<1>6. outcome'.class = class /\ outcome'.answer = m
  BY <1>1
<1> DEFINE message == [class |-> outcome'.class, req |-> outcome'.answer]
<1>7. message.class = class /\ message.req = m
  BY <1>6
<1>8. Delivered' <=>
        /\ stage' = "answered" =>
             (message.class \in DOMAIN FieldsOf /\ Legible(FieldsOf[message.class], message.req)) /\ got' = message.req
        /\ stage' \in {"handled", "ignored"} => Legible(FieldsOf[request'.class], request'.req) /\ got' = request'.req
        /\ stage' = "lost" =>
             \/ ~(message.class \in DOMAIN FieldsOf /\ Legible(FieldsOf[message.class], message.req))
             \/ ~\A text \in Encoded(message.class, message.req) : Len(text) <= MaxMessage
  <2>1. outcome'.class /= "none"
    BY <1>1, <1>6
  <2> QED BY <2>1, Zenon DEF Delivered
<1> HIDE DEF parsed, class, m, message
<1>9. CASE parsed.ok
  <2>1. stage' = "answered" /\ Legible(FieldsOf[class], m) /\ got' = m
    BY <1>2, <1>3, <1>9 DEF Arrives
  <2>2. stage' \notin {"handled", "ignored"} /\ stage' /= "lost"
    BY <2>1
  <2>3. Delivered'
    BY <1>4, <1>7, <1>8, <2>1, <2>2
  <2> QED BY <1>1, <1>5, <2>3 DEF SessionInv
<1>10. CASE ~parsed.ok
  <2>1. stage' = "lost" /\ (~Legible(FieldsOf[class], m) \/ ~\A t \in Encoded(class, m) : Len(t) <= MaxMessage)
    BY <1>2, <1>3, <1>10 DEF Arrives
  <2>2. stage' \notin {"handled", "ignored"} /\ stage' /= "answered"
    BY <2>1
  <2>3. Delivered'
    BY <1>4, <1>7, <1>8, <2>1, <2>2
  <2> QED BY <1>1, <1>5, <2>3 DEF SessionInv
<1> QED BY <1>9, <1>10

\* The broker reads the request and answers it.
LEMMA BrokerReadsKeeps == SessionInv /\ BrokerReads => SessionInv'
<1> SUFFICES ASSUME SessionInv, BrokerReads PROVE SessionInv'
  OBVIOUS
<1> DEFINE parsed == Decoded(request.class, bytes)
           class == request.class
           m == request.req
<1>1. /\ stage = "sent" /\ channels \subseteq AnyText /\ PromptInv /\ UNCHANGED <<prompt, typed, body, request>>
      /\ Proper(request) /\ bytes \in Encoded(class, m) /\ outcome = Ignored
      /\ typed.cmd = "subscribe" => typed.words[1] \in AnyText /\ typed.words[2] \in AnyText
  BY DEF BrokerReads, SessionInv, StageInv
<1>2. /\ got' = parsed.m
      /\ IF ~parsed.ok
         THEN stage' = "lost" /\ channels' = {} /\ bytes' = <<>> /\ UNCHANGED outcome
         ELSE \E ok \in BOOLEAN : \E status \in {t \in Text : IsUtf8(t)} :
                /\ outcome' = Handle(class, parsed.m, channels, ok, status)
                /\ channels' = Channels(class, parsed.m, channels)
                /\ IF outcome'.class = "none"
                   THEN stage' = "ignored" /\ bytes' = <<>>
                   ELSE stage' = "handled" /\ bytes' \in Encoded(outcome'.class, outcome'.answer)
  BY DEF BrokerReads
<1>3. class \in DOMAIN Requests /\ Sendable(class, m) /\ m.rid \in AnyText /\ m.cid \in AnyText
  BY <1>1 DEF Proper
<1>4. Arrives(class, m, parsed)
  BY <1>1, <1>3, CodecReads
<1>5. class \in DOMAIN FieldsOf /\ request' = request /\ PromptInv'
  BY <1>1, <1>3 DEF Sendable, PromptInv
<1> HIDE DEF parsed
<1>6. CASE ~parsed.ok
  <2>1. stage' = "lost" /\ channels' = {} /\ outcome' = Ignored
    BY <1>1, <1>2, <1>6
  <2>2. ~Legible(FieldsOf[class], m) \/ ~\A t \in Encoded(class, m) : Len(t) <= MaxMessage
    BY <1>4, <1>6 DEF Arrives
  <2>3. StageInv'
    BY <1>1, <2>1 DEF StageInv
  <2>4. stage' \notin {"handled", "ignored"} /\ stage' /= "answered" /\ outcome'.class = "none"
    BY <2>1 DEF Ignored, Outcome
  <2>5. Delivered'
    BY <1>5, <2>2, <2>4 DEF Delivered
  <2>6. channels' \subseteq AnyText
    BY <2>1
  <2> QED BY <1>5, <2>3, <2>5, <2>6 DEF SessionInv
<1>7. CASE parsed.ok
  <2>1. parsed.m = m /\ Legible(FieldsOf[class], m)
    BY <1>4, <1>7 DEF Arrives
  <2>2. PICK ok \in BOOLEAN, status \in {t \in Text : IsUtf8(t)} :
                /\ outcome' = Handle(class, m, channels, ok, status)
                /\ channels' = Channels(class, m, channels)
                /\ IF outcome'.class = "none"
                   THEN stage' = "ignored" /\ bytes' = <<>>
                   ELSE stage' = "handled" /\ bytes' \in Encoded(outcome'.class, outcome'.answer)
    BY <1>2, <1>7, <2>1
  <2>3. Answers(outcome')
    <3>1. status \in AnyText
      BY Texts
    <3> QED BY <1>3, <2>2, <3>1, HandlersAnswer
  <2>4. channels' \subseteq AnyText
    <3>1. CASE class = "openChannelRequest"
      <4>1. channels' = channels \union {m.cid}
        BY <2>2, <3>1, Zenon DEF Channels
      <4> QED BY <1>1, <1>3, <4>1
    <3>2. CASE class = "closeChannelRequest"
      <4>1. channels' = channels \ {m.cid}
        BY <2>2, <3>2, Zenon DEF Channels
      <4> QED BY <1>1, <4>1
    <3>3. CASE class /= "openChannelRequest" /\ class /= "closeChannelRequest"
      <4>1. channels' = channels
        BY <2>2, <3>3, Zenon DEF Channels
      <4> QED BY <1>1, <4>1
    <3> QED BY <3>1, <3>2, <3>3
  <2>5. /\ stage' \in {"handled", "ignored"}
        /\ stage' = "ignored" => outcome'.class = "none"
        /\ stage' = "handled" => outcome'.class /= "none" /\ bytes' \in Encoded(outcome'.class, outcome'.answer)
    BY <2>2
  <2>6. stage' = "handled" => Sendable(outcome'.class, outcome'.answer)
    <3>1. outcome' = Ignored => outcome'.class = "none"
      BY DEF Ignored, Outcome
    <3> QED BY <2>3, <2>5, <3>1 DEF Answers
  <2>7. StageInv'
    BY <1>1, <2>5, <2>6 DEF StageInv
  <2>8. got' = m /\ request'.class = class /\ request'.req = m /\ stage' /= "answered" /\ stage' /= "lost"
    BY <1>2, <1>5, <2>1, <2>5
  <2> HIDE DEF class, m
  <2>9. Legible(FieldsOf[request'.class], request'.req) /\ got' = request'.req
    BY <2>1, <2>8
  <2>10. Delivered'
    BY <2>8, <2>9, Zenon DEF Delivered
  <2> QED BY <1>5, <2>4, <2>7, <2>10 DEF SessionInv
<1> QED BY <1>6, <1>7

\* The broker pushes a message to the client.
LEMMA BrokerPushesKeeps == SessionInv /\ BrokerPushes => SessionInv'
<1> SUFFICES ASSUME SessionInv, BrokerPushes PROVE SessionInv'
  OBVIOUS
<1>1. /\ stage = "idle" /\ stage' = "pushed" /\ channels \subseteq AnyText /\ PromptInv /\ typed.cmd /= "subscribe"
      /\ UNCHANGED <<prompt, typed, body, request, got, channels>>
      /\ bytes' \in Encoded("basicConsumeResponse", outcome'.answer)
  BY DEF BrokerPushes, SessionInv, StageInv
<1>2. PICK cid \in channels, tag \in Text, content \in Text, properties \in BasicProperties :
         outcome' = Outcome(<<>>, "basicConsumeResponse", Push(cid, tag, <<properties>>, content))
  BY DEF BrokerPushes
<1> DEFINE m == Push(cid, tag, <<properties>>, content)
<1>3. m \in [cid : AnyText, consumer_tag : AnyText, body : AnyText, properties : Optional(AnyProperties)]
  <2>1. cid \in AnyText /\ tag \in AnyText /\ content \in AnyText /\ <<properties>> \in Optional(AnyProperties)
    BY <1>1, Texts DEF Optional, BasicProperties, AnyProperties
  <2> QED BY <2>1 DEF Push
<1> HIDE DEF m
<1>4. outcome'.class = "basicConsumeResponse" /\ outcome'.answer = m
  BY <1>2 DEF Outcome, m
<1>5. Sendable("basicConsumeResponse", m)
  BY <1>3, basicConsumeResponseFits DEF Sendable, FieldsOf
<1>6. PromptInv' /\ Delivered'
  BY <1>1, NothingArrived DEF PromptInv
<1>7. StageInv'
  BY <1>1, <1>4, <1>5 DEF StageInv
<1> QED BY <1>1, <1>6, <1>7 DEF SessionInv

\* It holds when a session begins, and goes on to hold.
LEMMA SessionBegins == SessionInit => SessionInv
<1> SUFFICES ASSUME SessionInit PROVE SessionInv
  OBVIOUS
<1>1. stage = "idle" /\ prompt = AtCommand /\ typed = NoLine /\ channels = {} /\ outcome = Ignored
  BY DEF SessionInit
<1>2. PromptInv
  BY <1>1 DEF PromptInv, AtCommand
<1>3. StageInv
  BY <1>1 DEF StageInv, NoLine
<1>4. Delivered
  BY <1>1 DEF Delivered
<1> QED BY <1>1, <1>2, <1>3, <1>4 DEF SessionInv

LEMMA SessionGoesOn == SessionInv /\ [SessionNext]_sessionVars => SessionInv'
<1> SUFFICES ASSUME SessionInv, [SessionNext]_sessionVars PROVE SessionInv'
  OBVIOUS
<1>1. CASE UNCHANGED sessionVars
  BY <1>1 DEF sessionVars, SessionInv, PromptInv, StageInv, Delivered
<1>2. CASE SessionNext
  BY <1>2, CallKeeps, TypeKeeps, TypeMessageKeeps, TypeQuitKeeps, ClientReadsKeeps, ReturnKeeps,
     BrokerReadsKeeps, BrokerPushesKeeps DEF SessionNext
<1> QED BY <1>1, <1>2

\* A message of any class arrives as the object that was sent, for texts and maps of every
\* size, and every line and message a user may type (protocol.pb.cc, channel.hpp).
THEOREM EverythingArrives == SessionSpec => []Delivered
<1>1. SessionInv => Delivered
  BY DEF SessionInv
<1> QED BY <1>1, SessionBegins, SessionGoesOn, PTL DEF SessionSpec

-----------------------------------------------------------------------------
(* What is typed is done *)

\* A table of meanings says of the other_args in Lines what the client reads in them.
ArgsRead ==
    \A line \in Lines : Len(line.words) = 5 =>
        /\ line.words[5] \in DOMAIN ArgMeaning <=> ArgsLegal(OtherArgs(line.words))
        /\ ArgsLegal(OtherArgs(line.words)) => ArgMeaning[line.words[5]] = ArgsOf(OtherArgs(line.words))

\* A line that is not a publication, whose words its usage fits.
Counts(kinds) == {Len(kinds)} \union {Len(kinds) - 1 : k \in {j \in DOMAIN kinds : kinds[j] = "args"}}
Fitted(cmd, words) ==
    /\ Len(words) \in Counts(Usage[cmd])
    /\ \A i \in DOMAIN words : Readable(Usage[cmd][i], words[i])

\* How many words a usage has: the args may be left out.
LEMMA CountsAre ==
    ASSUME NEW kinds, NEW n \in Nat \ {0}, Len(kinds) = n, DOMAIN kinds = 1..n,
           \A i \in 1..(n - 1) : kinds[i] /= "args"
    PROVE  /\ kinds[n] /= "args" => Counts(kinds) = {n}
           /\ kinds[n] = "args" => Counts(kinds) = {n, n - 1}
<1>1. \A i \in 1..n : i \in 1..(n - 1) \/ i = n
  OBVIOUS
<1>2. ASSUME kinds[n] /= "args" PROVE Counts(kinds) = {n}
  <2>1. {j \in DOMAIN kinds : kinds[j] = "args"} = {}
    BY <1>1, <1>2
  <2> QED BY <2>1 DEF Counts
<1>3. ASSUME kinds[n] = "args" PROVE Counts(kinds) = {n, n - 1}
  <2>1. n \in {j \in DOMAIN kinds : kinds[j] = "args"}
    BY <1>3
  <2> QED BY <2>1 DEF Counts
<1> QED BY <1>2, <1>3

\* The usage of each command.
LEMMA Usages ==
    /\ DOMAIN Usage = {"bind", "unbind", "declare_exchange", "delete_exchange", "declare_queue", "delete_queue",
                       "publish", "publish_mode", "subscribe"}
    /\ Usage["bind"] = <<"text", "text", "text">> /\ Usage["unbind"] = <<"text", "text">>
    /\ Usage["declare_exchange"] = <<"text", "type", "flag", "flag", "args">>
    /\ Usage["delete_exchange"] = <<"text">>
    /\ Usage["declare_queue"] = <<"text", "flag", "flag", "flag", "args">>
    /\ Usage["delete_queue"] = <<"text">>
    /\ Usage["publish"] = <<"text", "mode", "text">> /\ Usage["publish_mode"] = <<"text", "mode", "text">>
    /\ Usage["subscribe"] = <<"text", "text", "flag">>
BY DEF Usage

\* The words of a line, and whether one of them can be read.
LEMMA ReadableIs ==
    ASSUME NEW word
    PROVE  /\ Readable("text", word)
           /\ Readable("flag", word) <=> word \in {true, false}
           /\ Readable("type", word) <=> word \in DOMAIN TypeWords
           /\ Readable("args", word) <=> word \in DOMAIN ArgMeaning
BY DEF Readable

\* Usages whose last words are not args.
LEMMA FittedWords ==
    ASSUME NEW cmd, NEW words \in Seq(AnyText), NEW n \in 1..3, Len(Usage[cmd]) = n, DOMAIN Usage[cmd] = 1..n,
           \A i \in 1..n : Usage[cmd][i] /= "args"
    PROVE  Fitted(cmd, words) <=> Len(words) = n /\ \A i \in 1..n : Readable(Usage[cmd][i], words[i])
<1> DEFINE kinds == Usage[cmd]
<1>1. Counts(kinds) = {n}
  <2>1. n \in Nat \ {0} /\ \A i \in 1..(n - 1) : i \in 1..n
    OBVIOUS
  <2>2. n \in 1..n
    OBVIOUS
  <2> HIDE DEF kinds
  <2>3. Len(kinds) = n /\ DOMAIN kinds = 1..n /\ \A i \in 1..n : kinds[i] /= "args"
    BY DEF kinds
  <2> QED BY <2>1, <2>2, <2>3, CountsAre
<1>2. Fitted(cmd, words) <=> Len(words) \in Counts(kinds) /\ \A i \in DOMAIN words : Readable(kinds[i], words[i])
  BY Zenon DEF Fitted
<1>3. DOMAIN words = 1..Len(words)
  OBVIOUS
<1> HIDE DEF kinds
<1> QED BY <1>1, <1>2, <1>3 DEF kinds

\* The lines of publications that are taken, and of all other commands.
LEMMA TakenIs ==
    ASSUME NEW cmd, NEW words
    PROVE  /\ cmd \in Publications => (Taken(cmd, words) <=> Len(words) = 3)
           /\ cmd \notin Publications => (Taken(cmd, words) <=> Fitted(cmd, words))
<1>1. ASSUME cmd \in Publications PROVE Taken(cmd, words) <=> Len(words) = 3
  <2>1. Len(Usage[cmd]) = 3
    BY <1>1, Usages DEF Publications
  <2>2. Taken(cmd, words) <=> Len(words) = Len(Usage[cmd])
    BY <1>1, Zenon DEF Taken
  <2> QED BY <2>1, <2>2
<1>2. ASSUME cmd \notin Publications PROVE Taken(cmd, words) <=> Fitted(cmd, words)
  BY <1>2, Zenon DEF Taken, Fitted, Counts
<1> QED BY <1>1, <1>2

\* The client accepts a line exactly when it is one of those taken.
LEMMA TakenIsAccepted ==
    ASSUME ArgsRead, NEW line \in Lines, line.cmd \in DOMAIN Usage
    PROVE  Taken(line.cmd, line.words) <=> Accepts(line.cmd, line.words)
<1> DEFINE cmd == line.cmd
           words == line.words
<1>1. words \in Seq(AnyText) /\ Len(words) \in Nat /\ DOMAIN words = 1..Len(words)
  BY LinesAreTexts
<1>2. cmd \in DOMAIN Usage
  OBVIOUS
<1>3. Len(words) = 5 => (words[5] \in DOMAIN ArgMeaning <=> ArgsLegal(OtherArgs(words)))
  BY DEF ArgsRead
<1> HIDE DEF cmd, words
<1>0. cmd \notin Publications => (Taken(cmd, words) <=> Fitted(cmd, words))
  BY TakenIs
<1>4. CASE cmd = "bind"
  <2>0. /\ 3 \in 1..3 /\ Len(Usage[cmd]) = 3 /\ DOMAIN Usage[cmd] = 1..3
        /\ \A i \in 1..3 : Usage[cmd][i] /= "args"
    BY <1>4, Usages
  <2>1. Fitted(cmd, words) <=> Len(words) = 3 /\ \A i \in 1..3 : Readable(Usage[cmd][i], words[i])
    BY <1>1, <2>0, FittedWords
  <2>2. \A i \in 1..3 : Readable(Usage[cmd][i], words[i])
    BY <1>4, Usages, ReadableIs
  <2>3. Accepts(cmd, words) <=> Len(words) = 3
    BY <1>4, Zenon DEF Accepts
  <2> QED BY <1>0, <1>4, <2>1, <2>2, <2>3 DEF cmd, words, Publications
<1>5. CASE cmd = "unbind"
  <2>0. /\ 2 \in 1..3 /\ Len(Usage[cmd]) = 2 /\ DOMAIN Usage[cmd] = 1..2
        /\ \A i \in 1..2 : Usage[cmd][i] /= "args"
    BY <1>5, Usages
  <2>1. Fitted(cmd, words) <=> Len(words) = 2 /\ \A i \in 1..2 : Readable(Usage[cmd][i], words[i])
    BY <1>1, <2>0, FittedWords
  <2>2. \A i \in 1..2 : Readable(Usage[cmd][i], words[i])
    BY <1>5, Usages, ReadableIs
  <2>3. Accepts(cmd, words) <=> Len(words) = 2
    BY <1>5, Zenon DEF Accepts
  <2> QED BY <1>0, <1>5, <2>1, <2>2, <2>3 DEF cmd, words, Publications
<1>6. CASE cmd \in {"delete_exchange", "delete_queue"}
  <2>0. /\ 1 \in 1..3 /\ Len(Usage[cmd]) = 1 /\ DOMAIN Usage[cmd] = 1..1
        /\ \A i \in 1..1 : Usage[cmd][i] /= "args"
    BY <1>6, Usages
  <2>1. Fitted(cmd, words) <=> Len(words) = 1 /\ \A i \in 1..1 : Readable(Usage[cmd][i], words[i])
    BY <1>1, <2>0, FittedWords
  <2>2. \A i \in 1..1 : Readable(Usage[cmd][i], words[i])
    BY <1>6, Usages, ReadableIs
  <2>3. Accepts(cmd, words) <=> Len(words) = 1
    <3>1. cmd \notin {"bind", "unbind", "declare_exchange", "declare_queue", "publish", "publish_mode", "subscribe", "svrstat"}
      BY <1>6
    <3> QED BY <1>6, <3>1, Zenon DEF Accepts
  <2> QED BY <1>0, <1>6, <2>1, <2>2, <2>3 DEF cmd, words, Publications
<1>7. CASE cmd \in Publications
  <2>1. Accepts(cmd, words) <=> Len(words) = 3
    <3>1. /\ cmd \in {"publish", "publish_mode"}
          /\ cmd \notin {"bind", "unbind", "declare_exchange", "declare_queue", "delete_exchange", "delete_queue", "subscribe", "svrstat"}
      BY <1>7 DEF Publications
    <3> QED BY <3>1, Zenon DEF Accepts
  <2> QED BY <1>7, <2>1, TakenIs DEF cmd, words
<1>8. CASE cmd = "subscribe"
  <2>0. /\ 3 \in 1..3 /\ Len(Usage[cmd]) = 3 /\ DOMAIN Usage[cmd] = 1..3
        /\ \A i \in 1..3 : Usage[cmd][i] /= "args"
    BY <1>8, Usages
  <2>1. Fitted(cmd, words) <=> Len(words) = 3 /\ \A i \in 1..3 : Readable(Usage[cmd][i], words[i])
    BY <1>1, <2>0, FittedWords
  <2>2. (\A i \in 1..3 : Readable(Usage[cmd][i], words[i])) <=> words[3] \in {true, false}
    BY <1>8, Usages, ReadableIs
  <2>3. Accepts(cmd, words) <=> Len(words) = 3 /\ Flags(<<words[3]>>)
    BY <1>8, Zenon DEF Accepts
  <2>4. Flags(<<words[3]>>) <=> words[3] \in {true, false}
    BY DEF Flags
  <2> QED BY <1>0, <1>8, <2>1, <2>2, <2>3, <2>4 DEF cmd, words, Publications
<1> DEFINE kinds == Usage[cmd]
<1>9. CASE cmd \in {"declare_exchange", "declare_queue"}
  <2>1. Counts(kinds) = {5, 4} /\ kinds[1] = "text" /\ kinds[5] = "args" /\ kinds[3] = "flag" /\ kinds[4] = "flag"
    <3>1. /\ Len(kinds) = 5 /\ DOMAIN kinds = 1..5 /\ kinds[5] = "args" /\ \A i \in 1..4 : kinds[i] /= "args"
          /\ kinds[1] = "text" /\ kinds[3] = "flag" /\ kinds[4] = "flag"
      BY <1>9, Usages
    <3> HIDE DEF kinds
    <3>2. 5 \in Nat \ {0} /\ 5 - 1 = 4
      OBVIOUS
    <3> QED BY <3>1, <3>2, CountsAre
  <2>2. kinds[2] = IF cmd = "declare_exchange" THEN "type" ELSE "flag"
    BY <1>9, Usages
  <2>3. Fitted(cmd, words) <=> Len(words) \in Counts(kinds) /\ \A i \in DOMAIN words : Readable(kinds[i], words[i])
    BY Zenon DEF Fitted
  <2> HIDE DEF kinds
  <2>4. Readable(kinds[1], words[1]) /\ (Readable(kinds[2], words[2]) <=>
                 IF cmd = "declare_exchange" THEN words[2] \in DOMAIN TypeWords ELSE words[2] \in {true, false})
               /\ (Readable(kinds[3], words[3]) <=> words[3] \in {true, false})
               /\ (Readable(kinds[4], words[4]) <=> words[4] \in {true, false})
               /\ (Readable(kinds[5], words[5]) <=> words[5] \in DOMAIN ArgMeaning)
    BY <2>1, <2>2, ReadableIs
  <2>5. Fitted(cmd, words) <=>
          /\ Len(words) \in {4, 5}
          /\ IF cmd = "declare_exchange" THEN words[2] \in DOMAIN TypeWords ELSE words[2] \in {true, false}
          /\ words[3] \in {true, false} /\ words[4] \in {true, false}
          /\ Len(words) = 5 => words[5] \in DOMAIN ArgMeaning
    <3>1. CASE Len(words) = 4
      <4>1. \A i : i \in DOMAIN words <=> i = 1 \/ i = 2 \/ i = 3 \/ i = 4
        BY <1>1, <3>1
      <4> QED BY <2>1, <2>3, <2>4, <3>1, <4>1
    <3>2. CASE Len(words) = 5
      <4>1. \A i : i \in DOMAIN words <=> i = 1 \/ i = 2 \/ i = 3 \/ i = 4 \/ i = 5
        BY <1>1, <3>2
      <4> QED BY <2>1, <2>3, <2>4, <3>2, <4>1
    <3> QED BY <2>1, <2>3, <3>1, <3>2
  <2>6. Len(words) = 4 => ArgsLegal(OtherArgs(words))
    <3> SUFFICES ASSUME Len(words) = 4 PROVE ArgsLegal(OtherArgs(words))
      OBVIOUS
    <3>1. OtherArgs(words) = <<>>
      BY <1>1 DEF OtherArgs
    <3>2. Pieces(OtherArgs(words)) = <<>>
      BY <3>1, Zenon DEF Pieces
    <3> QED BY <3>2 DEF ArgsLegal
  <2>7. Len(words) \in {4, 5} => /\ Flags(SubSeq(words, 3, 4)) <=> words[3] \in {true, false} /\ words[4] \in {true, false}
                                 /\ Flags(SubSeq(words, 2, 4)) <=> /\ words[2] \in {true, false} /\ words[3] \in {true, false}
                                                                   /\ words[4] \in {true, false}
    <3> SUFFICES ASSUME Len(words) \in {4, 5}
                 PROVE  /\ Flags(SubSeq(words, 3, 4)) <=> words[3] \in {true, false} /\ words[4] \in {true, false}
                        /\ Flags(SubSeq(words, 2, 4)) <=> /\ words[2] \in {true, false} /\ words[3] \in {true, false}
                                                          /\ words[4] \in {true, false}
      OBVIOUS
    <3>1. DOMAIN SubSeq(words, 3, 4) = 1..2 /\ SubSeq(words, 3, 4)[1] = words[3] /\ SubSeq(words, 3, 4)[2] = words[4]
      BY <1>1
    <3>2. /\ DOMAIN SubSeq(words, 2, 4) = 1..3 /\ SubSeq(words, 2, 4)[1] = words[2]
          /\ SubSeq(words, 2, 4)[2] = words[3] /\ SubSeq(words, 2, 4)[3] = words[4]
      BY <1>1
    <3>3. \A i : (i \in 1..2 <=> i = 1 \/ i = 2) /\ (i \in 1..3 <=> i = 1 \/ i = 2 \/ i = 3)
      OBVIOUS
    <3> DEFINE s == SubSeq(words, 3, 4)
               t == SubSeq(words, 2, 4)
    <3>4. (Flags(s) <=> \A i \in DOMAIN s : s[i] \in {true, false}) /\ (Flags(t) <=> \A i \in DOMAIN t : t[i] \in {true, false})
      BY Zenon DEF Flags
    <3> HIDE DEF s, t
    <3> QED BY <3>1, <3>2, <3>3, <3>4 DEF s, t
  <2>8. CASE cmd = "declare_exchange"
    <3>1. Accepts(cmd, words) <=> /\ Len(words) \in {4, 5}
                                  /\ words[2] \in DOMAIN TypeWords /\ Flags(SubSeq(words, 3, 4)) /\ ArgsLegal(OtherArgs(words))
      BY <2>8, Zenon DEF Accepts
    <3> QED BY <1>0, <1>3, <2>5, <2>6, <2>7, <2>8, <3>1 DEF cmd, words, Publications
  <2>9. CASE cmd = "declare_queue"
    <3>1. Accepts(cmd, words) <=> /\ Len(words) \in {4, 5}
                                  /\ Flags(SubSeq(words, 2, 4)) /\ ArgsLegal(OtherArgs(words))
      BY <2>9, Zenon DEF Accepts
    <3> QED BY <1>0, <1>3, <2>5, <2>6, <2>7, <2>9, <3>1 DEF cmd, words, Publications
  <2> QED BY <1>9, <2>8, <2>9
<1> QED BY <1>2, <1>4, <1>5, <1>6, <1>7, <1>8, <1>9, Usages DEF Publications

\* A sequence of a few elements.
LEMMA FewAre ==
    ASSUME NEW f
    PROVE  /\ f = [i \in 1..2 |-> f[i]] => f = <<f[1], f[2]>>
           /\ f = [i \in 1..3 |-> f[i]] => f = <<f[1], f[2], f[3]>>
           /\ f = [i \in 1..4 |-> f[i]] => f = <<f[1], f[2], f[3], f[4]>>
           /\ f = [i \in 1..6 |-> f[i]] => f = <<f[1], f[2], f[3], f[4], f[5], f[6]>>
<1>1. \A i : i \in 1..6 <=> i = 1 \/ i = 2 \/ i = 3 \/ i = 4 \/ i = 5 \/ i = 6
  OBVIOUS
<1>2. \A i : i \in 1..4 <=> i = 1 \/ i = 2 \/ i = 3 \/ i = 4
  OBVIOUS
<1>3. \A i : (i \in 1..3 <=> i = 1 \/ i = 2 \/ i = 3) /\ (i \in 1..2 <=> i = 1 \/ i = 2)
  OBVIOUS
<1>4. ASSUME f = [i \in 1..2 |-> f[i]] PROVE f = <<f[1], f[2]>>
  BY <1>3, <1>4
<1>5. ASSUME f = [i \in 1..3 |-> f[i]] PROVE f = <<f[1], f[2], f[3]>>
  BY <1>3, <1>5
<1>6. ASSUME f = [i \in 1..4 |-> f[i]] PROVE f = <<f[1], f[2], f[3], f[4]>>
  BY <1>2, <1>6
<1>7. ASSUME f = [i \in 1..6 |-> f[i]] PROVE f = <<f[1], f[2], f[3], f[4], f[5], f[6]>>
  BY <1>1, <1>7
<1> QED BY <1>4, <1>5, <1>6, <1>7

\* A name and its arguments.
LEMMA CallIs ==
    ASSUME NEW x, NEW f, NEW n \in {1, 2, 3, 5}, f = [i \in 1..n |-> f[i]]
    PROVE  /\ n = 1 => <<x>> \o f = <<x, f[1]>>
           /\ n = 2 => <<x>> \o f = <<x, f[1], f[2]>>
           /\ n = 3 => <<x>> \o f = <<x, f[1], f[2], f[3]>>
           /\ n = 5 => <<x>> \o f = <<x, f[1], f[2], f[3], f[4], f[5]>>
<1> DEFINE S == {x} \union {f[i] : i \in 1..n}
           c == <<x>> \o f
<1>1. n \in Nat /\ \A i \in 1..n : f[i] \in S
  OBVIOUS
<1>2. x \in S
  OBVIOUS
<1> HIDE DEF S
<1>3. f \in [1..n -> S]
  BY <1>1, Zenon
<1>4. f \in Seq(S) /\ Len(f) = n
  <2>1. f \in Seq(S)
    BY <1>1, <1>3, IsASeq
  <2> QED BY <1>1, <1>3, <2>1
<1>5. <<x>> \in Seq(S) /\ Len(<<x>>) = 1 /\ <<x>>[1] = x
  BY <1>2
<1>6. /\ c \in Seq(S) /\ Len(c) = 1 + n
      /\ c[1] = x /\ \A p \in 1..n : c[1 + p] = f[p]
  <2> DEFINE a == <<x>>
  <2>1. a \in Seq(S) /\ Len(a) = 1 /\ a[1] = x
    BY <1>5
  <2> HIDE DEF a
  <2>2. /\ a \o f \in Seq(S) /\ Len(a \o f) = Len(a) + Len(f)
        /\ \A p \in 1..Len(a) : (a \o f)[p] = a[p]
        /\ \A p \in 1..Len(f) : (a \o f)[Len(a) + p] = f[p]
    <3>1. a \in Seq(S) /\ f \in Seq(S)
      BY <1>4, <2>1
    <3> QED BY ONLY <3>1, Joined
  <2>3. 1 \in 1..1
    OBVIOUS
  <2>4. /\ a \o f \in Seq(S) /\ Len(a \o f) = 1 + n
        /\ (a \o f)[1] = x /\ \A p \in 1..n : (a \o f)[1 + p] = f[p]
    BY <1>4, <2>1, <2>2, <2>3
  <2> QED BY <2>4 DEF a
<1> HIDE DEF c
<1>7. c = [i \in 1..(1 + n) |-> c[i]]
  BY <1>6
<1>8. ASSUME n = 1 PROVE c = <<x, f[1]>>
  BY <1>6, <1>7, <1>8, FewAre
<1>9. ASSUME n = 2 PROVE c = <<x, f[1], f[2]>>
  BY <1>6, <1>7, <1>9, FewAre
<1>10. ASSUME n = 3 PROVE c = <<x, f[1], f[2], f[3]>>
  <2>1. c = <<c[1], c[2], c[3], c[4]>>
    BY <1>7, <1>10, FewAre
  <2> QED BY <1>6, <1>10, <2>1
<1>11. ASSUME n = 5 PROVE c = <<x, f[1], f[2], f[3], f[4], f[5]>>
  <2>1. c = <<c[1], c[2], c[3], c[4], c[5], c[6]>>
    BY <1>7, <1>11, FewAre
  <2>2. c[1 + 1] = f[1] /\ c[1 + 2] = f[2] /\ c[1 + 3] = f[3] /\ c[1 + 4] = f[4] /\ c[1 + 5] = f[5]
    BY <1>6, <1>11
  <2>3. 1 + 1 = 2 /\ 1 + 2 = 3 /\ 1 + 3 = 4 /\ 1 + 4 = 5 /\ 1 + 5 = 6
    OBVIOUS
  <2>4. c[2] = f[1] /\ c[3] = f[2] /\ c[4] = f[3] /\ c[5] = f[4] /\ c[6] = f[5]
    BY ONLY <2>2, <2>3, Zenon
  <2> QED BY <1>6, <2>1, <2>4, Zenon
<1> QED BY <1>8, <1>9, <1>10, <1>11 DEF c

\* What a word of a line means, and the call a line means.
Named(cmd) == IF cmd = "subscribe" THEN "create" ELSE cmd
Argument(cmd, words, i) == IF i \in DOMAIN words THEN Meaning(Usage[cmd][i], words[i]) ELSE {}
LEMMA MeantIs ==
    ASSUME NEW cmd, NEW words, NEW n \in {1, 2, 3, 5}, DOMAIN Usage[cmd] = 1..n
    PROVE  /\ n = 1 => Meant(cmd, words) = <<Named(cmd), Argument(cmd, words, 1)>>
           /\ n = 2 => Meant(cmd, words) = <<Named(cmd), Argument(cmd, words, 1), Argument(cmd, words, 2)>>
           /\ n = 3 => Meant(cmd, words) =
                <<Named(cmd), Argument(cmd, words, 1), Argument(cmd, words, 2), Argument(cmd, words, 3)>>
           /\ n = 5 => Meant(cmd, words) =
                <<Named(cmd), Argument(cmd, words, 1), Argument(cmd, words, 2), Argument(cmd, words, 3),
                  Argument(cmd, words, 4), Argument(cmd, words, 5)>>
<1> DEFINE f == [i \in 1..n |-> Argument(cmd, words, i)]
           x == Named(cmd)
<1>1. Meant(cmd, words) = <<x>> \o f
  BY Zenon DEF Meant, Named, Argument
<1>2. f = [i \in 1..n |-> f[i]] /\ \A i \in 1..n : f[i] = Argument(cmd, words, i)
  OBVIOUS
<1>3. n = 1 => 1 \in 1..n
  OBVIOUS
<1>4. n = 2 => 1 \in 1..n /\ 2 \in 1..n
  OBVIOUS
<1>5. n = 3 => 1 \in 1..n /\ 2 \in 1..n /\ 3 \in 1..n
  OBVIOUS
<1>6. n = 5 => 1 \in 1..n /\ 2 \in 1..n /\ 3 \in 1..n /\ 4 \in 1..n /\ 5 \in 1..n
  OBVIOUS
<1> HIDE DEF f
<1>7. /\ n = 1 => <<x>> \o f = <<x, f[1]>>
      /\ n = 2 => <<x>> \o f = <<x, f[1], f[2]>>
      /\ n = 3 => <<x>> \o f = <<x, f[1], f[2], f[3]>>
      /\ n = 5 => <<x>> \o f = <<x, f[1], f[2], f[3], f[4], f[5]>>
  BY <1>2, CallIs
<1> QED BY <1>1, <1>2, <1>3, <1>4, <1>5, <1>6, <1>7, Zenon

\* Each word by its place in the usage.
LEMMA MeaningIs ==
    ASSUME NEW word
    PROVE  /\ Meaning("text", word) = word /\ Meaning("flag", word) = (word = true)
           /\ Meaning("type", word) = TypeWords[word] /\ Meaning("args", word) = ArgMeaning[word]
<1>1. Meaning("text", word) = word
  BY Zenon DEF Meaning
<1>2. Meaning("flag", word) = (word = true)
  BY Zenon DEF Meaning
<1>3. Meaning("type", word) = TypeWords[word]
  BY Zenon DEF Meaning
<1>4. Meaning("args", word) = ArgMeaning[word]
  BY Zenon DEF Meaning
<1> QED BY <1>1, <1>2, <1>3, <1>4

\* The args that are meant are those of the request.
LEMMA ArgsMeant ==
    ASSUME ArgsRead, NEW line \in Lines, line.cmd \in {"declare_exchange", "declare_queue"},
           Accepts(line.cmd, line.words)
    PROVE  Argument(line.cmd, line.words, 5) = ArgsOf(OtherArgs(line.words))
<1> DEFINE cmd == line.cmd
           words == line.words
<1>1. words \in Seq(AnyText) /\ Len(words) \in Nat /\ DOMAIN words = 1..Len(words)
  BY LinesAreTexts
<1>2. Len(words) = 5 /\ ArgsLegal(OtherArgs(words)) => ArgMeaning[words[5]] = ArgsOf(OtherArgs(words))
  BY DEF ArgsRead
<1>3. Accepts(cmd, words) /\ cmd \in {"declare_exchange", "declare_queue"}
  OBVIOUS
<1> HIDE DEF cmd, words
<1>4. Len(words) \in {4, 5} /\ ArgsLegal(OtherArgs(words))
  <2>1. CASE cmd = "declare_exchange"
    BY <1>3, <2>1, Zenon DEF Accepts
  <2>2. CASE cmd = "declare_queue"
    BY <1>3, <2>2, Zenon DEF Accepts
  <2> QED BY <1>3, <2>1, <2>2
<1>5. Usage[cmd][5] = "args"
  BY <1>3, Usages
<1>6. CASE Len(words) = 5
  <2>1. 5 \in DOMAIN words
    BY <1>1, <1>6
  <2>2. Argument(cmd, words, 5) = ArgMeaning[words[5]]
    BY <1>5, <2>1, MeaningIs DEF Argument
  <2> QED BY <1>2, <1>4, <1>6, <2>2 DEF cmd, words
<1>7. CASE Len(words) = 4
  <2>1. ~(5 \in DOMAIN words)
    BY <1>1, <1>7
  <2>2. Argument(cmd, words, 5) = {}
    BY <2>1 DEF Argument
  <2>3. OtherArgs(words) = <<>>
    BY <1>1, <1>7 DEF OtherArgs
  <2>4. Pieces(OtherArgs(words)) = <<>>
    BY <2>3, Zenon DEF Pieces
  <2>5. ArgsOf(OtherArgs(words)) = {}
    <3> DEFINE pieces == Pieces(OtherArgs(words))
               IsNew(i) == \A j \in 1..(i - 1) : Cut(pieces[j], 61)[1] /= Cut(pieces[i], 61)[1]
    <3>1. ArgsOf(OtherArgs(words)) = {Cut(pieces[i], 61) : i \in {i \in DOMAIN pieces : IsNew(i)}}
      BY Zenon DEF ArgsOf
    <3> HIDE DEF IsNew
    <3>2. {i \in DOMAIN pieces : IsNew(i)} = {}
      BY <2>4
    <3> QED BY <3>1, <3>2
  <2> QED BY <2>2, <2>5 DEF cmd, words
<1> QED BY <1>4, <1>6, <1>7

\* A request of an open channel that is not ignored goes to the handler of its class.
LEMMA HandlerOf ==
    ASSUME NEW class, class \notin {"openChannelRequest", "closeChannelRequest"}, NEW req, NEW open, NEW ok, NEW status,
           NEW h, h = Handle(class, req, open, ok, status), h.class /= "none"
    PROVE  /\ class = "bindRequest" => h = on_bind(req, ok)
           /\ class = "unbindRequest" => h = on_unbind(req)
           /\ class = "declareExchangeRequest" => h = on_declareExchange(req, ok)
           /\ class = "deleteExchangeRequest" => h = on_deleteExchange(req)
           /\ class = "declareQueueRequest" => h = on_declareQueue(req, ok)
           /\ class = "deleteQueueRequest" => h = on_deleteQueue(req)
           /\ class = "basicPublishRequest" => h = on_basicPublish(req, ok)
           /\ class = "basicConsumeRequest" => h = on_basicConsume(req, ok)
<1>1. req.cid \in open
  <2> SUFFICES ASSUME req.cid \notin open PROVE FALSE
    OBVIOUS
  <2>1. class /= "openChannelRequest" /\ class /= "closeChannelRequest"
    OBVIOUS
  <2>2. h = Ignored
    BY <2>1, Zenon DEF Handle
  <2> QED BY <2>2 DEF Ignored, Outcome
<1>2. CASE class = "bindRequest"
  <2>1. h = on_bind(req, ok)
    BY <1>1, <1>2, Zenon DEF Handle
  <2> QED BY <1>2, <2>1
<1>3. CASE class = "unbindRequest"
  <2>1. h = on_unbind(req)
    BY <1>1, <1>3, Zenon DEF Handle
  <2> QED BY <1>3, <2>1
<1>4. CASE class = "declareExchangeRequest"
  <2>1. h = on_declareExchange(req, ok)
    BY <1>1, <1>4, Zenon DEF Handle
  <2> QED BY <1>4, <2>1
<1>5. CASE class = "deleteExchangeRequest"
  <2>1. h = on_deleteExchange(req)
    BY <1>1, <1>5, Zenon DEF Handle
  <2> QED BY <1>5, <2>1
<1>6. CASE class = "declareQueueRequest"
  <2>1. h = on_declareQueue(req, ok)
    BY <1>1, <1>6, Zenon DEF Handle
  <2> QED BY <1>6, <2>1
<1>7. CASE class = "deleteQueueRequest"
  <2>1. h = on_deleteQueue(req)
    BY <1>1, <1>7, Zenon DEF Handle
  <2> QED BY <1>7, <2>1
<1>8. CASE class = "basicPublishRequest"
  <2>1. h = on_basicPublish(req, ok)
    BY <1>1, <1>8, Zenon DEF Handle
  <2> QED BY <1>8, <2>1
<1>9. CASE class = "basicConsumeRequest"
  <2>1. h = on_basicConsume(req, ok)
    BY <1>1, <1>9, Zenon DEF Handle
  <2> QED BY <1>9, <2>1
<1> QED BY <1>2, <1>3, <1>4, <1>5, <1>6, <1>7, <1>8, <1>9

\* What is done for a line, publications excepted.
LineDone(cmd, words, done) ==
    IF cmd = "subscribe" THEN done.answer.ok => done.calls = <<Meant(cmd, words)>>
    ELSE Meant(cmd, words) \in Range(done.calls)

\* One call, or two, among the calls.
LEMMA Among ==
    ASSUME NEW x, NEW y
    PROVE  x \in Range(<<x>>) /\ x \in Range(<<x, y>>) /\ y \in Range(<<x, y>>)
<1>1. 1 \in DOMAIN <<x>> /\ <<x>>[1] = x
  OBVIOUS
<1>2. 1 \in DOMAIN <<x, y>> /\ 2 \in DOMAIN <<x, y>> /\ <<x, y>>[1] = x /\ <<x, y>>[2] = y
  OBVIOUS
<1> QED BY <1>1, <1>2 DEF Range

\* The calls of an answered request.
LEMMA AnsweredIs ==
    ASSUME NEW calls, NEW req, NEW ok
    PROVE  Answered(calls, req, ok).calls = calls /\ Answered(calls, req, ok).answer.ok = ok
BY DEF Answered, Outcome, Common

\* The handlers do what a line means.
LEMMA HandlersDo ==
    ASSUME ArgsRead, NEW line \in Lines, line.cmd \in DOMAIN Usage, line.cmd \notin {"publish", "publish_mode"},
           Accepts(line.cmd, line.words), NEW rid, NEW cid, NEW open, NEW ok \in BOOLEAN, NEW status,
           NEW r, r = RequestOf(line.cmd, line.words, rid, cid),
           NEW h, h = Handle(r.class, r.req, open, ok, status), h.class /= "none"
    PROVE  LineDone(line.cmd, line.words, h)
<1> DEFINE cmd == line.cmd
           words == line.words
           Arg(i) == Argument(cmd, words, i)
<1>1. words \in Seq(AnyText) /\ Len(words) \in Nat /\ DOMAIN words = 1..Len(words)
  BY LinesAreTexts
<1>2. /\ cmd \in DOMAIN Usage /\ cmd \notin {"publish", "publish_mode"} /\ Accepts(cmd, words)
      /\ r = RequestOf(cmd, words, rid, cid)
  OBVIOUS
<1>3. cmd \in {"declare_exchange", "declare_queue"} => Arg(5) = ArgsOf(OtherArgs(words))
  BY ArgsMeant
<1> HIDE DEF cmd, words
<1>4. CASE cmd = "bind"
  <2>1. Len(words) = 3
    BY <1>2, <1>4, Zenon DEF Accepts
  <2>2. r = bind(rid, cid, words[1], words[2], words[3])
    BY <1>2, <1>4, Zenon DEF RequestOf
  <2>3. r.class = "bindRequest" /\ r.req.exchange_name = words[1] /\ r.req.queue_name = words[2] /\ r.req.binding_key = words[3]
    BY <2>2 DEF bind
  <2>4. h = on_bind(r.req, ok)
    BY <2>3, HandlerOf
  <2>5. h.calls = <<<<"bind", words[1], words[2], words[3]>>>>
    BY <2>3, <2>4, AnsweredIs DEF on_bind
  <2>6. Meant(cmd, words) = <<"bind", words[1], words[2], words[3]>>
    <3>1. DOMAIN Usage[cmd] = 1..3 /\ Usage[cmd][1] = "text" /\ Usage[cmd][2] = "text" /\ Usage[cmd][3] = "text"
      BY <1>4, Usages
    <3>2. Meant(cmd, words) = <<Named(cmd), Arg(1), Arg(2), Arg(3)>>
      BY <3>1, MeantIs
    <3>3. Arg(1) = words[1] /\ Arg(2) = words[2] /\ Arg(3) = words[3] /\ Named(cmd) = "bind"
      BY <1>1, <1>4, <2>1, <3>1, MeaningIs DEF Argument, Named
    <3> QED BY <3>2, <3>3
  <2> QED BY <1>4, <2>5, <2>6, Among DEF LineDone, cmd, words
<1>5. CASE cmd = "unbind"
  <2>1. Len(words) = 2
    BY <1>2, <1>5, Zenon DEF Accepts
  <2>2. r = unbind(rid, cid, words[1], words[2])
    BY <1>2, <1>5, Zenon DEF RequestOf
  <2>3. r.class = "unbindRequest" /\ r.req.exchange_name = words[1] /\ r.req.queue_name = words[2]
    BY <2>2 DEF unbind
  <2>4. h = on_unbind(r.req)
    BY <2>3, HandlerOf
  <2>5. h.calls = <<<<"unbind", words[1], words[2]>>>>
    <3> DEFINE calls == <<<<"unbind", words[1], words[2]>>>>
    <3>1. \E x \in BOOLEAN : h = Answered(calls, r.req, x)
      BY <2>3, <2>4, Zenon DEF on_unbind
    <3> HIDE DEF calls
    <3>2. h.calls = calls
      BY <3>1, AnsweredIs
    <3> QED BY <3>2 DEF calls
  <2>6. Meant(cmd, words) = <<"unbind", words[1], words[2]>>
    <3>1. DOMAIN Usage[cmd] = 1..2 /\ Usage[cmd][1] = "text" /\ Usage[cmd][2] = "text"
      BY <1>5, Usages
    <3>2. Meant(cmd, words) = <<Named(cmd), Arg(1), Arg(2)>>
      BY <3>1, MeantIs
    <3>3. Arg(1) = words[1] /\ Arg(2) = words[2] /\ Named(cmd) = "unbind"
      BY <1>1, <1>5, <2>1, <3>1, MeaningIs DEF Argument, Named
    <3> QED BY <3>2, <3>3
  <2> QED BY <1>5, <2>5, <2>6, Among DEF LineDone, cmd, words
<1>6. CASE cmd = "delete_exchange"
  <2>1. Len(words) = 1
    BY <1>2, <1>6, Zenon DEF Accepts
  <2>2. r = delete_exchange(rid, cid, words[1])
    BY <1>2, <1>6, Zenon DEF RequestOf
  <2>3. r.class = "deleteExchangeRequest" /\ r.req.exchange_name = words[1]
    BY <2>2 DEF delete_exchange
  <2>4. h = on_deleteExchange(r.req)
    BY <2>3, HandlerOf
  <2>5. h.calls = <<<<"delete_exchange", words[1]>>>>
    <3> DEFINE calls == <<<<"delete_exchange", words[1]>>>>
    <3>1. \E x \in BOOLEAN : h = Answered(calls, r.req, x)
      BY <2>3, <2>4, Zenon DEF on_deleteExchange
    <3> HIDE DEF calls
    <3>2. h.calls = calls
      BY <3>1, AnsweredIs
    <3> QED BY <3>2 DEF calls
  <2>6. Meant(cmd, words) = <<"delete_exchange", words[1]>>
    <3>1. DOMAIN Usage[cmd] = 1..1 /\ Usage[cmd][1] = "text"
      BY <1>6, Usages
    <3>2. Meant(cmd, words) = <<Named(cmd), Arg(1)>>
      BY <3>1, MeantIs
    <3>3. Arg(1) = words[1] /\ Named(cmd) = "delete_exchange"
      BY <1>1, <1>6, <2>1, <3>1, MeaningIs DEF Argument, Named
    <3> QED BY <3>2, <3>3
  <2> QED BY <1>6, <2>5, <2>6, Among DEF LineDone, cmd, words
<1>7. CASE cmd = "delete_queue"
  <2>1. Len(words) = 1
    BY <1>2, <1>7, Zenon DEF Accepts
  <2>2. r = delete_queue(rid, cid, words[1])
    BY <1>2, <1>7, Zenon DEF RequestOf
  <2>3. r.class = "deleteQueueRequest" /\ r.req.queue_name = words[1]
    BY <2>2 DEF delete_queue
  <2>4. h = on_deleteQueue(r.req)
    BY <2>3, HandlerOf
  <2>5. h.calls = <<<<"destroy_queue_consumer", words[1]>>, <<"delete_queue", words[1]>>>>
    <3> DEFINE calls == <<<<"destroy_queue_consumer", words[1]>>, <<"delete_queue", words[1]>>>>
    <3>1. \E x \in BOOLEAN : h = Answered(calls, r.req, x)
      BY <2>3, <2>4, Zenon DEF on_deleteQueue
    <3> HIDE DEF calls
    <3>2. h.calls = calls
      BY <3>1, AnsweredIs
    <3> QED BY <3>2 DEF calls
  <2>6. Meant(cmd, words) = <<"delete_queue", words[1]>>
    <3>1. DOMAIN Usage[cmd] = 1..1 /\ Usage[cmd][1] = "text"
      BY <1>7, Usages
    <3>2. Meant(cmd, words) = <<Named(cmd), Arg(1)>>
      BY <3>1, MeantIs
    <3>3. Arg(1) = words[1] /\ Named(cmd) = "delete_queue"
      BY <1>1, <1>7, <2>1, <3>1, MeaningIs DEF Argument, Named
    <3> QED BY <3>2, <3>3
  <2> QED BY <1>7, <2>5, <2>6, Among DEF LineDone, cmd, words
<1> DEFINE flag(i) == (words[i] = true)
           given == ArgsOf(OtherArgs(words))
<1>8. CASE cmd = "subscribe"
  <2>1. Len(words) = 3
    BY <1>2, <1>8, Zenon DEF Accepts
  <2>2. r = basic_consume(rid, cid, words[1], words[2], flag(3))
    BY <1>2, <1>8, Zenon DEF RequestOf
  <2>3. r.class = "basicConsumeRequest" /\ r.req.consumer_tag = words[1] /\ r.req.queue_name = words[2] /\ r.req.auto_ack = flag(3)
    BY <2>2 DEF basic_consume
  <2>4. h = on_basicConsume(r.req, ok)
    BY <2>3, HandlerOf
  <2>5. h.answer.ok => h.calls = <<<<"create", words[1], words[2], flag(3)>>>>
    BY <2>3, <2>4, AnsweredIs DEF on_basicConsume
  <2>6. Meant(cmd, words) = <<"create", words[1], words[2], flag(3)>>
    <3>1. DOMAIN Usage[cmd] = 1..3 /\ Usage[cmd][1] = "text" /\ Usage[cmd][2] = "text" /\ Usage[cmd][3] = "flag"
      BY <1>8, Usages
    <3>2. Meant(cmd, words) = <<Named(cmd), Arg(1), Arg(2), Arg(3)>>
      BY <3>1, MeantIs
    <3>3. Arg(1) = words[1] /\ Arg(2) = words[2] /\ Arg(3) = flag(3) /\ Named(cmd) = "create"
      BY <1>1, <1>8, <2>1, <3>1, MeaningIs DEF Argument, Named
    <3> QED BY <3>2, <3>3
  <2> QED BY <1>8, <2>5, <2>6, Among DEF LineDone, cmd, words
<1>9. CASE cmd = "declare_exchange"
  <2>1. Len(words) \in {4, 5}
    BY <1>2, <1>9, Zenon DEF Accepts
  <2>2. r = declare_exchange(rid, cid, words[1], TypeWords[words[2]], flag(3), flag(4), given)
    BY <1>2, <1>9, Zenon DEF RequestOf
  <2>3. r.class = "declareExchangeRequest" /\ r.req.exchange_name = words[1] /\ r.req.exchange_type = TypeWords[words[2]]
        /\ r.req.durable = flag(3) /\ r.req.auto_delete = flag(4) /\ r.req.args = given
    BY <2>2 DEF declare_exchange
  <2>4. h = on_declareExchange(r.req, ok)
    BY <2>3, HandlerOf
  <2>5. h.calls = <<<<"declare_exchange", words[1], TypeWords[words[2]], flag(3), flag(4), given>>>>
    BY <2>3, <2>4, AnsweredIs DEF on_declareExchange
  <2>6. Meant(cmd, words) = <<"declare_exchange", words[1], TypeWords[words[2]], flag(3), flag(4), given>>
    <3>1. DOMAIN Usage[cmd] = 1..5 /\ Usage[cmd][1] = "text" /\ Usage[cmd][2] = "type" /\ Usage[cmd][3] = "flag" /\ Usage[cmd][4] = "flag" /\ Usage[cmd][5] = "args"
      BY <1>9, Usages
    <3>2. Meant(cmd, words) = <<Named(cmd), Arg(1), Arg(2), Arg(3), Arg(4), Arg(5)>>
      BY <3>1, MeantIs
    <3>3. Arg(1) = words[1] /\ Arg(2) = TypeWords[words[2]] /\ Arg(3) = flag(3) /\ Arg(4) = flag(4) /\ Arg(5) = given /\ Named(cmd) = "declare_exchange"
      BY <1>1, <1>3, <1>9, <2>1, <3>1, MeaningIs DEF Argument, Named
    <3> QED BY <3>2, <3>3
  <2> QED BY <1>9, <2>5, <2>6, Among DEF LineDone, cmd, words
<1>10. CASE cmd = "declare_queue"
  <2> DEFINE declare == <<"declare_queue", words[1], flag(2), flag(3), flag(4), given>>
  <2>1. Len(words) \in {4, 5}
    BY <1>2, <1>10, Zenon DEF Accepts
  <2>2. r = declare_queue(rid, cid, words[1], flag(2), flag(3), flag(4), given)
    BY <1>2, <1>10, Zenon DEF RequestOf
  <2>3. r.class = "declareQueueRequest" /\ r.req.queue_name = words[1] /\ r.req.durable = flag(2)
        /\ r.req.exclusive = flag(3) /\ r.req.auto_delete = flag(4) /\ r.req.args = given
    BY <2>2 DEF declare_queue
  <2>4. h = on_declareQueue(r.req, ok)
    BY <2>3, HandlerOf
  <2>5. \E other : h.calls = <<declare>> \/ h.calls = <<declare, other>>
    BY <2>3, <2>4, AnsweredIs DEF on_declareQueue
  <2>6. Meant(cmd, words) = declare
    <3>1. DOMAIN Usage[cmd] = 1..5 /\ Usage[cmd][1] = "text" /\ Usage[cmd][2] = "flag" /\ Usage[cmd][3] = "flag" /\ Usage[cmd][4] = "flag" /\ Usage[cmd][5] = "args"
      BY <1>10, Usages
    <3>2. Meant(cmd, words) = <<Named(cmd), Arg(1), Arg(2), Arg(3), Arg(4), Arg(5)>>
      BY <3>1, MeantIs
    <3>3. Arg(1) = words[1] /\ Arg(2) = flag(2) /\ Arg(3) = flag(3) /\ Arg(4) = flag(4) /\ Arg(5) = given /\ Named(cmd) = "declare_queue"
      BY <1>1, <1>3, <1>10, <2>1, <3>1, MeaningIs DEF Argument, Named
    <3> QED BY <3>2, <3>3
  <2> HIDE DEF declare
  <2>7. declare \in Range(h.calls)
    <3>1. PICK other : h.calls = <<declare>> \/ h.calls = <<declare, other>>
      BY <2>5
    <3> QED BY <3>1, Among
  <2>8. LineDone(cmd, words, h) = (Meant(cmd, words) \in Range(h.calls))
    BY <1>10, Zenon DEF LineDone
  <2> QED BY <2>6, <2>7, <2>8 DEF cmd, words
<1> QED BY <1>2, <1>4, <1>5, <1>6, <1>7, <1>8, <1>9, <1>10, Usages

\* What is published says what was typed: the exchange, the mode and the message.
ModeTyped(words, properties) ==
    /\ properties = <<properties[1]>> /\ properties[1].routing_key = <<>>
    /\ properties[1].delivery_mode = DURABLE <=> words[2] = Word_DURABLE
    /\ properties[1].delivery_mode = UNDURABLE <=> words[2] = Word_DIRECT
PublishTyped(words, text, r) ==
    /\ r.class = "basicPublishRequest"
    /\ r.req.exchange_name = words[1] /\ r.req.body = text /\ ModeTyped(words, r.req.properties)

\* The properties of what is published have the mode that was typed.
LEMMA ModeIsTyped == ASSUME NEW words, NEW id PROVE ModeTyped(words, <<PropertiesOf(words, id)>>)
<1> DEFINE mode == CASE words[2] = Word_DURABLE -> DURABLE
                     [] words[2] = Word_DIRECT -> UNDURABLE
                     [] OTHER -> UNKNOWMODE
<1>1. /\ mode = DURABLE <=> words[2] = Word_DURABLE
      /\ mode = UNDURABLE <=> words[2] = Word_DIRECT
  <2>1. words[2] = Word_DURABLE => words[2] /= Word_DIRECT
    BY DEF Word_DURABLE, Word_DIRECT
  <2>2. DURABLE /= UNDURABLE /\ UNKNOWMODE /= DURABLE /\ UNKNOWMODE /= UNDURABLE
    BY DEF DURABLE, UNDURABLE, UNKNOWMODE
  <2>3. CASE words[2] = Word_DURABLE
    <3>1. mode = DURABLE
      BY <2>1, <2>3, Zenon
    <3> HIDE DEF mode
    <3> QED BY <2>1, <2>2, <2>3, <3>1
  <2>4. CASE words[2] = Word_DIRECT
    <3>1. mode = UNDURABLE
      BY <2>1, <2>4, Zenon
    <3> HIDE DEF mode
    <3> QED BY <2>1, <2>2, <2>4, <3>1
  <2>5. CASE words[2] /= Word_DURABLE /\ words[2] /= Word_DIRECT
    <3>1. mode = UNKNOWMODE
      BY <2>5, Zenon
    <3> HIDE DEF mode
    <3> QED BY <2>2, <2>5, <3>1
  <2> QED BY <2>3, <2>4, <2>5
<1>2. PropertiesOf(words, id) = [id |-> id, delivery_mode |-> mode, routing_key |-> <<>>]
  BY Zenon DEF PropertiesOf
<1> HIDE DEF mode
<1> DEFINE p == PropertiesOf(words, id)
<1>3. p.delivery_mode = mode /\ p.routing_key = <<>>
  BY <1>2
<1> HIDE DEF p
<1>4. <<p>>[1] = p
  OBVIOUS
<1>5. ModeTyped(words, <<p>>)
  BY <1>1, <1>3, <1>4 DEF ModeTyped
<1> QED BY <1>5 DEF p

\* The handler publishes what was typed.
LEMMA PublicationDone ==
    ASSUME NEW words, NEW text, NEW r, PublishTyped(words, text, r), NEW open, NEW ok \in BOOLEAN, NEW status,
           NEW h, h = Handle(r.class, r.req, open, ok, status), h.class /= "none", h.answer.ok
    PROVE  Published(words, text, h.calls[1])
<1> DEFINE key == IF r.req.properties = <<>> THEN <<>> ELSE r.req.properties[1].routing_key
           call == <<"basic_publish", r.req.exchange_name, key, r.req.properties, r.req.body>>
           calls == IF ok THEN <<call>> ELSE <<>>
<1>1. r.class = "basicPublishRequest" /\ r.req.exchange_name = words[1] /\ r.req.body = text
      /\ ModeTyped(words, r.req.properties)
  BY DEF PublishTyped
<1>2. h = on_basicPublish(r.req, ok)
  BY <1>1, HandlerOf
<1>3. h = Answered(calls, r.req, ok)
  BY <1>2, Zenon DEF on_basicPublish
<1>9. key = <<>>
  <2>1. r.req.properties[1].routing_key = <<>>
    BY <1>1 DEF ModeTyped
  <2> QED BY <2>1
<1> HIDE DEF key
<1>4. call[2] = r.req.exchange_name /\ call[3] = key /\ call[4] = r.req.properties /\ call[5] = r.req.body
  OBVIOUS
<1> HIDE DEF call
<1> HIDE DEF calls
<1>5. Answered(calls, r.req, ok).calls = calls /\ Answered(calls, r.req, ok).answer.ok = ok
  BY AnsweredIs
<1>6. h.calls = calls /\ (h.answer.ok <=> ok)
  BY <1>3, <1>5, Zenon
<1>7. calls = <<call>>
  BY <1>6 DEF calls
<1>8. h.calls[1] = call
  BY <1>6, <1>7
<1> QED BY <1>1, <1>4, <1>8, <1>9 DEF Published, ModeTyped

\* The prompt of a message is one of a publication.
PromptTyped ==
    prompt.reads = "message" =>
        prompt.cmd \in {"publish", "publish_mode"}
        /\ Len(prompt.words) = 3 /\ DOMAIN prompt.words = 1..3 /\ ModeTyped(prompt.words, prompt.properties)

\* The request, and what was done, are those of what was typed.
StageTyped ==
    typed.cmd \in DOMAIN Usage =>
        /\ stage /= "pushed" /\ (stage = "idle" => prompt.reads = "message")
        /\ stage = "usage" <=> ~Taken(typed.cmd, typed.words)
        /\ stage = "sent" =>
             IF typed.cmd \in {"publish", "publish_mode"} THEN PublishTyped(typed.words, body, request)
             ELSE typed \in Lines /\ Accepts(typed.cmd, typed.words)
                    /\ \E rid \in Id : request = RequestOf(typed.cmd, typed.words, rid, Cid)
        /\ stage \in {"handled", "answered"} =>
             IF typed.cmd \in {"publish", "publish_mode"} THEN outcome.answer.ok => Published(typed.words, body, outcome.calls[1])
             ELSE LineDone(typed.cmd, typed.words, outcome)

\* With what is on the way it is inductive, and it has TypedIsDone in it.
TypedInv == PromptTyped /\ StageTyped

\* Where nothing was typed.
LEMMA NothingTyped == NoLine.cmd \notin DOMAIN Usage /\ AtCommand.reads /= "message"
BY Usages DEF NoLine, AtCommand

\* A program calls the client library.
LEMMA CallTyped == TypedInv /\ Call => TypedInv'
<1> SUFFICES ASSUME TypedInv, Call PROVE TypedInv'
  OBVIOUS
<1>1. stage = "idle" /\ prompt.reads = "command" /\ UNCHANGED <<prompt, typed>>
  BY DEF Call
<1>2. typed.cmd \notin DOMAIN Usage
  BY <1>1 DEF TypedInv, StageTyped
<1> QED BY <1>1, <1>2 DEF TypedInv, PromptTyped, StageTyped

\* A user types a line at the first prompt.
LEMMA TypeTyped == ArgsRead /\ SessionInv /\ TypedInv /\ Type => TypedInv'
<1> SUFFICES ASSUME ArgsRead, SessionInv, TypedInv, Type PROVE TypedInv'
  OBVIOUS
<1>1. stage = "idle" /\ prompt.reads = "command"
  BY DEF Type
<1>2. PICK line \in Lines, rid \in Id :
         /\ typed' = line
         /\ IF ~Accepts(line.cmd, line.words)
            THEN stage' = "usage" /\ UNCHANGED <<prompt, request, bytes>>
            ELSE IF line.cmd \in {"publish", "publish_mode"}
            THEN /\ prompt' = [reads |-> "message", cmd |-> line.cmd, words |-> line.words,
                               properties |-> <<PropertiesOf(line.words, rid)>>]
                 /\ UNCHANGED <<stage, request, bytes>>
            ELSE /\ Send(RequestOf(line.cmd, line.words, rid, Cid))
                 /\ UNCHANGED prompt
  BY DEF Type
<1>3. line.cmd \in DOMAIN Usage => (Taken(line.cmd, line.words) <=> Accepts(line.cmd, line.words))
  BY TakenIsAccepted
<1>4. CASE ~Accepts(line.cmd, line.words)
  <2>1. stage' = "usage" /\ prompt' = prompt /\ typed' = line
    BY <1>2, <1>4
  <2>2. PromptTyped'
    BY <1>1, <2>1 DEF PromptTyped
  <2>3. StageTyped'
    BY <1>3, <1>4, <2>1 DEF StageTyped
  <2> QED BY <2>2, <2>3 DEF TypedInv
<1>5. CASE Accepts(line.cmd, line.words) /\ line.cmd \in {"publish", "publish_mode"}
  <2> DEFINE properties == <<PropertiesOf(line.words, rid)>>
  <2>1. /\ prompt' = [reads |-> "message", cmd |-> line.cmd, words |-> line.words, properties |-> properties]
        /\ stage' = "idle" /\ typed' = line
    BY <1>1, <1>2, <1>5
  <2>2. Len(line.words) = 3 /\ DOMAIN line.words = 1..3
    <3>1. Len(line.words) = 3
      BY <1>5, Zenon DEF Accepts
    <3> QED BY <3>1, LinesAreTexts
  <2>3. ModeTyped(line.words, properties)
    BY ModeIsTyped
  <2> HIDE DEF properties
  <2>4. /\ prompt'.reads = "message" /\ prompt'.cmd = line.cmd /\ prompt'.words = line.words
        /\ prompt'.properties = properties
    BY <2>1
  <2>5. PromptTyped'
    BY <1>5, <2>2, <2>3, <2>4 DEF PromptTyped
  <2>6. StageTyped'
    BY <1>3, <1>5, <2>1, <2>4 DEF StageTyped
  <2> QED BY <2>5, <2>6 DEF TypedInv
<1>6. CASE Accepts(line.cmd, line.words) /\ line.cmd \notin {"publish", "publish_mode"}
  <2>1. Send(RequestOf(line.cmd, line.words, rid, Cid)) /\ prompt' = prompt /\ typed' = line
    BY <1>2, <1>6
  <2>2. stage' = "sent" /\ request' = RequestOf(line.cmd, line.words, rid, Cid)
    BY <2>1 DEF Send
  <2>3. PromptTyped'
    BY <1>1, <2>1 DEF PromptTyped
  <2>4. StageTyped'
    BY <1>3, <1>6, <2>1, <2>2 DEF StageTyped
  <2> QED BY <2>3, <2>4 DEF TypedInv
<1> QED BY <1>4, <1>5, <1>6

\* A user types a message to publish.
LEMMA TypeMessageTyped == SessionInv /\ TypedInv /\ TypeMessage => TypedInv'
<1> SUFFICES ASSUME SessionInv, TypedInv, TypeMessage PROVE TypedInv'
  OBVIOUS
<1>1. stage = "idle" /\ prompt.reads = "message" /\ prompt.cmd \in {"publish", "publish_mode"}
      /\ Len(prompt.words) = 3 /\ DOMAIN prompt.words = 1..3 /\ ModeTyped(prompt.words, prompt.properties)
  BY DEF TypeMessage, TypedInv, PromptTyped
<1>2. PICK line \in Bodies, rid \in Id :
         IF line = quit
         THEN prompt' = AtCommand /\ typed' = NoLine /\ UNCHANGED <<stage, body, request, bytes>>
         ELSE /\ Send(basic_publish(rid, Cid, prompt.words[1], prompt.properties, line))
              /\ typed' = [cmd |-> prompt.cmd, words |-> prompt.words]
              /\ body' = line
              /\ UNCHANGED prompt
  BY DEF TypeMessage
<1>3. CASE line = quit
  <2>1. prompt' = AtCommand /\ typed' = NoLine
    BY <1>2, <1>3
  <2> QED BY <2>1, NothingTyped DEF TypedInv, PromptTyped, StageTyped
<1>4. CASE line /= quit
  <2> DEFINE r == basic_publish(rid, Cid, prompt.words[1], prompt.properties, line)
  <2>1. /\ Send(r) /\ typed' = [cmd |-> prompt.cmd, words |-> prompt.words] /\ body' = line /\ prompt' = prompt
    BY <1>2, <1>4
  <2>2. r.class = "basicPublishRequest" /\ r.req.exchange_name = prompt.words[1] /\ r.req.body = line
        /\ r.req.properties = prompt.properties
    BY DEF basic_publish
  <2>3. PublishTyped(prompt.words, line, r)
    <3> HIDE DEF r
    <3> QED BY <1>1, <2>2 DEF PublishTyped
  <2> HIDE DEF r
  <2>4. stage' = "sent" /\ request' = r
    BY <2>1 DEF Send
  <2>5. typed'.cmd = prompt.cmd /\ typed'.words = prompt.words
    BY <2>1
  <2>6. PromptTyped'
    BY <1>1, <2>1 DEF PromptTyped
  <2>7. Taken(typed'.cmd, typed'.words)
    <3>1. Taken(prompt.cmd, prompt.words)
      BY <1>1, TakenIs DEF Publications
    <3> QED BY <2>5, <3>1
  <2>8. StageTyped'
    BY <1>1, <2>1, <2>3, <2>4, <2>5, <2>7 DEF StageTyped
  <2> QED BY <2>6, <2>8 DEF TypedInv
<1> QED BY <1>3, <1>4

\* A user leaves the inner prompt.
LEMMA TypeQuitTyped == TypedInv /\ TypeQuit => TypedInv'
<1> SUFFICES ASSUME TypedInv, TypeQuit PROVE TypedInv'
  OBVIOUS
<1>1. stage = "idle" /\ prompt.reads = "quit" /\ prompt' = AtCommand /\ typed' = typed
  BY DEF TypeQuit
<1>2. typed.cmd \notin DOMAIN Usage
  BY <1>1 DEF TypedInv, StageTyped
<1> QED BY <1>1, <1>2, NothingTyped DEF TypedInv, PromptTyped, StageTyped

\* The call returns.
LEMMA ReturnTyped == TypedInv /\ Return => TypedInv'
<1> SUFFICES ASSUME TypedInv, Return PROVE TypedInv'
  OBVIOUS
<1> DEFINE waits == [reads |-> "quit", cmd |-> IF got.ok THEN "subscribe" ELSE "none",
                     words |-> typed.words, properties |-> <<>>]
           Again == stage = "answered" /\ typed.cmd = "publish_mode"
           Subscribed == stage = "answered" /\ typed.cmd = "subscribe" /\ request.class = "basicConsumeRequest"
<1>1. prompt' = CASE Again -> prompt [] Subscribed -> waits [] OTHER -> AtCommand
  BY DEF Return
<1>2. prompt' = prompt \/ prompt'.reads /= "message"
  <2>1. CASE Again
    <3>1. ~Subscribed
      BY <2>1
    <3> QED BY <1>1, <2>1, <3>1, Zenon
  <2>2. CASE Subscribed
    <3>1. ~Again
      BY <2>2
    <3>2. prompt' = waits
      BY <1>1, <2>2, <3>1, Zenon
    <3> QED BY <3>2
  <2>3. CASE ~Again /\ ~Subscribed
    <3>1. prompt' = AtCommand
      BY <1>1, <2>3, Zenon
    <3> QED BY <3>1, NothingTyped
  <2> QED BY <2>1, <2>2, <2>3
<1>3. typed' = NoLine
  BY DEF Return
<1> QED BY <1>2, <1>3, NothingTyped DEF TypedInv, PromptTyped, StageTyped

\* The client reads the answer.
LEMMA ClientReadsTyped == TypedInv /\ ClientReads => TypedInv'
<1> SUFFICES ASSUME TypedInv, ClientReads PROVE TypedInv'
  OBVIOUS
<1>1. /\ stage \in {"handled", "pushed"} /\ stage' \in {"answered", "lost"}
      /\ UNCHANGED <<prompt, typed, body, request, outcome>>
  BY DEF ClientReads
<1> QED BY <1>1 DEF TypedInv, PromptTyped, StageTyped

\* The broker handles the request it reads.
LEMMA BrokerReadsTyped == ArgsRead /\ SessionInv /\ TypedInv /\ BrokerReads => TypedInv'
<1> SUFFICES ASSUME ArgsRead, SessionInv, TypedInv, BrokerReads PROVE TypedInv'
  OBVIOUS
<1> DEFINE class == request.class
           m == request.req
           parsed == Decoded(class, bytes)
<1>1. /\ stage = "sent" /\ Proper(request) /\ bytes \in Encoded(class, m)
      /\ UNCHANGED <<prompt, typed, body, request>>
  BY DEF BrokerReads, SessionInv, StageInv
<1>2. IF ~parsed.ok
      THEN stage' = "lost" /\ channels' = {} /\ bytes' = <<>> /\ UNCHANGED outcome
      ELSE \E ok \in BOOLEAN : \E status \in {t \in Text : IsUtf8(t)} :
             /\ outcome' = Handle(class, parsed.m, channels, ok, status)
             /\ channels' = Channels(class, parsed.m, channels)
             /\ IF outcome'.class = "none"
                THEN stage' = "ignored" /\ bytes' = <<>>
                ELSE stage' = "handled" /\ bytes' \in Encoded(outcome'.class, outcome'.answer)
  BY DEF BrokerReads
<1>3. class \in DOMAIN Requests /\ Sendable(class, m)
  BY <1>1 DEF Proper
<1>4. Arrives(class, m, parsed)
  BY <1>1, <1>3, CodecReads
<1> HIDE DEF parsed
<1>5. PromptTyped'
  BY <1>1 DEF TypedInv, PromptTyped
<1>6. CASE typed.cmd \notin DOMAIN Usage
  BY <1>1, <1>5, <1>6 DEF TypedInv, StageTyped
<1>7. CASE typed.cmd \in DOMAIN Usage /\ ~parsed.ok
  <2>1. stage' = "lost"
    BY <1>2, <1>7
  <2> QED BY <1>1, <1>5, <1>7, <2>1 DEF TypedInv, StageTyped
<1>8. CASE typed.cmd \in DOMAIN Usage /\ parsed.ok
  <2>1. parsed.m = m
    BY <1>4, <1>8 DEF Arrives
  <2>2. PICK ok \in BOOLEAN, status \in Text :
             /\ outcome' = Handle(class, m, channels, ok, status)
             /\ IF outcome'.class = "none"
                THEN stage' = "ignored" /\ bytes' = <<>>
                ELSE stage' = "handled" /\ bytes' \in Encoded(outcome'.class, outcome'.answer)
    BY <1>2, <1>8, <2>1
  <2>3. CASE stage' = "ignored"
    BY <1>1, <1>5, <1>8, <2>3 DEF TypedInv, StageTyped
  <2>4. CASE stage' = "handled" /\ outcome'.class /= "none"
    <3>1. ASSUME typed.cmd \in {"publish", "publish_mode"}, outcome'.answer.ok
          PROVE  Published(typed.words, body, outcome'.calls[1])
      <4>1. PublishTyped(typed.words, body, request)
        BY <1>1, <1>8, <3>1 DEF TypedInv, StageTyped
      <4> QED BY <2>2, <2>4, <3>1, <4>1, PublicationDone
    <3>2. ASSUME typed.cmd \notin {"publish", "publish_mode"}
          PROVE  LineDone(typed.cmd, typed.words, outcome')
      <4>1. /\ typed \in Lines /\ Accepts(typed.cmd, typed.words)
            /\ \E rid \in Id : request = RequestOf(typed.cmd, typed.words, rid, Cid)
        BY <1>1, <1>8, <3>2 DEF TypedInv, StageTyped
      <4>2. PICK rid \in Id : request = RequestOf(typed.cmd, typed.words, rid, Cid)
        BY <4>1
      <4> QED BY <1>8, <2>2, <2>4, <3>2, <4>1, <4>2, HandlersDo
    <3>3. StageTyped'
      BY <1>1, <1>8, <2>4, <3>1, <3>2 DEF TypedInv, StageTyped
    <3> QED BY <1>5, <3>3 DEF TypedInv
  <2> QED BY <2>2, <2>3, <2>4
<1> QED BY <1>6, <1>7, <1>8

\* The broker pushes a message to the client.
LEMMA BrokerPushesTyped == TypedInv /\ BrokerPushes => TypedInv'
<1> SUFFICES ASSUME TypedInv, BrokerPushes PROVE TypedInv'
  OBVIOUS
<1>1. stage = "idle" /\ prompt.reads = "command" /\ UNCHANGED <<prompt, typed>>
  BY DEF BrokerPushes
<1>2. typed.cmd \notin DOMAIN Usage
  BY <1>1 DEF TypedInv, StageTyped
<1> QED BY <1>1, <1>2 DEF TypedInv, PromptTyped, StageTyped

\* The invariant has in it what the property says.
LEMMA TypedInvSays == TypedInv => TypedIsDone
<1> SUFFICES ASSUME TypedInv, typed.cmd \in DOMAIN Usage PROVE TypedIsDone
  BY DEF TypedIsDone
<1> DEFINE cmd == typed.cmd
           words == typed.words
           taken == Taken(cmd, words)
           published == Published(words, body, outcome.calls[1])
           done == CASE cmd \in Publications -> outcome.answer.ok => published
                     [] cmd = "subscribe" -> outcome.answer.ok => outcome.calls = <<Meant(cmd, words)>>
                     [] OTHER -> Meant(cmd, words) \in Range(outcome.calls)
<1>1. Publications = {"publish", "publish_mode"}
  BY DEF Publications
<1>3. TypedIsDone <=> (stage = "usage" <=> ~taken) /\ (stage \in {"handled", "answered"} => done)
  BY Zenon DEF TypedIsDone
<1> HIDE DEF published
<1>4. stage = "usage" <=> ~taken
  BY DEF TypedInv, StageTyped
<1>5. ASSUME stage \in {"handled", "answered"} PROVE done
  <2>1. IF cmd \in {"publish", "publish_mode"} THEN outcome.answer.ok => published
        ELSE LineDone(cmd, words, outcome)
    BY <1>5 DEF TypedInv, StageTyped, published
  <2>2. CASE cmd \in {"publish", "publish_mode"}
    <3>1. cmd /= "subscribe" /\ (outcome.answer.ok => published)
      BY <2>1, <2>2
    <3> QED BY <1>1, <2>2, <3>1, Zenon
  <2>3. CASE cmd = "subscribe"
    <3>1. cmd \notin {"publish", "publish_mode"} /\ (outcome.answer.ok => outcome.calls = <<Meant(cmd, words)>>)
      BY <2>1, <2>3 DEF LineDone
    <3> QED BY <1>1, <2>3, <3>1, Zenon
  <2>4. CASE cmd \notin {"publish", "publish_mode"} /\ cmd /= "subscribe"
    <3>1. Meant(cmd, words) \in Range(outcome.calls)
      BY <2>1, <2>4 DEF LineDone
    <3> QED BY <1>1, <2>4, <3>1, Zenon
  <2> QED BY <2>2, <2>3, <2>4
<1> HIDE DEF done
<1> QED BY <1>3, <1>4, <1>5

\* Every line a user may type, whatever its words.  It is refused exactly when it has not as
\* many words as its usage or, a publication's mode apart, one of them is none the usage has;
\* otherwise the broker does what it says, and publishes as Published says, with an empty key
\* and with the mode neither when the word is UNDURABLE (client.cc:182-400, channel.hpp of
\* both sides).  What other_args mean is what the client's split reads in them.
THEOREM EveryLineIsDone == ASSUME ArgsRead PROVE SessionSpec => []TypedIsDone
<1> DEFINE IInv == SessionInv /\ TypedInv
<1>1. SessionInit => IInv
  <2> SUFFICES ASSUME SessionInit PROVE IInv
    OBVIOUS
  <2>1. SessionInv
    BY SessionBegins
  <2>2. prompt = AtCommand /\ typed = NoLine
    BY DEF SessionInit
  <2>3. TypedInv
    BY <2>2, NothingTyped DEF TypedInv, PromptTyped, StageTyped
  <2> QED BY <2>1, <2>3
<1>2. IInv /\ [SessionNext]_sessionVars => IInv'
  <2> SUFFICES ASSUME SessionInv, TypedInv, [SessionNext]_sessionVars PROVE SessionInv' /\ TypedInv'
    OBVIOUS
  <2>1. SessionInv'
    BY SessionGoesOn
  <2>2. CASE UNCHANGED sessionVars
    <3>1. TypedInv'
      BY <2>2 DEF sessionVars, TypedInv, PromptTyped, StageTyped
    <3> QED BY <2>1, <3>1
  <2>3. CASE SessionNext
    <3>1. TypedInv'
      BY <2>3, ArgsRead, CallTyped, TypeTyped, TypeMessageTyped, TypeQuitTyped, ClientReadsTyped, ReturnTyped,
         BrokerReadsTyped, BrokerPushesTyped DEF SessionNext
    <3> QED BY <2>1, <3>1
  <2> QED BY <2>2, <2>3
<1>3. IInv => TypedIsDone
  BY TypedInvSays
<1> QED BY <1>1, <1>2, <1>3, PTL DEF SessionSpec
=============================================================================
