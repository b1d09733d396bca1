--------------------------- MODULE DeliveryProofs ---------------------------
(* Theorems about Delivery, for any number of channels, connections, queues and messages,
   whatever is closed, cancelled, deleted or restarted. *)
EXTENDS DeliveryProperties, FiniteSetTheorems, SequenceTheorems, WellFoundedInduction, TLAPS

-----------------------------------------------------------------------------
(* Numbers in order *)

\* The library states the well-foundedness of < for sets of numbers, and that suffices.
LEMMA LeastNumber ==
    ASSUME NEW T \in SUBSET Nat, T /= {}
    PROVE  \E n \in T : \A m \in T : n <= m
<1> DEFINE R == OpToRel(<, Nat)
<1>1. IsWellFoundedOn(R, Nat)
  BY NatLessThanWellFounded
<1>2. \A m, n \in Nat : m < n => <<m, n>> \in R
  BY DEF OpToRel
<1> HIDE DEF R
<1>3. PICK n \in T : \A m \in T : ~ (<<m, n>> \in R)
  BY <1>1, WFMin
<1>4. ASSUME NEW m \in T PROVE n <= m
  <2>1. m \in Nat /\ n \in Nat /\ ~ (m < n)
    BY <1>2, <1>3
  <2> QED BY <2>1
<1> QED BY <1>4

LEMMA Induction ==
    ASSUME NEW T, 0 \in T, \A n \in Nat : n \in T => n + 1 \in T
    PROVE  \A n \in Nat : n \in T
<1> SUFFICES ASSUME Nat \ T /= {} PROVE FALSE
  OBVIOUS
<1>1. PICK n \in Nat \ T : \A m \in Nat \ T : n <= m
  <2>1. Nat \ T \in SUBSET Nat
    OBVIOUS
  <2> QED BY <2>1, LeastNumber
<1>2. n - 1 \in Nat /\ n - 1 \in T
  BY <1>1
<1> QED BY <1>1, <1>2

LEMMA WithinSeq ==
    ASSUME NEW A, NEW s \in Seq(A)
    PROVE  ToSet(s) \subseteq A
<1> SUFFICES ASSUME NEW x \in ToSet(s) PROVE x \in A
  OBVIOUS
<1>1. PICK i \in DOMAIN s : x = s[i]
  BY DEF ToSet
<1> QED BY <1>1, ElementOfSeq, LenProperties

Rising(s) == \A i, j \in DOMAIN s : i < j => s[i] < s[j]

\* The numbers of a set of n elements can be put in order.
Orderable(n) ==
    \A S \in SUBSET Nat : IsFiniteSet(S) /\ Cardinality(S) = n =>
        \E s \in [1..n -> S] : Rising(s) /\ \A x \in S : \E i \in 1..n : s[i] = x

LEMMA FiniteSetsOrderable == \A n \in Nat : Orderable(n)
<1> DEFINE T == {n \in Nat : Orderable(n)}
<1>1. 0 \in T
  <2> SUFFICES ASSUME NEW S \in SUBSET Nat, IsFiniteSet(S), Cardinality(S) = 0
               PROVE  \E s \in [1..0 -> S] : Rising(s) /\ \A x \in S : \E i \in 1..0 : s[i] = x
    BY DEF Orderable
  <2>1. S = {}
    BY FS_EmptySet
  <2>2. <<>> \in [1..0 -> S] /\ Rising(<<>>)
    BY DEF Rising
  <2> QED BY <2>1, <2>2
<1>2. ASSUME NEW n \in Nat, n \in T PROVE n + 1 \in T
  <2> SUFFICES ASSUME NEW S \in SUBSET Nat, IsFiniteSet(S), Cardinality(S) = n + 1
               PROVE  \E s \in [1..(n + 1) -> S] : Rising(s) /\ \A x \in S : \E i \in 1..(n + 1) : s[i] = x
    BY DEF Orderable
  <2>1. S /= {}
    BY FS_EmptySet
  <2>2. PICK m \in S : \A x \in S : m <= x
    BY <2>1, LeastNumber
  <2>3. IsFiniteSet(S \ {m}) /\ Cardinality(S \ {m}) = n /\ S \ {m} \in SUBSET Nat
    BY FS_RemoveElement
  <2>4. PICK t \in [1..n -> S \ {m}] : Rising(t) /\ \A x \in S \ {m} : \E i \in 1..n : t[i] = x
    BY <1>2, <2>3 DEF Orderable
  <2> DEFINE s == [i \in 1..(n + 1) |-> IF i = 1 THEN m ELSE t[i - 1]]
  <2>5. \A i \in 1..(n + 1) : i /= 1 => i - 1 \in 1..n /\ t[i - 1] \in S /\ m < t[i - 1]
    <3> SUFFICES ASSUME NEW i \in 1..(n + 1), i /= 1
                 PROVE  i - 1 \in 1..n /\ t[i - 1] \in S /\ m < t[i - 1]
      OBVIOUS
    <3>1. i - 1 \in 1..n
      OBVIOUS
    <3>2. t[i - 1] \in S \ {m}
      BY <2>4, <3>1
    <3>3. m <= t[i - 1] /\ m \in Nat /\ t[i - 1] \in Nat
      BY <2>2, <3>2
    <3> QED BY <3>1, <3>2, <3>3
  <2>6. s \in [1..(n + 1) -> S]
    BY <2>5
  <2>7. \A i \in 1..(n + 1) : s[i] = IF i = 1 THEN m ELSE t[i - 1]
    OBVIOUS
  <2> HIDE DEF s
  <2>8. Rising(s)
    BY <2>4, <2>5, <2>6, <2>7 DEF Rising
  <2>9. ASSUME NEW x \in S PROVE \E i \in 1..(n + 1) : s[i] = x
    <3>1. CASE x = m
      BY <2>7, <3>1
    <3>2. CASE x /= m
      <4>1. PICK i \in 1..n : t[i] = x
        BY <2>4, <3>2
      <4>2. i + 1 \in 1..(n + 1) /\ s[i + 1] = x
        BY <2>7, <4>1
      <4> QED BY <4>2
    <3> QED BY <3>1, <3>2
  <2> QED BY <2>6, <2>8, <2>9
<1>3. \A n \in Nat : n \in T
  <2> HIDE DEF T
  <2> QED BY <1>1, <1>2, Induction
<1> QED BY <1>3

\* What Increasing chooses exists: the numbers of the set, each once, in order.
LEMMA IncreasingIs ==
    ASSUME NEW S \in SUBSET Nat, IsFiniteSet(S)
    PROVE  /\ Increasing(S) \in Seq(S) /\ Len(Increasing(S)) = Cardinality(S)
           /\ DOMAIN Increasing(S) = 1..Cardinality(S)
           /\ Rising(Increasing(S))
           /\ \A x \in S : \E i \in DOMAIN Increasing(S) : Increasing(S)[i] = x
<1> DEFINE n == Cardinality(S)
           Good(s) == \A i, j \in DOMAIN s : i < j => s[i] < s[j]
<1>1. n \in Nat
  BY FS_CardinalityType
<1>2. PICK t \in [1..n -> S] : Rising(t)
  BY <1>1, FiniteSetsOrderable DEF Orderable
<1>3. Increasing(S) \in [1..n -> S] /\ Rising(Increasing(S))
  BY <1>2 DEF Increasing, Rising
<1>4. Increasing(S) \in Seq(S) /\ Len(Increasing(S)) = n
  BY <1>1, <1>3
<1>5. \A x \in S : \E i \in 1..n : Increasing(S)[i] = x
  <2>1. ASSUME NEW i \in 1..n, NEW j \in 1..n, Increasing(S)[i] = Increasing(S)[j] PROVE i = j
    <3>1. Increasing(S)[i] \in Nat /\ Increasing(S)[j] \in Nat
      BY <1>3
    <3> QED BY <1>1, <1>3, <2>1, <3>1 DEF Rising
  <2>2. Increasing(S) \in Injection(1..n, S)
    BY <1>3, <2>1 DEF Injection, IsInjective
  <2>3. IsFiniteSet(1..n) /\ Cardinality(1..n) = n
    BY <1>1, FS_Interval
  <2>4. Increasing(S) \in Surjection(1..n, S)
    BY <2>2, <2>3, FS_Injection
  <2> QED BY <2>4 DEF Surjection
<1> QED BY <1>3, <1>4, <1>5

-----------------------------------------------------------------------------
(* Lists of consumers *)

UniqueTags(list) == \A i, j \in DOMAIN list : list[i].tag = list[j].tag => i = j

\* What removing tags from a list leaves: consumers of the list, each once; if no tag is
\* there twice, as create() sees to, exactly those with other tags.
LEMMA WithoutTagsIs ==
    ASSUME NEW list \in Seq(Consumer), NEW tags
    PROVE  LET rest == WithoutTags(list, tags)
           IN /\ rest \in Seq(Consumer)
              /\ \A i \in DOMAIN rest : \E j \in DOMAIN list : rest[i] = list[j]
              /\ UniqueTags(list) =>
                   /\ UniqueTags(rest)
                   /\ \A i \in DOMAIN rest : rest[i].tag \notin tags
                   /\ \A j \in DOMAIN list :
                        list[j].tag \notin tags => \E i \in DOMAIN rest : rest[i] = list[j]
<1> DEFINE first == {i \in DOMAIN list :
                       list[i].tag \in tags /\ \A j \in 1..(i - 1) : list[j].tag /= list[i].tag}
           kept == Increasing(DOMAIN list \ first)
           rest == WithoutTags(list, tags)
<1>1. DOMAIN list = 1..Len(list) /\ Len(list) \in Nat
  OBVIOUS
<1>2. DOMAIN list \ first \in SUBSET Nat /\ IsFiniteSet(DOMAIN list \ first)
  <2>1. IsFiniteSet(1..Len(list))
    BY <1>1, FS_Interval
  <2>2. DOMAIN list \ first \in SUBSET (1..Len(list))
    BY <1>1
  <2>3. IsFiniteSet(DOMAIN list \ first)
    BY <2>1, <2>2, FS_Subset
  <2> QED BY <1>1, <2>3
<1> HIDE DEF first
<1>3. /\ kept \in Seq(DOMAIN list \ first) /\ Rising(kept)
      /\ \A x \in DOMAIN list \ first : \E i \in DOMAIN kept : kept[i] = x
  BY <1>2, IncreasingIs
<1>4. /\ rest = [i \in DOMAIN kept |-> list[kept[i]]]
  BY DEF WithoutTags, first
<1> HIDE DEF kept, rest
<1>5. Len(kept) \in Nat /\ DOMAIN kept = 1..Len(kept) /\ \A i \in DOMAIN kept : kept[i] \in DOMAIN list \ first
  BY <1>3
<1>6. DOMAIN rest = DOMAIN kept /\ \A i \in DOMAIN rest : rest[i] = list[kept[i]] /\ kept[i] \in DOMAIN list
  BY <1>4, <1>5
<1>7. rest \in Seq(Consumer)
  <2>1. \A i \in DOMAIN kept : list[kept[i]] \in Consumer
    BY <1>5
  <2> QED BY <1>4, <1>5, <2>1
<1>8. ASSUME UniqueTags(list)
      PROVE  /\ UniqueTags(rest)
             /\ \A i \in DOMAIN rest : rest[i].tag \notin tags
             /\ \A j \in DOMAIN list :
                  list[j].tag \notin tags => \E i \in DOMAIN rest : rest[i] = list[j]
  <2>1. \A i \in DOMAIN list : i \in first <=> list[i].tag \in tags
    <3>1. ASSUME NEW i \in DOMAIN list, NEW j \in 1..(i - 1) PROVE list[j].tag /= list[i].tag
      <4>1. j \in DOMAIN list /\ j /= i
        BY <1>1
      <4> QED BY <1>8, <4>1 DEF UniqueTags
    <3> QED BY <3>1 DEF first
  <2>2. \A i \in DOMAIN rest : rest[i].tag \notin tags
    BY <1>5, <1>6, <2>1
  <2>3. \A j \in DOMAIN list : list[j].tag \notin tags => \E i \in DOMAIN rest : rest[i] = list[j]
    BY <1>3, <1>6, <2>1
  <2>4. ASSUME NEW i \in DOMAIN rest, NEW j \in DOMAIN rest, rest[i].tag = rest[j].tag PROVE i = j
    <3>1. kept[i] = kept[j]
      BY <1>6, <1>8, <2>4 DEF UniqueTags
    <3>2. kept[i] \in Nat /\ kept[j] \in Nat
      BY <1>1, <1>6
    <3> QED BY <1>3, <1>5, <1>6, <3>1, <3>2 DEF Rising
  <2> QED BY <2>2, <2>3, <2>4 DEF UniqueTags
<1> QED BY <1>6, <1>7, <1>8 DEF rest

-----------------------------------------------------------------------------
(* The inductive invariant *)

InHandler == io.pc \in {"insert", "push"}

\* Type correctness, of the handler and the worker in progress too.
Types ==
    /\ TypeOK
    /\ io \in [pc : {"idle", "insert", "push", "delete"}, chan : Channels \union {NoQueue},
               q : Queues \union {NoQueue}, todo : SUBSET Queues]
    /\ wk \in [pc : {"idle", "choose", "call", "ack"}, by : Channels \union {NoQueue},
               q : Queues \union {NoQueue}, n : Nat, to : Consumer \union {NoQueue}]
    /\ InHandler => io.chan \in Channels /\ io.todo \subseteq stores
    /\ io.pc = "push" => io.q \in io.todo
    /\ io.pc = "delete" => io.q \in Queues
    /\ wk.pc /= "idle" => wk.q \in Queues /\ wk.n \in 1..MaxMsgs /\ wk.by \in Channels
    /\ wk.pc \in {"call", "ack"} => wk.to \in Consumer
    /\ wk.pc = "ack" => wk.to.auto
    /\ pushed \in [Queues -> Seq([n : 1..MaxMsgs, to : Channels])]
    /\ turns \in [Queues -> Seq(Channels)]

\* What DeclareQueue, DeleteConsumers and DeleteMessages keep: a queue has a list of
\* consumers unless it is being deleted, and messages only if it exists; and what Publish
\* saw of last is still so.
Existence ==
    /\ lists = IF io.pc = "delete" THEN stores \ {io.q} ELSE stores
    /\ \A q \in Queues \ stores : ready[q] = <<>> /\ unacked[q] = {}
    /\ InHandler => \A q \in io.todo : last[q] < MaxMsgs \/ (io.pc = "push" /\ q = io.q)

\* The worker holds a message of queue q that it has not sent.
Holds(q) == wk.pc \in {"choose", "call"} /\ wk.q = q

\* The messages of a queue that were sent, the one the worker holds, and those that wait
\* have rising numbers.
Numbered(q) ==
    /\ Rising(ready[q])
    /\ \A i \in DOMAIN ready[q] :
         /\ ready[q][i] <= last[q]
         /\ \A n \in unacked[q] : n < ready[q][i]
         /\ \A k \in DOMAIN pushed[q] : pushed[q][k].n < ready[q][i]
         /\ Holds(q) => wk.n < ready[q][i]
    /\ \A n \in unacked[q] : n <= last[q]
    /\ \A i, j \in DOMAIN pushed[q] : i < j => pushed[q][i].n < pushed[q][j].n
    /\ \A k \in DOMAIN pushed[q] : pushed[q][k].n <= last[q]
    /\ Holds(q) => wk.n <= last[q] /\ \A k \in DOMAIN pushed[q] : pushed[q][k].n < wk.n

\* A consumer carries the tag of its channel, and no tag is taken twice.
Tagged ==
    \A q \in Queues :
        /\ UniqueTags(consumers[q])
        /\ \A i \in DOMAIN consumers[q] : consumers[q][i].tag = TagOf[consumers[q][i].chan]
        /\ q \notin lists => consumers[q] = <<>>

\* The channels of a list are those that have subscribed; both ends of the connection
\* know the queue.
Listed(q) ==
    \A i \in DOMAIN consumers[q] :
        LET c == consumers[q][i].chan
        IN c \in Channels /\ c \in subs /\ own[c] = q /\ busy[c] = q

Subscribed(q) ==
    /\ Listed(q)
    /\ \A c \in subs : busy[c] = q => \E i \in DOMAIN consumers[q] : consumers[q][i].chan = c

SubscribersBusy == \A c \in subs : c \in Channels /\ busy[c] /= NoQueue

\* The channels chosen since the list changed went round it, up to where __rr_seq is.
Round(q) ==
    /\ Len(turns[q]) <= rr[q]
    /\ \A i \in DOMAIN turns[q] :
         /\ consumers[q] /= <<>>
         /\ turns[q][i] = consumers[q][((rr[q] - Len(turns[q]) + i - 1) % Len(consumers[q])) + 1].chan

-----------------------------------------------------------------------------
(* The steps, in groups *)

ChannelStep ==
    \/ \E c \in Channels : OpenChannel(c) \/ CloseChannel(c)
    \/ \E k \in Connections : Disconnect(k)

QueueStep ==
    \/ \E c \in Channels, q \in Queues : DeclareQueue(c, q) \/ (Closing /\ DeleteConsumers(c, q))
    \/ DeleteMessages

PublishStep ==
    \/ \E c \in Channels, todo \in SUBSET Queues : Publish(c, todo)
    \/ \E q \in Queues : InsertMessage(q)
    \/ PushTask

ConsumerStep ==
    \/ \E c \in Channels, p \in Queues, n \in 1..MaxMsgs : Ack(c, p, n)
    \/ \E c \in Channels, q \in Queues, auto \in BOOLEAN : Subscribe(c, q, auto)
    \/ \E c \in Channels : Cancel(c)

LEMMA StepCases ==
    ASSUME [Next]_vars
    PROVE  \/ ChannelStep \/ QueueStep \/ PublishStep \/ ConsumerStep
           \/ Pop
           \/ Choose \/ Callback \/ AutoAck
           \/ Restart
           \/ Die \/ WorkerDies \/ UNCHANGED vars
BY DEF Next, Client, Handler, Worker, ChannelStep, QueueStep, PublishStep, ConsumerStep

-----------------------------------------------------------------------------
(* Types and Existence *)

TypeInv == Types /\ Existence

LEMMA InitTypes == Init => TypeInv
<1> SUFFICES ASSUME Init PROVE TypeInv
  OBVIOUS
<1>1. TypeOK
  BY DeliveryAssumption DEF Init, TypeOK, IoIdle, WkIdle
<1>2. Types
  BY <1>1 DEF Init, Types, IoIdle, WkIdle, InHandler
<1>3. Existence
  BY DEF Init, Existence, IoIdle, InHandler
<1> QED BY <1>2, <1>3 DEF TypeInv

\* What recovery() finds is a finite set of the numbers the queue had.
LEMMA StoredIs ==
    ASSUME TypeInv, NEW q \in Queues
    PROVE  /\ Stored(q) \subseteq 1..MaxMsgs /\ Stored(q) \in SUBSET Nat /\ IsFiniteSet(Stored(q))
           /\ Cardinality(Stored(q)) \in 0..MaxMsgs
           /\ StoredInOrder(q) \in Seq(1..MaxMsgs) /\ StoredInOrder(q) \in Seq(Stored(q))
           /\ Len(StoredInOrder(q)) = Cardinality(Stored(q))
           /\ Rising(StoredInOrder(q))
           /\ \A x \in Stored(q) : \E i \in DOMAIN StoredInOrder(q) : StoredInOrder(q)[i] = x
<1>1. ready[q] \in Seq(1..MaxMsgs) /\ unacked[q] \in SUBSET (1..MaxMsgs)
  BY DEF TypeInv, Types, TypeOK
<1>2. ToSet(ready[q]) \subseteq 1..MaxMsgs
  BY <1>1, WithinSeq
<1>3. Stored(q) \subseteq 1..MaxMsgs /\ Stored(q) \in SUBSET Nat
  BY <1>1, <1>2, DeliveryAssumption DEF Stored
<1>4. IsFiniteSet(Stored(q)) /\ Cardinality(Stored(q)) <= MaxMsgs /\ Cardinality(Stored(q)) \in Nat
  <2>1. IsFiniteSet(1..MaxMsgs) /\ Cardinality(1..MaxMsgs) = MaxMsgs
    BY DeliveryAssumption, FS_Interval
  <2>2. IsFiniteSet(Stored(q)) /\ Cardinality(Stored(q)) <= Cardinality(1..MaxMsgs)
    BY <1>3, <2>1, FS_Subset
  <2> QED BY <2>1, <2>2, FS_CardinalityType
<1>5. /\ StoredInOrder(q) \in Seq(Stored(q))
      /\ Len(StoredInOrder(q)) = Cardinality(Stored(q))
      /\ Rising(StoredInOrder(q))
      /\ \A x \in Stored(q) : \E i \in DOMAIN StoredInOrder(q) : StoredInOrder(q)[i] = x
  BY <1>3, <1>4, IncreasingIs DEF StoredInOrder
<1>6. StoredInOrder(q) \in Seq(1..MaxMsgs)
  BY <1>3, <1>5, SeqMonotonic
<1> QED BY <1>3, <1>4, <1>5, <1>6, DeliveryAssumption

LEMMA WithoutChannelsIs ==
    ASSUME TypeInv, NEW q \in Queues, NEW closed
    PROVE  WithoutChannels(closed, q) \in Seq(Consumer)
<1>1. consumers[q] \in Seq(Consumer)
  BY DEF TypeInv, Types, TypeOK
<1> QED BY <1>1, WithoutTagsIs DEF WithoutChannels

\* Destroying channels leaves types and queues.
LEMMA DestroyTypes ==
    ASSUME TypeInv, NEW closed \in SUBSET Channels, Destroy(closed), lost' \subseteq Connections
    PROVE  TypeInv'
<1>1. /\ chan' \in [Channels -> {"new", "open", "closed"}]
      /\ own' \in [Channels -> Queues \union {NoQueue}]
      /\ busy' \in [Channels -> Queues \union {NoQueue}]
  BY DEF Destroy, TypeInv, Types, TypeOK
<1>2. subs' \subseteq Open'
  BY DEF Destroy, TypeInv, Types, TypeOK, Open
<1>3. consumers' \in [Queues -> Seq(Consumer)]
  BY WithoutChannelsIs DEF Destroy
<1>4. turns' \in [Queues -> Seq(Channels)]
  BY DEF Destroy, TypeInv, Types
<1>5. UNCHANGED <<alive, stores, lists, rr, ready, unacked, last, recovered, tasks, io, wk, pushed>>
  BY DEF Destroy, queues, messages
<1>6. TypeOK'
  BY <1>1, <1>2, <1>3, <1>5 DEF TypeInv, Types, TypeOK
<1>7. Types'
  BY <1>4, <1>5, <1>6 DEF TypeInv, Types, InHandler
<1>8. Existence'
  BY <1>5 DEF TypeInv, Existence, InHandler
<1> QED BY <1>7, <1>8 DEF TypeInv

\* Opening, closing and losing channels.
LEMMA ChannelTypes ==
    ASSUME TypeInv, ChannelStep
    PROVE  TypeInv'
<1>1. ASSUME NEW c \in Channels, OpenChannel(c) PROVE TypeInv'
  <2>1. /\ chan' = [chan EXCEPT ![c] = "open"] /\ chan \in [Channels -> {"new", "open", "closed"}]
        /\ UNCHANGED <<alive, lost, own, busy, subs, stores, lists, consumers, rr, turns,
                       ready, unacked, last, recovered, tasks, io, wk, pushed>>
    BY <1>1 DEF OpenChannel, queues, subscriptions, messages, TypeInv, Types, TypeOK
  <2>2. subs' \subseteq Open'
    BY <2>1 DEF TypeInv, Types, TypeOK, Open
  <2>3. TypeOK'
    BY <2>1, <2>2 DEF TypeInv, Types, TypeOK
  <2>4. Types'
    BY <2>1, <2>3 DEF TypeInv, Types, InHandler
  <2>5. Existence'
    BY <2>1 DEF TypeInv, Existence, InHandler
  <2> QED BY <2>4, <2>5 DEF TypeInv
<1>2. ASSUME NEW c \in Channels, CloseChannel(c) PROVE TypeInv'
  BY <1>2, DestroyTypes DEF CloseChannel, TypeInv, Types, TypeOK
<1>3. ASSUME NEW k \in Connections, Disconnect(k) PROVE TypeInv'
  <2>1. {d \in Open : ConnOf[d] = k} \in SUBSET Channels
    BY DEF Open
  <2>2. lost' \subseteq Connections
    BY <1>3 DEF Disconnect, TypeInv, Types, TypeOK
  <2> QED BY <1>3, <2>1, <2>2, DestroyTypes DEF Disconnect
<1> QED BY <1>1, <1>2, <1>3 DEF ChannelStep

\* Declaring and deleting queues.
LEMMA QueueTypes ==
    ASSUME TypeInv, QueueStep
    PROVE  TypeInv'
<1>1. ASSUME NEW c \in Channels, NEW q \in Queues, DeclareQueue(c, q) PROVE TypeInv'
  <2>1. /\ stores' = stores \union {q} /\ lists' = lists \union {q} /\ io.pc = "idle"
        /\ UNCHANGED <<alive, lost, chan, own, busy, subs, consumers, rr, turns,
                       ready, unacked, last, recovered, tasks, io, wk, pushed>>
    BY <1>1 DEF DeclareQueue, Request, channels, subscriptions, messages
  <2>2. TypeOK'
    BY <2>1 DEF TypeInv, Types, TypeOK, Open
  <2>3. Types'
    BY <2>1, <2>2 DEF TypeInv, Types, InHandler
  <2>4. Existence'
    BY <2>1 DEF TypeInv, Existence, InHandler
  <2> QED BY <2>3, <2>4 DEF TypeInv
<1>2. ASSUME NEW c \in Channels, NEW q \in Queues, DeleteConsumers(c, q) PROVE TypeInv'
  <2>1. /\ q \in stores /\ lists' = lists \ {q} /\ io.pc = "idle"
        /\ consumers' = [consumers EXCEPT ![q] = <<>>] /\ rr' = [rr EXCEPT ![q] = 0]
        /\ turns' = [turns EXCEPT ![q] = <<>>] /\ subs' \subseteq subs
        /\ io' = [pc |-> "delete", chan |-> NoQueue, q |-> q, todo |-> {}]
        /\ UNCHANGED <<alive, lost, chan, own, busy, stores,
                       ready, unacked, last, recovered, tasks, wk, pushed>>
    BY <1>2 DEF DeleteConsumers, Request, IoIdle, messages
  <2>2. TypeOK'
    <3>1. consumers' \in [Queues -> Seq(Consumer)] /\ rr' \in [Queues -> Nat]
      BY <2>1, EmptySeq DEF TypeInv, Types, TypeOK
    <3>2. subs' \subseteq Open' /\ lists' \subseteq stores'
      BY <2>1 DEF TypeInv, Types, TypeOK, Open
    <3> QED BY <2>1, <3>1, <3>2 DEF TypeInv, Types, TypeOK
  <2>3. Types'
    <3>1. turns' \in [Queues -> Seq(Channels)]
      BY <2>1, EmptySeq DEF TypeInv, Types
    <3>2. /\ io' \in [pc : {"idle", "insert", "push", "delete"}, chan : Channels \union {NoQueue},
                      q : Queues \union {NoQueue}, todo : SUBSET Queues]
          /\ io'.pc = "delete" /\ io'.q = q
      BY <2>1
    <3> QED BY <2>1, <2>2, <3>1, <3>2 DEF TypeInv, Types, InHandler
  <2>4. Existence'
    BY <2>1 DEF TypeInv, Existence, InHandler
  <2> QED BY <2>3, <2>4 DEF TypeInv
<1>3. CASE DeleteMessages
  <2>1. /\ io.pc = "delete" /\ io.q \in Queues /\ stores' = stores \ {io.q}
        /\ ready' = [ready EXCEPT ![io.q] = <<>>] /\ unacked' = [unacked EXCEPT ![io.q] = {}]
        /\ io' = [pc |-> "idle", chan |-> NoQueue, q |-> NoQueue, todo |-> {}]
        /\ UNCHANGED <<alive, lost, chan, own, busy, subs, lists, consumers, rr, turns,
                       last, recovered, tasks, wk, pushed>>
    BY <1>3 DEF DeleteMessages, IoIdle, channels, subscriptions, TypeInv, Types
  <2>2. lists = stores \ {io.q}
    BY <2>1 DEF TypeInv, Existence
  <2>3. TypeOK'
    <3>1. ready' \in [Queues -> Seq(1..MaxMsgs)] /\ unacked' \in [Queues -> SUBSET (1..MaxMsgs)]
      BY <2>1, EmptySeq DEF TypeInv, Types, TypeOK
    <3>2. subs' \subseteq Open' /\ lists' \subseteq stores' /\ stores' \subseteq Queues /\ io'.pc = "idle"
      BY <2>1, <2>2 DEF TypeInv, Types, TypeOK, Open
    <3> QED BY <2>1, <3>1, <3>2 DEF TypeInv, Types, TypeOK
  <2>4. Types'
    BY <2>1, <2>3 DEF TypeInv, Types, InHandler
  <2>5. Existence'
    BY <2>1, <2>2 DEF TypeInv, Existence, InHandler, Types, TypeOK
  <2> QED BY <2>4, <2>5 DEF TypeInv
<1> QED BY <1>1, <1>2, <1>3 DEF QueueStep

\* Publishing: the handler's three steps.
LEMMA PublishTypes ==
    ASSUME TypeInv, PublishStep
    PROVE  TypeInv'
<1>1. ASSUME NEW c \in Channels, NEW todo \in SUBSET Queues, Publish(c, todo) PROVE TypeInv'
  <2>1. /\ todo \subseteq stores /\ (\A p \in todo : last[p] < MaxMsgs) /\ io.pc = "idle"
        /\ io' = [pc |-> "insert", chan |-> c, q |-> NoQueue, todo |-> todo]
        /\ UNCHANGED <<alive, lost, chan, own, busy, subs, stores, lists, consumers, rr, turns,
                       ready, unacked, last, recovered, tasks, wk, pushed>>
    BY <1>1 DEF Publish, Request, channels, queues, subscriptions, messages
  <2>2. TypeOK'
    BY <2>1 DEF TypeInv, Types, TypeOK, Open
  <2>3. Types'
    BY <2>1, <2>2 DEF TypeInv, Types, InHandler
  <2>4. Existence'
    BY <2>1 DEF TypeInv, Existence, InHandler
  <2> QED BY <2>3, <2>4 DEF TypeInv
<1>2. ASSUME NEW q \in Queues, InsertMessage(q) PROVE TypeInv'
  <2>1. /\ io.pc = "insert" /\ q \in io.todo /\ last' = [last EXCEPT ![q] = last[q] + 1]
        /\ ready' = [ready EXCEPT ![q] = Append(ready[q], last[q] + 1)]
        /\ io' = [io EXCEPT !.pc = "push", !.q = q]
        /\ UNCHANGED <<alive, lost, chan, own, busy, subs, stores, lists, consumers, rr, turns,
                       unacked, recovered, tasks, wk, pushed>>
    BY <1>2 DEF InsertMessage, channels, queues, subscriptions
  <2>2. /\ last[q] \in 0..MaxMsgs /\ last[q] < MaxMsgs /\ last[q] + 1 \in 1..MaxMsgs /\ q \in stores
    <3>1. last \in [Queues -> 0..MaxMsgs] /\ io.todo \subseteq stores
      BY <2>1 DEF TypeInv, InHandler, Types, TypeOK
    <3>2. last[q] < MaxMsgs
      BY <2>1 DEF TypeInv, Existence, InHandler
    <3> QED
      BY ONLY <1>2, <2>1, <3>1, <3>2, DeliveryAssumption
  <2>3. ready' \in [Queues -> Seq(1..MaxMsgs)] /\ last' \in [Queues -> 0..MaxMsgs]
    <3>1. ready \in [Queues -> Seq(1..MaxMsgs)] /\ last \in [Queues -> 0..MaxMsgs]
      BY DEF TypeInv, Types, TypeOK
    <3>2. Append(ready[q], last[q] + 1) \in Seq(1..MaxMsgs)
      BY ONLY <1>2, <2>2, <3>1, AppendProperties
    <3>3. last[q] + 1 \in 0..MaxMsgs
      BY ONLY <2>2, DeliveryAssumption
    <3> QED
      BY ONLY <2>1, <3>1, <3>2, <3>3
  <2>4. /\ io'.pc = "push" /\ io'.q = q /\ io'.chan = io.chan /\ io'.todo = io.todo
        /\ io' \in [pc : {"idle", "insert", "push", "delete"}, chan : Channels \union {NoQueue},
                    q : Queues \union {NoQueue}, todo : SUBSET Queues]
    BY <2>1 DEF TypeInv, Types
  <2>5. TypeOK'
    BY <2>1, <2>3, <2>4 DEF TypeInv, Types, TypeOK, Open
  <2>6. Types'
    BY <2>1, <2>4, <2>5 DEF TypeInv, Types, InHandler
  <2>7. Existence'
    BY <2>1, <2>2, <2>4 DEF TypeInv, Existence, InHandler, Types, TypeOK
  <2> QED BY <2>6, <2>7 DEF TypeInv
<1>3. CASE PushTask
  <2>1. /\ io.pc = "push" /\ tasks' = Append(tasks, [chan |-> io.chan, q |-> io.q])
        /\ io' = IF io.todo = {io.q} THEN IoIdle
                 ELSE [io EXCEPT !.pc = "insert", !.q = NoQueue, !.todo = io.todo \ {io.q}]
        /\ UNCHANGED <<alive, lost, chan, own, busy, subs, stores, lists, consumers, rr, turns,
                       ready, unacked, last, recovered, wk, pushed>>
    BY <1>3 DEF PushTask, channels, queues, subscriptions, messages
  <2>2. io.chan \in Channels /\ io.q \in Queues /\ io.q \in io.todo /\ io.todo \subseteq stores
    BY <2>1 DEF TypeInv, Types, InHandler
  <2>3. tasks' \in Seq([chan : Channels, q : Queues])
    BY <2>1, <2>2 DEF TypeInv, Types, TypeOK
  <2>4. /\ io'.pc \in {"idle", "insert"}
        /\ io'.pc = "insert" => io'.chan = io.chan /\ io'.todo = io.todo \ {io.q}
        /\ io' \in [pc : {"idle", "insert", "push", "delete"}, chan : Channels \union {NoQueue},
                    q : Queues \union {NoQueue}, todo : SUBSET Queues]
    BY <2>1 DEF TypeInv, Types, IoIdle
  <2>5. TypeOK'
    BY <2>1, <2>3, <2>4 DEF TypeInv, Types, TypeOK, Open
  <2>6. Types'
    BY <2>1, <2>2, <2>4, <2>5 DEF TypeInv, Types, InHandler
  <2>7. Existence'
    BY <2>1, <2>2, <2>4 DEF TypeInv, Existence, InHandler
  <2> QED BY <2>6, <2>7 DEF TypeInv
<1> QED BY <1>1, <1>2, <1>3 DEF PublishStep

\* Acknowledging, whoever does it.
LEMMA AcknowledgeTypes ==
    ASSUME TypeInv, NEW q \in Queues, NEW n, Acknowledge(q, n)
    PROVE  /\ unacked' \in [Queues -> SUBSET (1..MaxMsgs)]
           /\ \A p \in Queues : unacked'[p] \subseteq unacked[p]
<1>1. /\ unacked \in [Queues -> SUBSET (1..MaxMsgs)]
      /\ unacked' = [unacked EXCEPT ![q] = unacked[q] \ {n}]
  BY DEF Acknowledge, TypeInv, Types, TypeOK
<1> QED BY <1>1

\* Acknowledging, subscribing and cancelling.
LEMMA ConsumerTypes ==
    ASSUME TypeInv, ConsumerStep
    PROVE  TypeInv'
<1>1. ASSUME NEW c \in Channels, NEW q \in Queues, NEW n \in 1..MaxMsgs, Ack(c, q, n) PROVE TypeInv'
  <2>1. /\ Acknowledge(q, n)
        /\ UNCHANGED <<alive, lost, chan, own, busy, subs, stores, lists, consumers, rr, turns,
                       ready, last, recovered, tasks, io, wk, pushed>>
    BY <1>1 DEF Ack, channels, queues, subscriptions, TypeInv, Types, TypeOK
  <2>2. /\ unacked' \in [Queues -> SUBSET (1..MaxMsgs)]
        /\ \A p \in Queues : unacked'[p] \subseteq unacked[p]
    BY <2>1, AcknowledgeTypes
  <2>3. TypeOK'
    BY <2>1, <2>2 DEF TypeInv, Types, TypeOK, Open
  <2>4. Types'
    BY <2>1, <2>3 DEF TypeInv, Types, InHandler
  <2>5. Existence'
    BY <2>1, <2>2 DEF TypeInv, Existence, InHandler
  <2> QED BY <2>4, <2>5 DEF TypeInv
<1>2. ASSUME NEW c \in Channels, NEW q \in Queues, NEW auto \in BOOLEAN, Subscribe(c, q, auto) PROVE TypeInv'
  <2> DEFINE new == [tag |-> TagOf[c], chan |-> c, auto |-> auto]
  <2>1. /\ c \in Open
        /\ \/ consumers' = [consumers EXCEPT ![q] = Append(consumers[q], new)]
           \/ consumers' = consumers
        /\ \/ own' = [own EXCEPT ![c] = q]
           \/ own' = [own EXCEPT ![c] = NoQueue]
        /\ busy' = [busy EXCEPT ![c] = q] /\ subs' = subs \union {c}
        /\ \/ turns' = [turns EXCEPT ![q] = <<>>]
           \/ turns' = turns
        /\ UNCHANGED <<alive, lost, chan, stores, lists, rr,
                       ready, unacked, last, recovered, tasks, io, wk, pushed>>
    BY <1>2 DEF Subscribe, Request, queues, messages, TypeInv, Types, TypeOK
  <2>2. new \in Consumer
    BY DeliveryAssumption DEF Consumer
  <2> HIDE DEF new
  <2>3. consumers' \in [Queues -> Seq(Consumer)]
    <3>1. consumers \in [Queues -> Seq(Consumer)]
      BY DEF TypeInv, Types, TypeOK
    <3>2. Append(consumers[q], new) \in Seq(Consumer)
      BY <2>2, <3>1, AppendProperties
    <3> QED BY <2>1, <3>1, <3>2
  <2>4. turns' \in [Queues -> Seq(Channels)]
    <3>1. turns \in [Queues -> Seq(Channels)] /\ <<>> \in Seq(Channels)
      BY DEF TypeInv, Types
    <3>2. turns' = turns \/ turns' = [turns EXCEPT ![q] = <<>>]
      BY <2>1
    <3> QED BY <3>1, <3>2
  <2>5. own' \in [Channels -> Queues \union {NoQueue}] /\ busy' \in [Channels -> Queues \union {NoQueue}]
    <3>1. own \in [Channels -> Queues \union {NoQueue}] /\ busy \in [Channels -> Queues \union {NoQueue}]
      BY DEF TypeInv, Types, TypeOK
    <3>2. \A v \in Queues \union {NoQueue} : [own EXCEPT ![c] = v] \in [Channels -> Queues \union {NoQueue}]
      BY ONLY <3>1
    <3> QED BY <2>1, <3>1, <3>2
  <2>6. subs' \subseteq Open'
    BY <2>1 DEF TypeInv, Types, TypeOK, Open
  <2>7. TypeOK'
    BY <2>1, <2>3, <2>5, <2>6 DEF TypeInv, Types, TypeOK
  <2>8. Types'
    BY <2>1, <2>4, <2>7 DEF TypeInv, Types, InHandler
  <2>9. Existence'
    BY <2>1 DEF TypeInv, Existence, InHandler
  <2> QED BY <2>8, <2>9 DEF TypeInv
<1>3. ASSUME NEW c \in Channels, Cancel(c) PROVE TypeInv'
  <2>1. /\ \/ consumers' = [consumers EXCEPT ![busy[c]] = WithoutTags(consumers[busy[c]], {TagOf[c]})]
           \/ consumers' = consumers
        /\ busy[c] \in Queues
        /\ busy' = [busy EXCEPT ![c] = NoQueue] /\ subs' = subs \ {c}
        /\ \/ turns' = [turns EXCEPT ![busy[c]] = <<>>]
           \/ turns' = turns
        /\ UNCHANGED <<alive, lost, chan, own, stores, lists, rr,
                       ready, unacked, last, recovered, tasks, io, wk, pushed>>
    BY <1>3 DEF Cancel, Request, queues, messages, TypeInv, Types, TypeOK
  <2>2. consumers' \in [Queues -> Seq(Consumer)]
    <3>1. consumers \in [Queues -> Seq(Consumer)]
      BY DEF TypeInv, Types, TypeOK
    <3>2. WithoutTags(consumers[busy[c]], {TagOf[c]}) \in Seq(Consumer)
      BY <2>1, <3>1, WithoutTagsIs
    <3> QED BY <2>1, <3>1, <3>2
  <2>3. turns' \in [Queues -> Seq(Channels)]
    <3>1. turns \in [Queues -> Seq(Channels)] /\ <<>> \in Seq(Channels)
      BY DEF TypeInv, Types
    <3>2. turns' = turns \/ turns' = [turns EXCEPT ![busy[c]] = <<>>]
      BY <2>1
    <3> QED BY <3>1, <3>2
  <2>4. busy' \in [Channels -> Queues \union {NoQueue}] /\ subs' \subseteq Open'
    BY <2>1 DEF TypeInv, Types, TypeOK, Open
  <2>5. TypeOK'
    BY <2>1, <2>2, <2>4 DEF TypeInv, Types, TypeOK
  <2>6. Types'
    BY <2>1, <2>3, <2>5 DEF TypeInv, Types, InHandler
  <2>7. Existence'
    BY <2>1 DEF TypeInv, Existence, InHandler
  <2> QED BY <2>6, <2>7 DEF TypeInv
<1> QED BY <1>1, <1>2, <1>3 DEF ConsumerStep

\* rr_choose takes one of the consumers.
LEMMA ChoiceIs ==
    ASSUME TypeInv, NEW q \in Queues, consumers[q] /= <<>>
    PROVE  /\ Len(consumers[q]) \in Nat \ {0} /\ rr[q] \in Nat
           /\ (rr[q] % Len(consumers[q])) + 1 \in DOMAIN consumers[q]
           /\ consumers[q][(rr[q] % Len(consumers[q])) + 1] \in Consumer
<1>1. consumers[q] \in Seq(Consumer) /\ rr[q] \in Nat
  BY DEF TypeInv, Types, TypeOK
<1>2. Len(consumers[q]) \in Nat \ {0}
  BY <1>1, EmptySeq, LenProperties
<1>3. (rr[q] % Len(consumers[q])) + 1 \in 1..Len(consumers[q])
  BY <1>1, <1>2
<1> QED BY <1>1, <1>2, <1>3, ElementOfSeq, LenProperties

\* What Pop does.
LEMMA PopIs ==
    ASSUME TypeInv, Pop
    PROVE  /\ tasks /= <<>> /\ Head(tasks) \in [chan : Channels, q : Queues]
           /\ tasks' = Tail(tasks) /\ tasks' \in Seq([chan : Channels, q : Queues])
           /\ wk.pc = "idle"
           /\ \/ ready[Head(tasks).q] = <<>> /\ UNCHANGED <<ready, unacked, wk>>
              \/ /\ ready[Head(tasks).q] /= <<>>
                 /\ Head(ready[Head(tasks).q]) \in 1..MaxMsgs
                 /\ Tail(ready[Head(tasks).q]) \in Seq(1..MaxMsgs)
                 /\ ready' = [ready EXCEPT ![Head(tasks).q] = Tail(ready[Head(tasks).q])]
                 /\ unacked' = [unacked EXCEPT ![Head(tasks).q] =
                                  unacked[Head(tasks).q] \union {Head(ready[Head(tasks).q])}]
                 /\ wk' = [pc |-> "choose", by |-> Head(tasks).chan, q |-> Head(tasks).q,
                           n |-> Head(ready[Head(tasks).q]), to |-> NoQueue]
           /\ UNCHANGED <<alive, lost, chan, own, busy, subs, stores, lists, consumers, rr, turns,
                          last, recovered, io, pushed>>
<1>1. tasks \in Seq([chan : Channels, q : Queues]) /\ tasks /= <<>>
  BY DEF Pop, TypeInv, Types, TypeOK
<1>2. Head(tasks) \in [chan : Channels, q : Queues] /\ Tail(tasks) \in Seq([chan : Channels, q : Queues])
  BY <1>1, HeadTailProperties
<1>3. ready[Head(tasks).q] \in Seq(1..MaxMsgs)
  BY <1>2 DEF TypeInv, Types, TypeOK
<1>4. ready[Head(tasks).q] /= <<>> =>
        Head(ready[Head(tasks).q]) \in 1..MaxMsgs /\ Tail(ready[Head(tasks).q]) \in Seq(1..MaxMsgs)
  BY <1>3, HeadTailProperties
<1> QED BY <1>1, <1>2, <1>4 DEF Pop, channels, queues, subscriptions

LEMMA PopTypes ==
    ASSUME TypeInv, Pop
    PROVE  TypeInv'
<1> DEFINE q == Head(tasks).q
<1>1. q \in Queues /\ Head(tasks).chan \in Channels
  BY PopIs
<1>2. CASE ready[q] = <<>>
  <2>1. /\ tasks' \in Seq([chan : Channels, q : Queues])
        /\ UNCHANGED <<alive, lost, chan, own, busy, subs, stores, lists, consumers, rr, turns,
                       ready, unacked, wk, last, recovered, io, pushed>>
    BY <1>2, PopIs
  <2>2. TypeOK'
    BY <2>1 DEF TypeInv, Types, TypeOK, Open
  <2>3. Types'
    BY <2>1, <2>2 DEF TypeInv, Types, InHandler
  <2>4. Existence'
    BY <2>1 DEF TypeInv, Existence, InHandler
  <2> QED BY <2>3, <2>4 DEF TypeInv
<1>3. CASE ready[q] /= <<>>
  <2>1. /\ Head(ready[q]) \in 1..MaxMsgs /\ Tail(ready[q]) \in Seq(1..MaxMsgs)
        /\ ready' = [ready EXCEPT ![q] = Tail(ready[q])]
        /\ unacked' = [unacked EXCEPT ![q] = unacked[q] \union {Head(ready[q])}]
        /\ wk' = [pc |-> "choose", by |-> Head(tasks).chan, q |-> q, n |-> Head(ready[q]), to |-> NoQueue]
        /\ tasks' \in Seq([chan : Channels, q : Queues])
        /\ UNCHANGED <<alive, lost, chan, own, busy, subs, stores, lists, consumers, rr, turns,
                       last, recovered, io, pushed>>
    BY <1>3, PopIs
  <2> DEFINE n == Head(ready[q])
  <2>2. ready' \in [Queues -> Seq(1..MaxMsgs)] /\ unacked' \in [Queues -> SUBSET (1..MaxMsgs)]
    <3>1. ready \in [Queues -> Seq(1..MaxMsgs)] /\ unacked \in [Queues -> SUBSET (1..MaxMsgs)]
      BY DEF TypeInv, Types, TypeOK
    <3>2. unacked[q] \union {n} \in SUBSET (1..MaxMsgs)
      BY <1>1, <2>1, <3>1
    <3> HIDE DEF n, q
    <3> QED BY <1>1, <2>1, <3>1, <3>2 DEF n
  <2>3. /\ wk'.pc = "choose" /\ wk'.q \in Queues /\ wk'.n \in 1..MaxMsgs /\ wk'.by \in Channels
        /\ wk' \in [pc : {"idle", "choose", "call", "ack"}, by : Channels \union {NoQueue},
                    q : Queues \union {NoQueue}, n : Nat, to : Consumer \union {NoQueue}]
    BY <1>1, <2>1, DeliveryAssumption
  <2>4. q \in stores
    BY <1>1, <1>3 DEF TypeInv, Existence
  <2>5. TypeOK'
    BY <2>1, <2>2, <2>3 DEF TypeInv, Types, TypeOK, Open
  <2>6. Types'
    BY <2>1, <2>3, <2>5 DEF TypeInv, Types, InHandler
  <2>7. \A p \in Queues \ stores : ready'[p] = <<>> /\ unacked'[p] = {}
    BY <2>1, <2>4 DEF TypeInv, Existence, Types, TypeOK
  <2>8. Existence'
    BY <2>1, <2>7 DEF TypeInv, Existence, InHandler
  <2> QED BY <2>6, <2>8 DEF TypeInv
<1> QED BY <1>2, <1>3

\* The worker's other steps.
LEMMA WorkerTypes ==
    ASSUME TypeInv, Choose \/ Callback \/ AutoAck
    PROVE  TypeInv'
<1> DEFINE q == wk.q
           idx == (rr[q] % Len(consumers[q])) + 1
<1>1. CASE Choose
  <2>1. /\ wk.pc = "choose" /\ q \in Queues /\ wk.n \in 1..MaxMsgs /\ wk.by \in Channels
        /\ UNCHANGED <<alive, lost, chan, own, busy, subs, stores, lists, consumers,
                       ready, unacked, last, recovered, tasks, io, pushed>>
    BY <1>1 DEF Choose, channels, queues, subscriptions, messages, TypeInv, Types
  <2>2. /\ wk' \in [pc : {"idle", "choose", "call", "ack"}, by : Channels \union {NoQueue},
                    q : Queues \union {NoQueue}, n : Nat, to : Consumer \union {NoQueue}]
        /\ wk'.pc \in {"idle", "call"}
        /\ wk'.pc = "call" => /\ wk'.q \in Queues /\ wk'.n \in 1..MaxMsgs /\ wk'.by \in Channels
                              /\ wk'.to \in Consumer
        /\ rr' \in [Queues -> Nat] /\ turns' \in [Queues -> Seq(Channels)]
    <3>1. CASE q \notin lists \/ consumers[q] = <<>>
      <4>1. wk' = WkIdle /\ UNCHANGED <<rr, turns>>
        BY <1>1, <3>1 DEF Choose, subscriptions
      <4>2. rr \in [Queues -> Nat] /\ turns \in [Queues -> Seq(Channels)]
        BY DEF TypeInv, Types, TypeOK
      <4> QED BY <4>1, <4>2 DEF WkIdle
    <3>2. CASE ~ (q \notin lists \/ consumers[q] = <<>>)
      <4>1. /\ wk' = [wk EXCEPT !.pc = "call", !.to = consumers[q][idx]]
            /\ rr' = [rr EXCEPT ![q] = rr[q] + 1]
            /\ turns' = [turns EXCEPT ![q] = Append(turns[q], consumers[q][idx].chan)]
        BY <1>1, <3>2 DEF Choose
      <4>2. consumers[q][idx] \in Consumer /\ consumers[q][idx].chan \in Channels
        BY <2>1, <3>2, ChoiceIs DEF Consumer
      <4> HIDE DEF idx
      <4>3. rr' \in [Queues -> Nat]
        <5>1. rr \in [Queues -> Nat]
          BY DEF TypeInv, Types, TypeOK
        <5>2. rr[q] + 1 \in Nat
          BY <2>1, <5>1
        <5> QED BY <4>1, <5>1, <5>2
      <4>4. turns' \in [Queues -> Seq(Channels)]
        <5>1. turns \in [Queues -> Seq(Channels)]
          BY DEF TypeInv, Types
        <5>2. Append(turns[q], consumers[q][idx].chan) \in Seq(Channels)
          BY <2>1, <4>2, <5>1, AppendProperties
        <5> QED BY <4>1, <5>1, <5>2
      <4>5. /\ wk' \in [pc : {"idle", "choose", "call", "ack"}, by : Channels \union {NoQueue},
                        q : Queues \union {NoQueue}, n : Nat, to : Consumer \union {NoQueue}]
            /\ wk'.pc = "call" /\ wk'.q = wk.q /\ wk'.n = wk.n /\ wk'.by = wk.by
            /\ wk'.to = consumers[q][idx]
        BY <4>1, <4>2 DEF TypeInv, Types
      <4> QED BY <2>1, <4>2, <4>3, <4>4, <4>5
    <3> QED BY <3>1, <3>2
  <2>3. TypeOK'
    BY <2>1, <2>2 DEF TypeInv, Types, TypeOK, Open
  <2>4. Types'
    BY <2>1, <2>2, <2>3 DEF TypeInv, Types, InHandler
  <2>5. Existence'
    BY <2>1 DEF TypeInv, Existence, InHandler
  <2> QED BY <2>4, <2>5 DEF TypeInv
<1>2. CASE Callback
  <2>1. /\ wk.pc = "call" /\ q \in Queues /\ wk.n \in 1..MaxMsgs /\ wk.by \in Channels /\ wk.to \in Consumer
        /\ \/ pushed' = [pushed EXCEPT ![q] = Append(pushed[q], [n |-> wk.n, to |-> wk.to.chan])]
           \/ pushed' = pushed
        /\ wk' = IF wk.to.auto THEN [wk EXCEPT !.pc = "ack"] ELSE WkIdle
        /\ UNCHANGED <<alive, lost, chan, own, busy, subs, stores, lists, consumers, rr, turns,
                       ready, unacked, last, recovered, tasks, io>>
    BY <1>2 DEF Callback, channels, queues, subscriptions, messages, TypeInv, Types
  <2>2. /\ wk' \in [pc : {"idle", "choose", "call", "ack"}, by : Channels \union {NoQueue},
                    q : Queues \union {NoQueue}, n : Nat, to : Consumer \union {NoQueue}]
        /\ wk'.pc \in {"idle", "ack"}
        /\ wk'.pc = "ack" => /\ wk'.q \in Queues /\ wk'.n \in 1..MaxMsgs /\ wk'.by \in Channels
                             /\ wk'.to \in Consumer /\ wk'.to.auto
    BY <2>1 DEF WkIdle, TypeInv, Types
  <2>3. pushed' \in [Queues -> Seq([n : 1..MaxMsgs, to : Channels])]
    <3>1. pushed \in [Queues -> Seq([n : 1..MaxMsgs, to : Channels])]
      BY DEF TypeInv, Types
    <3>2. [n |-> wk.n, to |-> wk.to.chan] \in [n : 1..MaxMsgs, to : Channels]
      BY <2>1 DEF Consumer
    <3>3. Append(pushed[q], [n |-> wk.n, to |-> wk.to.chan]) \in Seq([n : 1..MaxMsgs, to : Channels])
      BY <2>1, <3>1, <3>2, AppendProperties
    <3> QED BY <2>1, <3>1, <3>3
  <2>4. TypeOK'
    BY <2>1, <2>2 DEF TypeInv, Types, TypeOK, Open
  <2>5. Types'
    BY <2>1, <2>2, <2>3, <2>4 DEF TypeInv, Types, InHandler
  <2>6. Existence'
    BY <2>1 DEF TypeInv, Existence, InHandler
  <2> QED BY <2>5, <2>6 DEF TypeInv
<1>3. CASE AutoAck
  <2>1. /\ wk.q \in Queues /\ Acknowledge(wk.q, wk.n)
        /\ wk' = [pc |-> "idle", by |-> NoQueue, q |-> NoQueue, n |-> 0, to |-> NoQueue]
        /\ UNCHANGED <<alive, lost, chan, own, busy, subs, stores, lists, consumers, rr, turns,
                       ready, last, recovered, tasks, io, pushed>>
    BY <1>3 DEF AutoAck, WkIdle, channels, queues, subscriptions, TypeInv, Types
  <2>2. /\ unacked' \in [Queues -> SUBSET (1..MaxMsgs)]
        /\ \A p \in Queues : unacked'[p] \subseteq unacked[p]
    BY <2>1, AcknowledgeTypes
  <2>3. TypeOK'
    BY <2>1, <2>2 DEF TypeInv, Types, TypeOK, Open
  <2>4. Types'
    BY <2>1, <2>3 DEF TypeInv, Types, InHandler
  <2>5. Existence'
    BY <2>1, <2>2 DEF TypeInv, Existence, InHandler
  <2> QED BY <2>4, <2>5 DEF TypeInv
<1> QED BY <1>1, <1>2, <1>3

\* The broker starts again.
LEMMA RestartIs ==
    ASSUME Restart
    PROVE  /\ chan' = [c \in Channels |-> IF chan[c] /= "new" THEN "closed" ELSE "new"]
           /\ own' = [c \in Channels |-> NoQueue] /\ busy' = [c \in Channels |-> NoQueue] /\ subs' = {}
           /\ stores' = stores \intersect Durable /\ lists' = stores \intersect Durable
           /\ consumers' = [q \in Queues |-> <<>>] /\ rr' = [q \in Queues |-> 0]
           /\ turns' = [q \in Queues |-> <<>>]
           /\ ready' = [q \in Queues |-> StoredInOrder(q)] /\ unacked' = [q \in Queues |-> {}]
           /\ recovered' = [q \in Queues |-> Cardinality(Stored(q))]
           /\ pushed' = [q \in Queues |-> <<>>]
           /\ tasks' = <<>> /\ last' = last /\ ~alive
           /\ io' = [pc |-> "idle", chan |-> NoQueue, q |-> NoQueue, todo |-> {}]
           /\ wk' = [pc |-> "idle", by |-> NoQueue, q |-> NoQueue, n |-> 0, to |-> NoQueue]
BY DEF Restart, IoIdle, WkIdle

LEMMA EmptyIsOrdered == Increasing({}) = <<>>
<1>1. {} \in SUBSET Nat /\ IsFiniteSet({}) /\ Cardinality({}) = 0
  BY FS_EmptySet
<1>2. Increasing({}) \in Seq({}) /\ Len(Increasing({})) = 0
  BY <1>1, IncreasingIs
<1> QED BY <1>2, EmptySeq

LEMMA RestartTypes ==
    ASSUME TypeInv, Restart
    PROVE  TypeInv'
<1>1. alive' \in BOOLEAN /\ lost' \subseteq Connections
  BY DeliveryAssumption DEF Restart, TypeInv, Types, TypeOK
<1>2. ready' \in [Queues -> Seq(1..MaxMsgs)] /\ recovered' \in [Queues -> 0..MaxMsgs]
  BY RestartIs, StoredIs
<1>3. /\ consumers' \in [Queues -> Seq(Consumer)] /\ rr' \in [Queues -> Nat]
      /\ turns' \in [Queues -> Seq(Channels)]
      /\ pushed' \in [Queues -> Seq([n : 1..MaxMsgs, to : Channels])]
      /\ tasks' \in Seq([chan : Channels, q : Queues])
  <2>1. /\ consumers' = [q \in Queues |-> <<>>] /\ rr' = [q \in Queues |-> 0]
        /\ turns' = [q \in Queues |-> <<>>] /\ pushed' = [q \in Queues |-> <<>>] /\ tasks' = <<>>
    BY RestartIs
  <2>2. consumers' \in [Queues -> Seq(Consumer)] /\ rr' \in [Queues -> Nat]
    BY <2>1
  <2>3. turns' \in [Queues -> Seq(Channels)]
    BY <2>1
  <2>4. pushed' \in [Queues -> Seq([n : 1..MaxMsgs, to : Channels])]
    BY <2>1
  <2> QED BY <2>1, <2>2, <2>3, <2>4
<1>4. /\ chan' \in [Channels -> {"new", "open", "closed"}]
      /\ own' \in [Channels -> Queues \union {NoQueue}]
      /\ busy' \in [Channels -> Queues \union {NoQueue}]
  BY RestartIs
<1>5. /\ unacked' \in [Queues -> SUBSET (1..MaxMsgs)]
      /\ last' \in [Queues -> 0..MaxMsgs]
  BY RestartIs DEF TypeInv, Types, TypeOK
<1>6. stores' \subseteq Queues /\ lists' = stores' /\ subs' = {} /\ lists' \subseteq stores'
  BY RestartIs DEF TypeInv, Types, TypeOK
<1>7. /\ io'.pc = "idle" /\ wk'.pc = "idle"
      /\ io' \in [pc : {"idle", "insert", "push", "delete"}, chan : Channels \union {NoQueue},
                  q : Queues \union {NoQueue}, todo : SUBSET Queues]
      /\ wk' \in [pc : {"idle", "choose", "call", "ack"}, by : Channels \union {NoQueue},
                  q : Queues \union {NoQueue}, n : Nat, to : Consumer \union {NoQueue}]
  BY RestartIs
<1>8. TypeOK'
  BY <1>1, <1>2, <1>3, <1>4, <1>5, <1>6, <1>7 DEF TypeOK
<1>9. Types'
  BY <1>3, <1>7, <1>8 DEF Types, InHandler
<1>10. ASSUME NEW q \in Queues \ stores' PROVE ready'[q] = <<>> /\ unacked'[q] = {}
  <2>1. Stored(q) = {}
    BY <1>10, RestartIs DEF Stored
  <2>2. StoredInOrder(q) = <<>>
    BY <2>1, EmptyIsOrdered DEF StoredInOrder
  <2>3. ready'[q] = StoredInOrder(q) /\ unacked'[q] = {}
    BY RestartIs
  <2> QED BY <2>2, <2>3
<1>11. Existence'
  BY <1>6, <1>7, <1>10 DEF Existence, InHandler
<1> QED BY <1>9, <1>11 DEF TypeInv

LEMMA DieTypes ==
    ASSUME TypeInv, Die \/ WorkerDies \/ UNCHANGED vars
    PROVE  TypeInv'
<1>1. /\ alive' \in BOOLEAN
      /\ UNCHANGED <<lost, chan, own, busy, subs, stores, lists, consumers, rr, turns,
                     ready, unacked, last, recovered, tasks, io, wk, pushed>>
  BY DEF Die, WorkerDies, vars, channels, queues, subscriptions, messages, TypeInv, Types, TypeOK
<1>2. TypeOK'
  BY <1>1 DEF TypeInv, Types, TypeOK, Open
<1>3. Types'
  BY <1>1, <1>2 DEF TypeInv, Types, InHandler
<1>4. Existence'
  BY <1>1 DEF TypeInv, Existence, InHandler
<1> QED BY <1>3, <1>4 DEF TypeInv

LEMMA StepTypes ==
    ASSUME TypeInv, [Next]_vars
    PROVE  TypeInv'
BY StepCases, ChannelTypes, QueueTypes, PublishTypes, ConsumerTypes, PopTypes, WorkerTypes,
   RestartTypes, DieTypes

LEMMA AlwaysTypes == Spec => []TypeInv
<1>1. TypeInv /\ [Next]_vars => TypeInv'
  BY StepTypes
<1> QED BY InitTypes, <1>1, PTL DEF Spec

\* TypeOK: whatever channels, connections, queues and consumers come and go, and whatever a
\* restart finds, every variable of the broker keeps its type, and a queue that is listed
\* with consumers exists.
THEOREM DeliveryTypes == Spec => []TypeOK
<1>1. TypeInv => TypeOK
  BY DEF TypeInv, Types
<1> QED BY AlwaysTypes, <1>1, PTL

-----------------------------------------------------------------------------
(* The order of a queue's messages *)

\* The types Numbered is about.
LEMMA NumberTypes ==
    ASSUME TypeInv, NEW q \in Queues
    PROVE  /\ ready[q] \in Seq(1..MaxMsgs) /\ unacked[q] \subseteq 1..MaxMsgs /\ 1..MaxMsgs \subseteq Nat
           /\ last[q] \in Nat /\ pushed[q] \in Seq([n : 1..MaxMsgs, to : Channels])
           /\ \A k \in DOMAIN pushed[q] : pushed[q][k].n \in Nat
           /\ \A i \in DOMAIN ready[q] : ready[q][i] \in Nat
           /\ wk.n \in Nat
<1>1. /\ ready[q] \in Seq(1..MaxMsgs) /\ unacked[q] \subseteq 1..MaxMsgs /\ 1..MaxMsgs \subseteq Nat
      /\ last[q] \in Nat /\ pushed[q] \in Seq([n : 1..MaxMsgs, to : Channels]) /\ wk.n \in Nat
  <2>1. ready[q] \in Seq(1..MaxMsgs) /\ unacked[q] \subseteq 1..MaxMsgs /\ last[q] \in 0..MaxMsgs
    BY DEF TypeInv, Types, TypeOK
  <2>2. pushed[q] \in Seq([n : 1..MaxMsgs, to : Channels]) /\ wk.n \in Nat
    BY DEF TypeInv, Types
  <2> QED BY <2>1, <2>2, DeliveryAssumption
<1>2. \A k \in DOMAIN pushed[q] : pushed[q][k] \in [n : 1..MaxMsgs, to : Channels]
  BY <1>1, ElementOfSeq, LenProperties
<1>3. \A i \in DOMAIN ready[q] : ready[q][i] \in 1..MaxMsgs
  BY <1>1, ElementOfSeq, LenProperties
<1> QED BY <1>1, <1>2, <1>3

\* A step that leaves a queue's messages, except for acknowledging, and takes none.
LEMMA NumberedKept ==
    ASSUME NEW q \in Queues, Numbered(q),
           ready'[q] = ready[q], unacked'[q] \subseteq unacked[q], last'[q] = last[q],
           pushed'[q] = pushed[q], Holds(q)' => Holds(q) /\ wk'.n = wk.n
    PROVE  Numbered(q)'
BY DEF Numbered, Rising

\* Inserting gives the next number to the message that goes last.
LEMMA InsertNumbered ==
    ASSUME TypeInv, \A p \in Queues : Numbered(p), NEW p \in Queues, InsertMessage(p), NEW q \in Queues
    PROVE  Numbered(q)'
<1>1. /\ last' = [last EXCEPT ![p] = last[p] + 1]
      /\ ready' = [ready EXCEPT ![p] = Append(ready[p], last[p] + 1)]
      /\ UNCHANGED <<unacked, pushed, wk>>
      /\ ready \in [Queues -> Seq(1..MaxMsgs)] /\ last \in [Queues -> 0..MaxMsgs]
  BY DEF InsertMessage, TypeInv, Types, TypeOK
<1>2. Holds(q)' <=> Holds(q)
  BY <1>1 DEF Holds
<1>3. CASE q /= p
  BY <1>1, <1>2, <1>3, NumberedKept
<1>4. CASE q = p
  <2>1. ready'[q] = Append(ready[q], last[q] + 1) /\ last'[q] = last[q] + 1
    BY <1>1, <1>4
  <2>2. /\ DOMAIN ready'[q] = 1..(Len(ready[q]) + 1) /\ Len(ready[q]) \in Nat
        /\ DOMAIN ready[q] = 1..Len(ready[q])
        /\ \A i \in 1..Len(ready[q]) : ready'[q][i] = ready[q][i]
        /\ ready'[q][Len(ready[q]) + 1] = last[q] + 1
    BY <2>1, NumberTypes, AppendProperties
  <2>3. Rising(ready[q]) /\ \A i \in DOMAIN ready[q] : ready[q][i] <= last[q]
    BY DEF Numbered
  <2>4. Rising(ready'[q])
    <3>1. ASSUME NEW i \in DOMAIN ready'[q], NEW j \in DOMAIN ready'[q], i < j
          PROVE  ready'[q][i] < ready'[q][j]
      <4>1. i \in 1..Len(ready[q]) /\ ready'[q][i] = ready[q][i] /\ ready[q][i] \in Nat /\ last[q] \in Nat
        BY <2>2, <3>1, NumberTypes
      <4>2. CASE j \in 1..Len(ready[q])
        BY <2>2, <2>3, <3>1, <4>1, <4>2 DEF Rising
      <4>3. CASE j = Len(ready[q]) + 1
        BY <2>2, <2>3, <4>1, <4>3
      <4> QED BY <2>2, <4>2, <4>3
    <3> QED BY <3>1 DEF Rising
  <2>5. ASSUME NEW i \in DOMAIN ready'[q]
        PROVE  /\ ready'[q][i] <= last'[q]
               /\ \A n \in unacked[q] : n < ready'[q][i]
               /\ \A k \in DOMAIN pushed[q] : pushed[q][k].n < ready'[q][i]
               /\ Holds(q) => wk.n < ready'[q][i]
    <3>1. CASE i \in 1..Len(ready[q])
      BY <2>1, <2>2, <3>1, NumberTypes DEF Numbered
    <3>2. CASE i = Len(ready[q]) + 1
      <4>1. ready'[q][i] = last[q] + 1
        BY <2>2, <3>2
      <4>2. /\ \A n \in unacked[q] : n <= last[q]
            /\ \A k \in DOMAIN pushed[q] : pushed[q][k].n <= last[q]
            /\ Holds(q) => wk.n <= last[q]
        BY DEF Numbered
      <4>3. /\ unacked[q] \subseteq Nat /\ last[q] \in Nat /\ wk.n \in Nat
            /\ \A k \in DOMAIN pushed[q] : pushed[q][k].n \in Nat
        BY NumberTypes
      <4> QED BY <2>1, <4>1, <4>2, <4>3
    <3> QED BY <2>2, <3>1, <3>2
  <2>6. /\ \A n \in unacked[q] : n <= last'[q]
        /\ \A k \in DOMAIN pushed[q] : pushed[q][k].n <= last'[q]
        /\ Holds(q) => wk.n <= last'[q]
    <3>1. /\ \A n \in unacked[q] : n <= last[q]
          /\ \A k \in DOMAIN pushed[q] : pushed[q][k].n <= last[q]
          /\ Holds(q) => wk.n <= last[q]
      BY DEF Numbered
    <3>2. /\ unacked[q] \subseteq Nat /\ last[q] \in Nat /\ wk.n \in Nat
          /\ \A k \in DOMAIN pushed[q] : pushed[q][k].n \in Nat
      BY NumberTypes
    <3> QED BY ONLY <2>1, <3>1, <3>2
  <2>7. /\ \A i, j \in DOMAIN pushed[q] : i < j => pushed[q][i].n < pushed[q][j].n
        /\ Holds(q) => \A k \in DOMAIN pushed[q] : pushed[q][k].n < wk.n
    BY DEF Numbered
  <2> QED BY <1>1, <1>2, <2>4, <2>5, <2>6, <2>7 DEF Numbered, Rising
<1> QED BY <1>3, <1>4

\* The worker takes the least number that waits.
LEMMA PopNumbered ==
    ASSUME TypeInv, \A p \in Queues : Numbered(p), Pop, NEW q \in Queues
    PROVE  Numbered(q)'
<1> DEFINE p == Head(tasks).q
<1>1. CASE ready[p] = <<>>
  <2>1. UNCHANGED <<ready, unacked, wk, last, pushed>>
    BY <1>1, PopIs
  <2> QED BY <2>1, NumberedKept DEF Holds
<1>2. CASE ready[p] /= <<>>
  <2>1. /\ p \in Queues /\ wk.pc = "idle"
        /\ ready' = [ready EXCEPT ![p] = Tail(ready[p])]
        /\ unacked' = [unacked EXCEPT ![p] = unacked[p] \union {Head(ready[p])}]
        /\ wk' = [pc |-> "choose", by |-> Head(tasks).chan, q |-> p, n |-> Head(ready[p]), to |-> NoQueue]
        /\ UNCHANGED <<last, pushed>>
        /\ ready \in [Queues -> Seq(1..MaxMsgs)] /\ unacked \in [Queues -> SUBSET (1..MaxMsgs)]
    BY <1>2, PopIs DEF TypeInv, Types, TypeOK
  <2> HIDE DEF p
  <2>2. CASE q /= p
    <3>1. ~ Holds(q)'
      BY <2>1, <2>2 DEF Holds
    <3> QED BY <2>1, <2>2, <3>1, NumberedKept
  <2>3. CASE q = p
    <3>1. /\ ready'[q] = Tail(ready[q]) /\ unacked'[q] = unacked[q] \union {Head(ready[q])}
          /\ wk'.n = Head(ready[q]) /\ last'[q] = last[q] /\ pushed'[q] = pushed[q]
      BY <2>1, <2>3
    <3> DEFINE h == ready[q][1]
    <3>2. /\ ready[q] \in Seq(1..MaxMsgs) /\ ready[q] /= <<>> /\ Head(ready[q]) = h
          /\ Len(ready[q]) \in Nat \ {0} /\ DOMAIN ready[q] = 1..Len(ready[q])
      BY <1>2, <2>3, NumberTypes, EmptySeq, LenProperties, HeadTailProperties DEF p
    <3>3. /\ DOMAIN ready'[q] = 1..(Len(ready[q]) - 1)
          /\ \A i \in DOMAIN ready'[q] : i + 1 \in DOMAIN ready[q] /\ ready'[q][i] = ready[q][i + 1]
      BY <3>1, <3>2, HeadTailProperties, LenProperties
    <3>4. 1 \in DOMAIN ready[q] /\ h \in Nat
      BY <3>2, NumberTypes
    <3>5. /\ h <= last[q] /\ (\A n \in unacked[q] : n < h)
          /\ \A k \in DOMAIN pushed[q] : pushed[q][k].n < h
      BY <3>4 DEF Numbered
    <3>6. \A i \in DOMAIN ready'[q] : h < ready'[q][i]
      BY <3>2, <3>3, <3>4 DEF Numbered, Rising
    <3>7. Rising(ready'[q])
      <4>1. ASSUME NEW i \in DOMAIN ready'[q], NEW j \in DOMAIN ready'[q], i < j
            PROVE  ready'[q][i] < ready'[q][j]
        <5>1. i \in Nat /\ j \in Nat /\ i + 1 < j + 1
          BY <3>2, <3>3, <4>1
        <5>2. Rising(ready[q])
          BY DEF Numbered
        <5> QED BY <3>3, <5>1, <5>2 DEF Rising
      <4> QED BY <4>1 DEF Rising
    <3>8. ASSUME NEW i \in DOMAIN ready'[q]
          PROVE  /\ ready'[q][i] <= last[q]
                 /\ \A n \in unacked[q] : n < ready'[q][i]
                 /\ \A k \in DOMAIN pushed[q] : pushed[q][k].n < ready'[q][i]
      BY <3>3 DEF Numbered
    <3>9. \A n \in unacked[q] : n <= last[q]
      BY DEF Numbered
    <3>10. /\ \A k \in DOMAIN pushed[q] : pushed[q][k].n <= last[q]
           /\ \A i, j \in DOMAIN pushed[q] : i < j => pushed[q][i].n < pushed[q][j].n
      BY DEF Numbered
    <3>11. unacked'[q] = unacked[q] \union {h} /\ wk'.n = h
      BY <3>1, <3>2
    <3> HIDE DEF h
    <3> QED BY <3>1, <3>5, <3>6, <3>7, <3>8, <3>9, <3>10, <3>11 DEF Numbered, Rising
  <2> QED BY <2>2, <2>3
<1> QED BY <1>1, <1>2

\* What the worker holds is sent after everything sent before.
LEMMA CallbackNumbered ==
    ASSUME TypeInv, \A p \in Queues : Numbered(p), Callback, NEW q \in Queues
    PROVE  Numbered(q)'
<1>1. /\ wk.pc = "call" /\ wk.q \in Queues /\ wk'.pc \in {"idle", "ack"}
      /\ \/ pushed' = [pushed EXCEPT ![wk.q] = Append(pushed[wk.q], [n |-> wk.n, to |-> wk.to.chan])]
         \/ pushed' = pushed
      /\ UNCHANGED <<ready, unacked, last>>
      /\ pushed \in [Queues -> Seq([n : 1..MaxMsgs, to : Channels])]
      /\ wk.to.chan \in Channels /\ wk.n \in 1..MaxMsgs
  BY DEF Callback, messages, WkIdle, TypeInv, Types, Consumer
<1>2. ~ Holds(q)'
  BY <1>1 DEF Holds
<1>3. CASE pushed'[q] = pushed[q]
  BY <1>1, <1>2, <1>3, NumberedKept
<1>4. CASE pushed'[q] /= pushed[q]
  <2>1. q = wk.q /\ pushed'[q] = Append(pushed[q], [n |-> wk.n, to |-> wk.to.chan]) /\ Holds(q)
    BY <1>1, <1>4 DEF Holds
  <2>2. /\ Len(pushed[q]) \in Nat /\ DOMAIN pushed[q] = 1..Len(pushed[q])
        /\ DOMAIN pushed'[q] = 1..(Len(pushed[q]) + 1)
        /\ \A k \in 1..Len(pushed[q]) : pushed'[q][k] = pushed[q][k]
        /\ pushed'[q][Len(pushed[q]) + 1].n = wk.n
    <3>1. [n |-> wk.n, to |-> wk.to.chan] \in [n : 1..MaxMsgs, to : Channels]
      BY <1>1
    <3>2. [n |-> wk.n, to |-> wk.to.chan].n = wk.n
      OBVIOUS
    <3> QED BY <2>1, <3>1, <3>2, NumberTypes, AppendProperties, LenProperties
  <2>3. \A k \in DOMAIN pushed[q] : pushed[q][k].n < wk.n
    BY <2>1 DEF Numbered
  <2>4. ASSUME NEW i \in DOMAIN pushed'[q], NEW j \in DOMAIN pushed'[q], i < j
        PROVE  pushed'[q][i].n < pushed'[q][j].n
    <3>1. i \in DOMAIN pushed[q] /\ pushed'[q][i] = pushed[q][i]
      BY <2>2, <2>4
    <3>2. CASE j \in DOMAIN pushed[q]
      BY <2>2, <2>4, <3>1, <3>2 DEF Numbered
    <3>3. CASE j = Len(pushed[q]) + 1
      BY <2>2, <2>3, <3>1, <3>3
    <3> QED BY <2>2, <3>2, <3>3
  <2>5. \A k \in DOMAIN pushed'[q] : pushed'[q][k].n <= last[q]
    BY <2>1, <2>2 DEF Numbered
  <2>6. ASSUME NEW i \in DOMAIN ready[q], NEW k \in DOMAIN pushed'[q] PROVE pushed'[q][k].n < ready[q][i]
    BY <2>1, <2>2 DEF Numbered
  <2>7. Rising(ready[q]) /\ (\A i \in DOMAIN ready[q] : ready[q][i] <= last[q] /\ \A n \in unacked[q] : n < ready[q][i])
        /\ \A n \in unacked[q] : n <= last[q]
    BY DEF Numbered
  <2> QED BY <1>1, <1>2, <2>4, <2>5, <2>6, <2>7 DEF Numbered, Rising
<1> QED BY <1>3, <1>4

\* recovery() puts what the file holds in order.
LEMMA RestartNumbered ==
    ASSUME TypeInv, \A p \in Queues : Numbered(p), Restart, NEW q \in Queues
    PROVE  Numbered(q)'
<1>1. /\ ready'[q] = StoredInOrder(q) /\ unacked'[q] = {} /\ pushed'[q] = <<>> /\ last' = last
      /\ wk'.pc = "idle"
  BY RestartIs
<1>2. ~ Holds(q)'
  BY <1>1 DEF Holds
<1>3. Rising(ready'[q])
  BY <1>1, StoredIs
<1>4. \A n \in Stored(q) : n <= last[q]
  <2>1. \A i \in DOMAIN ready[q] : ready[q][i] <= last[q]
    BY DEF Numbered
  <2>2. \A n \in ToSet(ready[q]) : n <= last[q]
    BY <2>1 DEF ToSet
  <2>3. \A n \in unacked[q] : n <= last[q]
    BY DEF Numbered
  <2> QED BY <2>2, <2>3 DEF Stored
<1>5. \A i \in DOMAIN ready'[q] : ready'[q][i] \in Stored(q)
  BY <1>1, StoredIs, ElementOfSeq, LenProperties
<1>6. \A k \in DOMAIN pushed'[q] : FALSE
  BY <1>1
<1> QED BY <1>1, <1>2, <1>3, <1>4, <1>5, <1>6 DEF Numbered

LEMMA OthersNumbered ==
    ASSUME TypeInv, \A p \in Queues : Numbered(p), NEW q \in Queues,
           \/ ChannelStep \/ QueueStep \/ ConsumerStep \/ Choose \/ AutoAck
           \/ (\E c \in Channels, todo \in SUBSET Queues : Publish(c, todo)) \/ PushTask
           \/ Die \/ WorkerDies \/ UNCHANGED vars
    PROVE  Numbered(q)'
<1>1. /\ UNCHANGED <<last, pushed>>
      /\ Holds(q)' => Holds(q) /\ wk'.n = wk.n
  <2>1. CASE UNCHANGED wk
    <3>1. UNCHANGED <<last, pushed>>
      BY DEF ChannelStep, QueueStep, ConsumerStep, Choose, AutoAck, Die, WorkerDies, vars, messages,
             OpenChannel, CloseChannel, Disconnect, Destroy, DeclareQueue, DeleteConsumers, DeleteMessages,
             Publish, PushTask, Ack, Subscribe, Cancel
    <3> QED BY <2>1, <3>1 DEF Holds
  <2>2. CASE Choose
    <3>1. UNCHANGED <<last, pushed>> /\ (wk' = WkIdle \/ (wk'.q = wk.q /\ wk'.n = wk.n)) /\ wk.pc = "choose"
      BY <2>2 DEF Choose, messages, TypeInv, Types
    <3> QED BY <3>1 DEF Holds, WkIdle
  <2>3. CASE AutoAck
    BY <2>3 DEF AutoAck, Holds, WkIdle
  <2>4. UNCHANGED wk \/ Choose \/ AutoAck
    BY DEF ChannelStep, QueueStep, ConsumerStep, Die, WorkerDies, vars,
           OpenChannel, CloseChannel, Disconnect, Destroy, DeclareQueue, DeleteConsumers, DeleteMessages,
           Publish, PushTask, Ack, Subscribe, Cancel
  <2> QED BY <2>1, <2>2, <2>3, <2>4
<1>2. unacked'[q] \subseteq unacked[q] /\ (ready'[q] = ready[q] \/ ready'[q] = <<>>)
  <2>1. CASE UNCHANGED <<ready, unacked>>
    BY <2>1
  <2>2. CASE DeleteMessages
    BY <2>2 DEF DeleteMessages, TypeInv, Types, TypeOK
  <2>3. CASE AutoAck \/ \E c \in Channels, p \in Queues, n \in 1..MaxMsgs : Ack(c, p, n)
    <3>1. ready' = ready
      BY <2>3 DEF AutoAck, Ack
    <3>2. CASE AutoAck
      BY <3>1, <3>2, AcknowledgeTypes DEF AutoAck, TypeInv, Types
    <3>3. ASSUME NEW c \in Channels, NEW p \in Queues, NEW n \in 1..MaxMsgs, Ack(c, p, n)
          PROVE  unacked'[q] \subseteq unacked[q]
      <4>1. Acknowledge(p, n)
        BY <3>3 DEF Ack, TypeInv, Types, TypeOK
      <4> QED BY <4>1, AcknowledgeTypes
    <3> QED BY <2>3, <3>1, <3>2, <3>3
  <2>4. \/ UNCHANGED <<ready, unacked>> \/ DeleteMessages \/ AutoAck
        \/ \E c \in Channels, p \in Queues, n \in 1..MaxMsgs : Ack(c, p, n)
    BY DEF ChannelStep, QueueStep, ConsumerStep, Choose, Die, WorkerDies, vars, messages,
           OpenChannel, CloseChannel, Disconnect, Destroy, DeclareQueue, DeleteConsumers,
           Publish, PushTask, Subscribe, Cancel
  <2> QED BY <2>1, <2>2, <2>3, <2>4
<1>3. CASE ready'[q] = ready[q]
  BY <1>1, <1>2, <1>3, NumberedKept
<1>4. CASE ready'[q] = <<>>
  BY <1>1, <1>2, <1>4 DEF Numbered, Rising
<1> QED BY <1>2, <1>3, <1>4

LEMMA StepNumbered ==
    ASSUME TypeInv, \A p \in Queues : Numbered(p), [Next]_vars
    PROVE  \A q \in Queues : Numbered(q)'
BY StepCases, OthersNumbered, InsertNumbered, PopNumbered, CallbackNumbered, RestartNumbered DEF PublishStep

NumberedInv == \A q \in Queues : Numbered(q)

LEMMA AlwaysNumbered == Spec => []NumberedInv
<1>1. Init => NumberedInv
  BY DEF Init, NumberedInv, Numbered, Rising, Holds, WkIdle
<1>2. TypeInv /\ NumberedInv /\ [Next]_vars => NumberedInv'
  BY StepNumbered DEF NumberedInv
<1> QED BY <1>1, <1>2, AlwaysTypes, PTL DEF Spec

\* PushedInOrder: between two starts of the broker a queue's messages are sent in the order
\* they were published, each at most once, although any task takes whatever is first, the
\* consumers change under the worker, queues are deleted and declared again, and a restart
\* may bring back any of the messages.
THEOREM SentInOrder == Spec => []PushedInOrder
<1>1. NumberedInv => PushedInOrder
  BY DEF NumberedInv, Numbered, PushedInOrder
<1> QED BY AlwaysNumbered, <1>1, PTL

-----------------------------------------------------------------------------
(* The tasks of a queue *)

Task == [chan : Channels, q : Queues]
TasksOf(t, q) == {i \in DOMAIN t : t[i].q = q}

LEMMA TasksFinite ==
    ASSUME NEW t \in Seq(Task), NEW q
    PROVE  IsFiniteSet(TasksOf(t, q)) /\ Cardinality(TasksOf(t, q)) \in Nat
<1>1. DOMAIN t = 1..Len(t) /\ Len(t) \in Nat
  OBVIOUS
<1>2. IsFiniteSet(1..Len(t))
  BY <1>1, FS_Interval
<1>3. TasksOf(t, q) \in SUBSET (1..Len(t))
  BY <1>1 DEF TasksOf
<1> QED BY <1>2, <1>3, FS_Subset, FS_CardinalityType

\* Pushing a task adds one to the tasks of its queue.
LEMMA TasksAppended ==
    ASSUME NEW t \in Seq(Task), NEW x \in Task, NEW q
    PROVE  Cardinality(TasksOf(Append(t, x), q)) = Cardinality(TasksOf(t, q)) + (IF x.q = q THEN 1 ELSE 0)
<1>1. /\ DOMAIN t = 1..Len(t) /\ Len(t) \in Nat
      /\ DOMAIN Append(t, x) = 1..(Len(t) + 1) /\ Append(t, x)[Len(t) + 1] = x
      /\ \A i \in 1..Len(t) : Append(t, x)[i] = t[i]
  BY AppendProperties
<1>2. CASE x.q = q
  <2>1. TasksOf(Append(t, x), q) = TasksOf(t, q) \union {Len(t) + 1} /\ Len(t) + 1 \notin TasksOf(t, q)
    BY <1>1, <1>2 DEF TasksOf
  <2>2. IsFiniteSet(TasksOf(t, q))
    BY TasksFinite
  <2>3. Cardinality(TasksOf(t, q) \union {Len(t) + 1}) = Cardinality(TasksOf(t, q)) + 1
    BY ONLY <2>1, <2>2, FS_AddElement
  <2> QED BY <1>2, <2>1, <2>3
<1>3. CASE x.q /= q
  <2>1. TasksOf(Append(t, x), q) = TasksOf(t, q)
    BY <1>1, <1>3 DEF TasksOf
  <2> QED BY <1>3, <2>1, TasksFinite
<1> QED BY <1>2, <1>3

\* Taking the first task takes one from the tasks of its queue.
LEMMA TasksTaken ==
    ASSUME NEW t \in Seq(Task), t /= <<>>, NEW q
    PROVE  Cardinality(TasksOf(t, q)) = Cardinality(TasksOf(Tail(t), q)) + (IF Head(t).q = q THEN 1 ELSE 0)
<1>1. /\ DOMAIN t = 1..Len(t) /\ Len(t) \in Nat \ {0} /\ Head(t) = t[1]
      /\ Tail(t) \in Seq(Task) /\ DOMAIN Tail(t) = 1..(Len(t) - 1)
      /\ \A i \in 1..(Len(t) - 1) : Tail(t)[i] = t[i + 1]
  BY EmptySeq, LenProperties, HeadTailProperties
<1> DEFINE A == TasksOf(Tail(t), q)
           B == TasksOf(t, q) \ {1}
           f == [i \in A |-> i + 1]
<1>2. Cardinality(A) = Cardinality(B)
  <2>1. \A i \in A : i \in Nat /\ i + 1 \in B
    BY <1>1 DEF TasksOf
  <2>2. \A j \in B : j \in Nat /\ j - 1 \in A /\ (j - 1) + 1 = j
    BY <1>1 DEF TasksOf
  <2> HIDE DEF A, B
  <2>3. f \in Bijection(A, B)
    BY <2>1, <2>2 DEF Bijection, Injection, Surjection, IsInjective
  <2>4. IsFiniteSet(A)
    BY <1>1, TasksFinite DEF A
  <2>5. ExistsBijection(A, B)
    BY <2>3 DEF ExistsBijection
  <2> QED BY <2>4, <2>5, FS_Bijection
<1>3. CASE Head(t).q = q
  <2>1. 1 \in TasksOf(t, q)
    BY <1>1, <1>3 DEF TasksOf
  <2>2. Cardinality(B) = Cardinality(TasksOf(t, q)) - 1
    BY <2>1, TasksFinite, FS_RemoveElement
  <2> HIDE DEF A, B
  <2> QED BY <1>2, <1>3, <2>2, TasksFinite DEF A
<1>4. CASE Head(t).q /= q
  <2>1. 1 \notin TasksOf(t, q)
    BY <1>1, <1>4 DEF TasksOf
  <2>2. B = TasksOf(t, q)
    BY <2>1
  <2> HIDE DEF B
  <2> QED BY <1>1, <1>2, <1>4, <2>2, TasksFinite
<1> QED BY <1>3, <1>4

Served(q) == Len(ready[q]) <= TasksFor(q) + BeingPushed(q) + recovered[q]

\* The types Served is about.
LEMMA ServedTypes ==
    ASSUME TypeInv, NEW q \in Queues
    PROVE  /\ tasks \in Seq(Task) /\ TasksFor(q) = Cardinality(TasksOf(tasks, q)) /\ TasksFor(q) \in Nat
           /\ Len(ready[q]) \in Nat /\ recovered[q] \in Nat /\ BeingPushed(q) \in {0, 1}
<1>1. tasks \in Seq(Task) /\ ready[q] \in Seq(1..MaxMsgs) /\ recovered[q] \in 0..MaxMsgs
  BY DEF TypeInv, Types, TypeOK, Task
<1>2. TasksFor(q) = Cardinality(TasksOf(tasks, q))
  BY DEF TasksFor, TasksOf
<1>3. TasksFor(q) \in Nat
  BY <1>1, <1>2, TasksFinite
<1>4. Len(ready[q]) \in Nat /\ recovered[q] \in Nat
  BY <1>1, LenProperties, DeliveryAssumption
<1> QED BY <1>1, <1>2, <1>3, <1>4 DEF BeingPushed

LEMMA InsertServed ==
    ASSUME TypeInv, TypeInv', \A p \in Queues : Served(p), NEW p \in Queues, InsertMessage(p), NEW q \in Queues
    PROVE  Served(q)'
<1>1. /\ io.pc = "insert" /\ io'.pc = "push" /\ io'.q = p
      /\ ready' = [ready EXCEPT ![p] = Append(ready[p], last[p] + 1)]
      /\ UNCHANGED <<tasks, recovered>>
      /\ ready \in [Queues -> Seq(1..MaxMsgs)]
  BY DEF InsertMessage, TypeInv, Types, TypeOK
<1>2. /\ TasksFor(q)' = TasksFor(q) /\ recovered'[q] = recovered[q]
      /\ BeingPushed(q) = 0 /\ BeingPushed(q)' = IF p = q THEN 1 ELSE 0
  BY <1>1 DEF TasksFor, BeingPushed
<1>3. Len(ready'[q]) = Len(ready[q]) + (IF p = q THEN 1 ELSE 0)
  <2>1. CASE p = q
    <3>1. ready'[q] = Append(ready[q], last[q] + 1) /\ ready[q] \in Seq(1..MaxMsgs)
      BY <1>1, <2>1
    <3> QED BY <2>1, <3>1, AppendProperties
  <2>2. CASE p /= q
    BY <1>1, <2>2, ServedTypes
  <2> QED BY <2>1, <2>2
<1>4. Len(ready[q]) <= TasksFor(q) + BeingPushed(q) + recovered[q]
  BY DEF Served
<1>5. Len(ready'[q]) <= TasksFor(q)' + BeingPushed(q)' + recovered'[q]
  <2>1. Len(ready[q]) \in Nat /\ TasksFor(q) \in Nat /\ recovered[q] \in Nat /\ BeingPushed(q) \in {0, 1}
    BY ServedTypes
  <2>2. CASE p = q
    BY <1>2, <1>3, <1>4, <2>1, <2>2
  <2>3. CASE p /= q
    BY <1>2, <1>3, <1>4, <2>1, <2>3
  <2> QED BY <2>2, <2>3
<1> QED BY <1>5 DEF Served

LEMMA PushServed ==
    ASSUME TypeInv, \A p \in Queues : Served(p), PushTask, NEW q \in Queues
    PROVE  Served(q)'
<1>1. /\ io.pc = "push" /\ io'.pc /= "push" /\ io.q \in Queues /\ io.chan \in Channels
      /\ tasks' = Append(tasks, [chan |-> io.chan, q |-> io.q])
      /\ UNCHANGED <<ready, recovered>>
  BY DEF PushTask, messages, IoIdle, TypeInv, Types, InHandler, TypeOK
<1>2. BeingPushed(q) = (IF io.q = q THEN 1 ELSE 0) /\ BeingPushed(q)' = 0
  BY <1>1 DEF BeingPushed
<1>3. TasksFor(q)' = TasksFor(q) + (IF io.q = q THEN 1 ELSE 0)
  <2>1. [chan |-> io.chan, q |-> io.q] \in Task
    BY <1>1 DEF Task
  <2>2. Cardinality(TasksOf(tasks', q)) = Cardinality(TasksOf(tasks, q)) + (IF io.q = q THEN 1 ELSE 0)
    BY <1>1, <2>1, ServedTypes, TasksAppended
  <2>3. TasksFor(q)' = Cardinality(TasksOf(tasks', q))
    BY DEF TasksFor, TasksOf
  <2> QED BY <2>2, <2>3, ServedTypes
<1>4. Len(ready[q]) <= TasksFor(q) + BeingPushed(q) + recovered[q]
  BY DEF Served
<1>5. Len(ready'[q]) <= TasksFor(q)' + BeingPushed(q)' + recovered'[q]
  BY <1>1, <1>2, <1>3, <1>4, ServedTypes
<1> QED BY <1>5 DEF Served

LEMMA PopServed ==
    ASSUME TypeInv, \A p \in Queues : Served(p), Pop, NEW q \in Queues
    PROVE  Served(q)'
<1> DEFINE p == Head(tasks).q
<1>1. /\ tasks /= <<>> /\ tasks' = Tail(tasks) /\ p \in Queues /\ UNCHANGED <<io, recovered>>
  BY PopIs
<1>2. TasksFor(q) = TasksFor(q)' + (IF p = q THEN 1 ELSE 0) /\ TasksFor(q)' \in Nat
  <2>1. tasks \in Seq(Task) /\ TasksFor(q) = Cardinality(TasksOf(tasks, q))
    BY ServedTypes
  <2>2. Cardinality(TasksOf(tasks, q)) = Cardinality(TasksOf(Tail(tasks), q)) + (IF p = q THEN 1 ELSE 0)
    BY <1>1, <2>1, TasksTaken
  <2>3. TasksFor(q)' = Cardinality(TasksOf(tasks', q))
    BY DEF TasksFor, TasksOf
  <2>4. tasks' \in Seq(Task)
    BY PopIs DEF Task
  <2> QED BY <1>1, <2>1, <2>2, <2>3, <2>4, TasksFinite
<1>3. BeingPushed(q)' = BeingPushed(q) /\ recovered'[q] = recovered[q]
  BY <1>1 DEF BeingPushed
<1>4. IF p = q THEN Len(ready'[q]) = 0 \/ Len(ready'[q]) = Len(ready[q]) - 1
      ELSE ready'[q] = ready[q]
  <2>1. CASE ready[p] = <<>>
    BY <2>1, PopIs
  <2>2. CASE ready[p] /= <<>>
    <3>1. ready' = [ready EXCEPT ![p] = Tail(ready[p])] /\ ready \in [Queues -> Seq(1..MaxMsgs)]
      BY <2>2, PopIs DEF TypeInv, Types, TypeOK
    <3> HIDE DEF p
    <3>2. CASE q = p
      <4>1. ready'[q] = Tail(ready[q]) /\ ready[q] \in Seq(1..MaxMsgs) /\ ready[q] /= <<>>
        BY <2>2, <3>1, <3>2
      <4> QED BY <3>2, <4>1, HeadTailProperties
    <3>3. CASE q /= p
      BY <3>1, <3>3
    <3> QED BY <3>2, <3>3
  <2> QED BY <2>1, <2>2
<1>5. Len(ready[q]) <= TasksFor(q) + BeingPushed(q) + recovered[q]
  BY DEF Served
<1> HIDE DEF p
<1>6. Len(ready'[q]) <= TasksFor(q)' + BeingPushed(q)' + recovered'[q]
  <2>1. Len(ready[q]) \in Nat /\ TasksFor(q) \in Nat /\ recovered[q] \in Nat /\ BeingPushed(q) \in {0, 1}
    BY ServedTypes
  <2>2. CASE p = q
    BY <1>2, <1>3, <1>4, <1>5, <2>1, <2>2
  <2>3. CASE p /= q
    BY <1>2, <1>3, <1>4, <1>5, <2>1, <2>3
  <2> QED BY <2>2, <2>3
<1> QED BY <1>6 DEF Served

LEMMA RestartServed ==
    ASSUME TypeInv, Restart, NEW q \in Queues
    PROVE  Served(q)'
<1>1. /\ ready'[q] = StoredInOrder(q) /\ recovered'[q] = Cardinality(Stored(q))
      /\ tasks' = <<>> /\ io'.pc = "idle"
  BY RestartIs
<1>2. Len(ready'[q]) = recovered'[q] /\ recovered'[q] \in Nat
  BY <1>1, StoredIs, DeliveryAssumption
<1>3. BeingPushed(q)' = 0
  BY <1>1 DEF BeingPushed
<1>4. TasksFor(q)' = 0
  <2>1. {i \in DOMAIN tasks' : tasks'[i].q = q} = {}
    BY <1>1
  <2> QED BY <2>1, FS_EmptySet DEF TasksFor
<1>5. Len(ready'[q]) <= TasksFor(q)' + BeingPushed(q)' + recovered'[q]
  BY <1>2, <1>3, <1>4
<1> QED BY <1>5 DEF Served

LEMMA OthersServed ==
    ASSUME TypeInv, \A p \in Queues : Served(p), NEW q \in Queues,
           \/ ChannelStep \/ QueueStep \/ ConsumerStep \/ Choose \/ Callback \/ AutoAck
           \/ (\E c \in Channels, todo \in SUBSET Queues : Publish(c, todo))
           \/ Die \/ WorkerDies \/ UNCHANGED vars
    PROVE  Served(q)'
<1>1. UNCHANGED <<tasks, recovered>>
  BY DEF ChannelStep, QueueStep, ConsumerStep, Choose, Callback, AutoAck, Die, WorkerDies, vars, messages,
         OpenChannel, CloseChannel, Disconnect, Destroy, DeclareQueue, DeleteConsumers, DeleteMessages,
         Publish, Ack, Subscribe, Cancel
<1>2. UNCHANGED io \/ (io.pc /= "push" /\ io'.pc /= "push")
  <2>1. ASSUME NEW c \in Channels, NEW todo, Publish(c, todo) PROVE io.pc /= "push" /\ io'.pc /= "push"
    BY <2>1 DEF Publish, Request
  <2>2. ASSUME NEW c \in Channels, NEW p, DeleteConsumers(c, p) PROVE io.pc /= "push" /\ io'.pc /= "push"
    BY <2>2 DEF DeleteConsumers, Request, IoIdle
  <2>3. ASSUME DeleteMessages PROVE io.pc /= "push" /\ io'.pc /= "push"
    BY <2>3 DEF DeleteMessages, IoIdle
  <2>4. \/ UNCHANGED io \/ DeleteMessages \/ \E c \in Channels, p \in Queues : DeleteConsumers(c, p)
        \/ \E c \in Channels, todo \in SUBSET Queues : Publish(c, todo)
    BY DEF ChannelStep, QueueStep, ConsumerStep, Choose, Callback, AutoAck, Die, WorkerDies, vars,
           OpenChannel, CloseChannel, Disconnect, Destroy, DeclareQueue, Ack, Subscribe, Cancel
  <2> QED BY <2>1, <2>2, <2>3, <2>4
<1>3. ready'[q] = ready[q] \/ ready'[q] = <<>>
  <2>1. CASE UNCHANGED ready
    BY <2>1
  <2>2. CASE DeleteMessages
    BY <2>2 DEF DeleteMessages, TypeInv, Types, TypeOK
  <2>3. UNCHANGED ready \/ DeleteMessages
    BY DEF ChannelStep, QueueStep, ConsumerStep, Choose, Callback, AutoAck, Die, WorkerDies, vars, messages,
           OpenChannel, CloseChannel, Disconnect, Destroy, DeclareQueue, DeleteConsumers,
           Publish, Ack, Subscribe, Cancel
  <2> QED BY <2>1, <2>2, <2>3
<1>4. TasksFor(q)' = TasksFor(q) /\ BeingPushed(q)' = BeingPushed(q) /\ recovered'[q] = recovered[q]
  BY <1>1, <1>2 DEF TasksFor, BeingPushed
<1>5. Len(ready[q]) <= TasksFor(q) + BeingPushed(q) + recovered[q]
  BY DEF Served
<1>6. Len(ready'[q]) = Len(ready[q]) \/ Len(ready'[q]) = 0
  BY <1>3
<1>7. Len(ready'[q]) <= TasksFor(q)' + BeingPushed(q)' + recovered'[q]
  BY <1>4, <1>5, <1>6, ServedTypes
<1> QED BY <1>7 DEF Served

\* NoStrandedReady: for every message that waits in a queue there is a task that will take
\* one out, except for as many as the last restart found: basic_publish pushes one task for
\* each message, and deleting, cancelling and closing never take one away.
THEOREM EveryMessageHasATask == Spec => []NoStrandedReady
<1>1. Init => NoStrandedReady
  <2> SUFFICES ASSUME Init, NEW q \in Queues PROVE Served(q)
    BY DEF NoStrandedReady, Served
  <2>1. TypeInv /\ ready[q] = <<>>
    BY InitTypes DEF Init
  <2> QED BY <2>1, ServedTypes DEF Served
<1>2. TypeInv /\ NoStrandedReady /\ [Next]_vars => NoStrandedReady'
  <2> SUFFICES ASSUME TypeInv, \A p \in Queues : Served(p), [Next]_vars, NEW q \in Queues PROVE Served(q)'
    BY DEF NoStrandedReady, Served
  <2> QED BY StepCases, StepTypes, OthersServed, InsertServed, PushServed, PopServed, RestartServed
          DEF PublishStep
<1> QED BY <1>1, <1>2, AlwaysTypes, PTL DEF Spec

-----------------------------------------------------------------------------
(* The consumers of a queue take turns *)

LEMMA Division ==
    ASSUME NEW L \in Int, L > 0, NEW a \in Int
    PROVE  a = (a \div L) * L + (a % L)
OBVIOUS

\* Numbers less than L apart leave different remainders.
LEMMA Remainders ==
    ASSUME NEW L \in Nat, L > 0, NEW a \in Nat, NEW b \in Nat, a < b, b - a < L
    PROVE  a % L /= b % L
<1>1. /\ a \div L \in Int /\ a % L \in 0..(L - 1)
      /\ b \div L \in Int /\ b % L \in 0..(L - 1)
  OBVIOUS
<1>2. /\ a = (a \div L) * L + (a % L) /\ b = (b \div L) * L + (b % L)
  BY Division
<1> DEFINE x == a \div L
           y == b \div L
           r == a % L
<1> HIDE DEF x, y, r
<1>3. ASSUME a % L = b % L PROVE FALSE
  <2>1. x \in Int /\ y \in Int /\ r \in Int /\ a = x * L + r /\ b = y * L + r
    BY <1>1, <1>3, <1>2 DEF x, y, r
  <2>2. PICK d \in Int : d = y - x /\ y = x + d
    BY <2>1
  <2>3. (x + d) * L = x * L + d * L
    BY <2>1, <2>2
  <2>4. b - a = d * L
    BY <2>1, <2>2, <2>3
  <2>5. d * L >= L \/ d * L <= 0
    <3>1. CASE d >= 1
      <4>1. PICK e \in Nat : d = e + 1
        BY <3>1
      <4>2. (e + 1) * L = e * L + L /\ e * L >= 0
        OBVIOUS
      <4> QED BY <4>1, <4>2
    <3>2. CASE d <= 0
      BY <3>2
    <3> QED BY <2>2, <3>1, <3>2
  <2> QED BY <2>2, <2>4, <2>5
<1> QED BY <1>3

\* What a step other than a choice may do to the list of a queue.
ListKept(q) == consumers'[q] = consumers[q] /\ rr'[q] = rr[q] /\ turns'[q] = turns[q] /\ (q \in lists => q \in lists')
ListEmptied(q) == consumers'[q] = <<>> /\ rr'[q] \in Nat /\ turns'[q] = <<>>
ListShortened(q) ==
    /\ q \in lists /\ \E tags : consumers'[q] = WithoutTags(consumers[q], tags)
    /\ turns'[q] = <<>> /\ rr'[q] = rr[q] /\ lists' = lists
ListExtended(q) ==
    /\ \E c \in Channels, auto \in BOOLEAN :
         /\ consumers'[q] = Append(consumers[q], [tag |-> TagOf[c], chan |-> c, auto |-> auto])
         /\ \A i \in DOMAIN consumers[q] : consumers[q][i].tag /= TagOf[c]
    /\ q \in lists /\ turns'[q] = <<>> /\ rr'[q] = rr[q] /\ lists' = lists

LEMMA DestroyLists ==
    ASSUME TypeInv, NEW closed, Destroy(closed), NEW q \in Queues
    PROVE  ListKept(q) \/ ListShortened(q)
<1>1. /\ consumers'[q] = WithoutChannels(closed, q) /\ rr' = rr /\ lists' = lists
      /\ turns'[q] = IF consumers'[q] /= consumers[q] THEN <<>> ELSE turns[q]
  BY DEF Destroy, queues, Changed
<1>2. CASE consumers'[q] = consumers[q]
  BY <1>1, <1>2 DEF ListKept
<1>3. CASE consumers'[q] /= consumers[q]
  <2>1. q \in lists /\ \E tags : consumers'[q] = WithoutTags(consumers[q], tags)
    BY <1>1, <1>3 DEF WithoutChannels
  <2> QED BY <1>1, <1>3, <2>1 DEF ListShortened
<1> QED BY <1>2, <1>3

LEMMA ChannelLists ==
    ASSUME TypeInv, ChannelStep, NEW q \in Queues
    PROVE  ListKept(q) \/ ListShortened(q)
<1>1. ASSUME NEW c \in Channels, OpenChannel(c) PROVE ListKept(q)
  BY <1>1 DEF OpenChannel, queues, subscriptions, ListKept
<1>2. ASSUME NEW c \in Channels, CloseChannel(c) PROVE ListKept(q) \/ ListShortened(q)
  BY <1>2, DestroyLists DEF CloseChannel
<1>3. ASSUME NEW k \in Connections, Disconnect(k) PROVE ListKept(q) \/ ListShortened(q)
  BY <1>3, DestroyLists DEF Disconnect
<1> QED BY <1>1, <1>2, <1>3 DEF ChannelStep

LEMMA QueueLists ==
    ASSUME TypeInv, QueueStep, NEW q \in Queues
    PROVE  ListKept(q) \/ ListEmptied(q)
<1>1. ASSUME NEW c \in Channels, NEW p \in Queues, DeclareQueue(c, p) PROVE ListKept(q)
  BY <1>1 DEF DeclareQueue, subscriptions, ListKept
<1>2. ASSUME NEW c \in Channels, NEW p \in Queues, DeleteConsumers(c, p) PROVE ListKept(q) \/ ListEmptied(q)
  <2>1. /\ lists' = lists \ {p} /\ consumers' = [consumers EXCEPT ![p] = <<>>]
        /\ rr' = [rr EXCEPT ![p] = 0] /\ turns' = [turns EXCEPT ![p] = <<>>]
        /\ DOMAIN consumers = Queues /\ DOMAIN rr = Queues /\ DOMAIN turns = Queues
    BY <1>2 DEF DeleteConsumers, TypeInv, Types, TypeOK
  <2>2. CASE p = q
    BY <2>1, <2>2 DEF ListEmptied
  <2>3. CASE p /= q
    BY <2>1, <2>3 DEF ListKept
  <2> QED BY <2>2, <2>3
<1>3. ASSUME DeleteMessages PROVE ListKept(q)
  BY <1>3 DEF DeleteMessages, subscriptions, ListKept
<1> QED BY <1>1, <1>2, <1>3 DEF QueueStep

LEMMA ConsumerLists ==
    ASSUME TypeInv, ConsumerStep, NEW q \in Queues
    PROVE  ListKept(q) \/ ListShortened(q) \/ ListExtended(q)
<1>1. ASSUME NEW c \in Channels, NEW p \in Queues, NEW n \in 1..MaxMsgs, Ack(c, p, n) PROVE ListKept(q)
  BY <1>1 DEF Ack, queues, subscriptions, ListKept
<1>2. ASSUME NEW c \in Channels, NEW p \in Queues, NEW auto \in BOOLEAN, Subscribe(c, p, auto)
      PROVE  ListKept(q) \/ ListExtended(q)
  <2> DEFINE free == \A i \in DOMAIN consumers[p] : consumers[p][i].tag /= TagOf[c]
             new == [tag |-> TagOf[c], chan |-> c, auto |-> auto]
  <2>1. /\ consumers' = [consumers EXCEPT ![p] = IF free THEN Append(consumers[p], new) ELSE consumers[p]]
        /\ turns' = [turns EXCEPT ![p] = IF consumers'[p] /= consumers[p] THEN <<>> ELSE turns[p]]
        /\ UNCHANGED <<lists, rr>> /\ p \in stores /\ io.pc = "idle"
        /\ DOMAIN consumers = Queues /\ DOMAIN turns = Queues
    BY <1>2 DEF Subscribe, Changed, Request, queues, TypeInv, Types, TypeOK
  <2>2. p \in lists
    BY <2>1 DEF TypeInv, Existence
  <2>3. CASE p = q /\ consumers'[q] /= consumers[q]
    <3>1. consumers'[q] = Append(consumers[q], new) /\ free /\ turns'[q] = <<>>
      BY <2>1, <2>3
    <3> QED BY <2>1, <2>2, <2>3, <3>1 DEF ListExtended
  <2>4. CASE ~ (p = q /\ consumers'[q] /= consumers[q])
    <3>1. consumers'[q] = consumers[q] /\ turns'[q] = turns[q]
      BY <2>1, <2>4
    <3> QED BY <2>1, <3>1 DEF ListKept
  <2> QED BY <2>3, <2>4
<1>3. ASSUME NEW c \in Channels, Cancel(c) PROVE ListKept(q) \/ ListShortened(q)
  <2> DEFINE p == busy[c]
  <2>1. /\ consumers' = IF p \in lists THEN [consumers EXCEPT ![p] = WithoutTags(consumers[p], {TagOf[c]})]
                        ELSE consumers
        /\ turns' = [turns EXCEPT ![p] = IF consumers'[p] /= consumers[p] THEN <<>> ELSE turns[p]]
        /\ UNCHANGED <<lists, rr>>
        /\ DOMAIN consumers = Queues /\ DOMAIN turns = Queues
    BY <1>3 DEF Cancel, Changed, queues, TypeInv, Types, TypeOK
  <2>2. CASE p = q /\ consumers'[q] /= consumers[q]
    <3>1. p \in lists /\ consumers'[q] = WithoutTags(consumers[q], {TagOf[c]}) /\ turns'[q] = <<>>
      BY <2>1, <2>2
    <3> QED BY <2>1, <2>2, <3>1 DEF ListShortened
  <2>3. CASE ~ (p = q /\ consumers'[q] /= consumers[q])
    <3>1. consumers'[q] = consumers[q] /\ turns'[q] = turns[q]
      BY <2>1, <2>3
    <3> QED BY <2>1, <3>1 DEF ListKept
  <2> QED BY <2>2, <2>3
<1> QED BY <1>1, <1>2, <1>3 DEF ConsumerStep

LEMMA OtherLists ==
    ASSUME TypeInv, NEW q \in Queues,
           PublishStep \/ Pop \/ Callback \/ AutoAck \/ Restart \/ Die \/ WorkerDies \/ UNCHANGED vars
    PROVE  ListKept(q) \/ ListEmptied(q)
<1>1. CASE Restart
  BY <1>1, RestartIs DEF ListEmptied
<1>2. CASE PublishStep
  BY <1>2 DEF PublishStep, Publish, InsertMessage, PushTask, queues, subscriptions, ListKept
<1>3. CASE Pop \/ Callback \/ AutoAck \/ Die \/ WorkerDies \/ UNCHANGED vars
  BY <1>3 DEF Pop, Callback, AutoAck, Die, WorkerDies, vars, queues, subscriptions, ListKept
<1> QED BY <1>1, <1>2, <1>3

LEMMA StepLists ==
    ASSUME TypeInv, [Next]_vars, NEW q \in Queues
    PROVE  Choose \/ ListKept(q) \/ ListEmptied(q) \/ ListShortened(q) \/ ListExtended(q)
BY StepCases, ChannelLists, QueueLists, ConsumerLists, OtherLists

TagsInv == TypeInv /\ Tagged

LEMMA StepTagged ==
    ASSUME TagsInv, [Next]_vars
    PROVE  Tagged'
<1> SUFFICES ASSUME NEW q \in Queues
             PROVE  /\ UniqueTags(consumers'[q])
                    /\ \A i \in DOMAIN consumers'[q] : consumers'[q][i].tag = TagOf[consumers'[q][i].chan]
                    /\ q \notin lists' => consumers'[q] = <<>>
  BY DEF Tagged, UniqueTags
<1>1. /\ UniqueTags(consumers[q])
      /\ \A i \in DOMAIN consumers[q] : consumers[q][i].tag = TagOf[consumers[q][i].chan]
      /\ q \notin lists => consumers[q] = <<>>
      /\ consumers[q] \in Seq(Consumer) /\ TypeInv
  BY DEF TagsInv, Tagged, TypeInv, Types, TypeOK
<1>2. CASE Choose
  BY <1>1, <1>2 DEF Choose, queues, subscriptions
<1>3. CASE ListKept(q)
  BY <1>1, <1>3 DEF ListKept
<1>4. CASE ListEmptied(q)
  BY <1>4 DEF ListEmptied, UniqueTags
<1>5. CASE ListShortened(q)
  <2>1. PICK tags : consumers'[q] = WithoutTags(consumers[q], tags)
    BY <1>5 DEF ListShortened
  <2>2. UniqueTags(consumers'[q]) /\ \A i \in DOMAIN consumers'[q] : \E j \in DOMAIN consumers[q] :
          consumers'[q][i] = consumers[q][j]
    BY <1>1, <2>1, WithoutTagsIs
  <2> QED BY <1>1, <1>5, <2>2 DEF ListShortened
<1>6. CASE ListExtended(q)
  <2>1. PICK c \in Channels, auto \in BOOLEAN :
          /\ consumers'[q] = Append(consumers[q], [tag |-> TagOf[c], chan |-> c, auto |-> auto])
          /\ \A i \in DOMAIN consumers[q] : consumers[q][i].tag /= TagOf[c]
    BY <1>6 DEF ListExtended
  <2> DEFINE new == [tag |-> TagOf[c], chan |-> c, auto |-> auto]
  <2>2. new \in Consumer /\ new.tag = TagOf[c] /\ new.chan = c
    BY DeliveryAssumption DEF Consumer
  <2>3. consumers'[q] = Append(consumers[q], new)
    BY <2>1
  <2> HIDE DEF new
  <2>4. /\ DOMAIN consumers[q] = 1..Len(consumers[q]) /\ Len(consumers[q]) \in Nat
        /\ DOMAIN consumers'[q] = 1..(Len(consumers[q]) + 1)
        /\ \A i \in 1..Len(consumers[q]) : consumers'[q][i] = consumers[q][i]
        /\ consumers'[q][Len(consumers[q]) + 1] = new
    BY <1>1, <2>2, <2>3, AppendProperties, LenProperties
  <2>5. \A i \in DOMAIN consumers'[q] : consumers'[q][i].tag = TagOf[consumers'[q][i].chan]
    <3> SUFFICES ASSUME NEW i \in DOMAIN consumers'[q]
                 PROVE  consumers'[q][i].tag = TagOf[consumers'[q][i].chan]
      OBVIOUS
    <3>1. CASE i \in DOMAIN consumers[q]
      BY <1>1, <2>4, <3>1
    <3>2. CASE i = Len(consumers[q]) + 1
      BY <2>2, <2>4, <3>2
    <3> QED BY <2>4, <3>1, <3>2
  <2>6. UniqueTags(consumers'[q])
    <3> SUFFICES ASSUME NEW i \in DOMAIN consumers'[q], NEW j \in DOMAIN consumers'[q],
                        consumers'[q][i].tag = consumers'[q][j].tag
                 PROVE  i = j
      BY DEF UniqueTags
    <3>1. CASE i \in DOMAIN consumers[q] /\ j \in DOMAIN consumers[q]
      BY <1>1, <2>4, <3>1 DEF UniqueTags
    <3>2. CASE i = Len(consumers[q]) + 1
      BY <2>1, <2>2, <2>4, <3>2
    <3>3. CASE j = Len(consumers[q]) + 1
      BY <2>1, <2>2, <2>4, <3>3
    <3> QED BY <2>4, <3>1, <3>2, <3>3
  <2> QED BY <1>6, <2>5, <2>6 DEF ListExtended
<1> QED BY <1>1, <1>2, <1>3, <1>4, <1>5, <1>6, StepLists

\* queue_consumer::create: in every reachable state no tag is taken twice in a queue.
LEMMA AlwaysTags == Spec => []TagsInv
<1>1. Init => Tagged
  BY DEF Init, Tagged, UniqueTags
<1>2. TagsInv /\ [Next]_vars => TagsInv'
  BY StepTagged, StepTypes DEF TagsInv
<1> QED BY <1>1, <1>2, InitTypes, PTL DEF Spec, TagsInv

\* The types Round is about.
LEMMA RoundTypes ==
    ASSUME TypeInv, NEW q \in Queues
    PROVE  /\ consumers[q] \in Seq(Consumer) /\ rr[q] \in Nat /\ turns[q] \in Seq(Channels)
           /\ Len(turns[q]) \in Nat /\ DOMAIN turns[q] = 1..Len(turns[q])
           /\ Len(consumers[q]) \in Nat /\ DOMAIN consumers[q] = 1..Len(consumers[q])
           /\ consumers[q] /= <<>> => Len(consumers[q]) > 0
<1>1. consumers[q] \in Seq(Consumer) /\ rr[q] \in Nat /\ turns[q] \in Seq(Channels)
  BY DEF TypeInv, Types, TypeOK
<1> QED BY <1>1, EmptySeq, LenProperties

\* Choosing adds the consumer __rr_seq stands at.
LEMMA ChooseRound ==
    ASSUME TypeInv, \A p \in Queues : Round(p), Choose, NEW q \in Queues
    PROVE  Round(q)'
<1> DEFINE p == wk.q
           idx == (rr[p] % Len(consumers[p])) + 1
<1>1. p \in Queues /\ consumers' = consumers
  BY DEF Choose, subscriptions, TypeInv, Types
<1>2. CASE p \notin lists \/ consumers[p] = <<>>
  <2>1. UNCHANGED <<consumers, rr, turns>>
    BY <1>2 DEF Choose, subscriptions
  <2> QED BY <2>1 DEF Round
<1>3. CASE ~ (p \notin lists \/ consumers[p] = <<>>)
  <2>1. /\ rr' = [rr EXCEPT ![p] = rr[p] + 1] /\ consumers[p] /= <<>>
        /\ turns' = [turns EXCEPT ![p] = Append(turns[p], consumers[p][idx].chan)]
    BY <1>3 DEF Choose
  <2>2. consumers[p][idx].chan \in Channels
    BY <1>1, <2>1, ChoiceIs DEF Consumer
  <2>3. DOMAIN rr = Queues /\ DOMAIN turns = Queues
    BY DEF TypeInv, Types, TypeOK
  <2>4. CASE q /= p
    <3>1. rr'[q] = rr[q] /\ turns'[q] = turns[q] /\ consumers'[q] = consumers[q]
      BY <1>1, <2>1, <2>3, <2>4
    <3> QED BY <3>1 DEF Round
  <2>5. CASE q = p
    <3> DEFINE L == Len(consumers[q])
               N == Len(turns[q])
    <3>1. /\ rr'[q] = rr[q] + 1 /\ consumers'[q] = consumers[q]
          /\ turns'[q] = Append(turns[q], consumers[q][(rr[q] % L) + 1].chan)
      BY <1>1, <2>1, <2>3, <2>5
    <3>2. turns[q] \in Seq(Channels) /\ consumers[q][(rr[q] % L) + 1].chan \in Channels
      BY <2>2, <2>5, RoundTypes
    <3>3. /\ Len(turns'[q]) = N + 1 /\ DOMAIN turns'[q] = 1..(N + 1) /\ DOMAIN turns[q] = 1..N
          /\ \A i \in 1..N : turns'[q][i] = turns[q][i]
          /\ turns'[q][N + 1] = consumers[q][(rr[q] % L) + 1].chan
      BY <3>1, <3>2, AppendProperties, LenProperties
    <3>4. N \in Nat /\ rr[q] \in Nat /\ N <= rr[q] /\ consumers'[q] /= <<>>
      BY <2>1, <2>5, <3>1, RoundTypes DEF Round
    <3>5. ASSUME NEW i \in DOMAIN turns'[q]
          PROVE  turns'[q][i] = consumers'[q][((rr'[q] - Len(turns'[q]) + i - 1) % Len(consumers'[q])) + 1].chan
      <4>1. rr'[q] - Len(turns'[q]) + i - 1 = rr[q] - N + i - 1 /\ Len(consumers'[q]) = L
        BY <3>1, <3>3, <3>4
      <4>2. CASE i \in 1..N
        <5>1. turns[q][i] = consumers[q][((rr[q] - N + i - 1) % L) + 1].chan
          BY <3>3, <4>2 DEF Round
        <5> QED BY <3>1, <3>3, <4>1, <4>2, <5>1
      <4>3. CASE i = N + 1
        <5>1. rr[q] - N + i - 1 = rr[q]
          BY <3>4, <4>3
        <5> QED BY <3>1, <3>3, <4>1, <4>3, <5>1
      <4> QED BY <3>3, <3>4, <4>2, <4>3
    <3>6. Len(turns'[q]) <= rr'[q]
      BY <3>1, <3>3, <3>4
    <3> QED BY <3>4, <3>5, <3>6 DEF Round
  <2> QED BY <2>4, <2>5
<1> QED BY <1>2, <1>3

LEMMA StepRound ==
    ASSUME TypeInv, \A p \in Queues : Round(p), [Next]_vars, NEW q \in Queues
    PROVE  Round(q)'
<1>1. CASE Choose
  BY <1>1, ChooseRound
<1>2. CASE ListKept(q)
  BY <1>2 DEF ListKept, Round
<1>3. CASE turns'[q] = <<>> /\ rr'[q] \in Nat
  BY <1>3 DEF Round
<1>4. (turns'[q] = <<>> /\ rr'[q] \in Nat) \/ ListKept(q) \/ Choose
  BY StepLists, RoundTypes DEF ListEmptied, ListShortened, ListExtended
<1> QED BY <1>1, <1>2, <1>3, <1>4

RoundInv == \A q \in Queues : Round(q)

LEMMA AlwaysRound == Spec => []RoundInv
<1>1. Init => RoundInv
  BY DEF Init, RoundInv, Round
<1>2. TypeInv /\ RoundInv /\ [Next]_vars => RoundInv'
  BY StepRound DEF RoundInv
<1> QED BY <1>1, <1>2, AlwaysTypes, PTL DEF Spec

\* Consumers of different channels are at different places, and turns go round the places.
LEMMA TurnsDiffer ==
    ASSUME TagsInv, RoundInv
    PROVE  RoundRobin
<1> SUFFICES ASSUME NEW q \in Queues, NEW i \in DOMAIN turns[q], NEW j \in DOMAIN turns[q],
                    i < j, j - i < Len(consumers[q])
             PROVE  turns[q][i] /= turns[q][j]
  BY DEF RoundRobin
<1> DEFINE L == Len(consumers[q])
           a == rr[q] - Len(turns[q]) + i - 1
           b == rr[q] - Len(turns[q]) + j - 1
<1>1. TypeInv /\ Round(q)
  BY DEF TagsInv, RoundInv
<1>2. /\ consumers[q] /= <<>>
      /\ turns[q][i] = consumers[q][(a % L) + 1].chan /\ turns[q][j] = consumers[q][(b % L) + 1].chan
  BY <1>1 DEF Round
<1>3. L \in Nat /\ L > 0 /\ DOMAIN consumers[q] = 1..L
  BY <1>1, <1>2, RoundTypes
<1>4. a \in Nat /\ b \in Nat /\ a < b /\ b - a < L
  <2>1. /\ rr[q] \in Nat /\ Len(turns[q]) \in Nat /\ DOMAIN turns[q] = 1..Len(turns[q])
        /\ Len(turns[q]) <= rr[q]
    BY <1>1, RoundTypes DEF Round
  <2>2. i \in Nat /\ j \in Nat /\ i >= 1 /\ j >= 1
    BY <2>1
  <2> QED BY ONLY <2>1, <2>2, i < j, j - i < Len(consumers[q])
<1> HIDE DEF a, b, L
<1>5. a % L /= b % L
  BY <1>3, <1>4, Remainders
<1>6. (a % L) + 1 \in 1..L /\ (b % L) + 1 \in 1..L /\ (a % L) + 1 /= (b % L) + 1
  BY <1>3, <1>4, <1>5
<1>7. consumers[q][(a % L) + 1].tag /= consumers[q][(b % L) + 1].tag
  BY <1>3, <1>6 DEF TagsInv, Tagged, UniqueTags
<1>8. /\ consumers[q][(a % L) + 1].tag = TagOf[consumers[q][(a % L) + 1].chan]
      /\ consumers[q][(b % L) + 1].tag = TagOf[consumers[q][(b % L) + 1].chan]
  BY <1>3, <1>6 DEF TagsInv, Tagged
<1> QED BY <1>2, <1>7, <1>8

\* RoundRobin: as long as the consumers of a queue stay the same, none is chosen a second time
\* before every other one has been chosen, whatever __rr_seq was when the list last changed:
\* rr_choose only ever adds one to it, and create() keeps the tags of a queue apart.
THEOREM ConsumersTakeTurns == Spec => []RoundRobin
<1>1. TagsInv /\ RoundInv => RoundRobin
  BY TurnsDiffer
<1> QED BY <1>1, AlwaysTags, AlwaysRound, PTL

-----------------------------------------------------------------------------
(* The consumers of a queue are its subscribers *)

\* The clients' channels have tags of their own.
TagsDiffer == \A c, d \in Channels : TagOf[c] = TagOf[d] => c = d

TagsOf(closed) == {TagOf[c] : c \in closed}

SubscribedInv == TagsInv /\ SubscribersBusy /\ \A q \in Queues : Subscribed(q)

\* A list without some tags is the list without the channels that have them.
LEMMA ChannelsLeft ==
    ASSUME SubscribedInv, TagsDiffer, NEW q \in Queues, NEW closed \in SUBSET Channels,
           NEW rest, rest = WithoutTags(consumers[q], TagsOf(closed))
    PROVE  /\ \A i \in DOMAIN rest : rest[i].chan \notin closed /\ \E j \in DOMAIN consumers[q] :
                 rest[i].chan = consumers[q][j].chan
           /\ \A j \in DOMAIN consumers[q] : consumers[q][j].chan \notin closed =>
                 \E i \in DOMAIN rest : rest[i].chan = consumers[q][j].chan
<1> DEFINE tags == TagsOf(closed)
<1>1. /\ UniqueTags(consumers[q]) /\ consumers[q] \in Seq(Consumer) /\ Listed(q)
      /\ \A i \in DOMAIN consumers[q] : consumers[q][i].tag = TagOf[consumers[q][i].chan]
  BY DEF SubscribedInv, TagsInv, Tagged, Subscribed, TypeInv, Types, TypeOK
<1>2. /\ \A i \in DOMAIN rest : \E j \in DOMAIN consumers[q] : rest[i] = consumers[q][j]
      /\ \A i \in DOMAIN rest : rest[i].tag \notin tags
      /\ \A j \in DOMAIN consumers[q] :
           consumers[q][j].tag \notin tags => \E i \in DOMAIN rest : rest[i] = consumers[q][j]
  <2>1. rest = WithoutTags(consumers[q], tags)
    OBVIOUS
  <2> HIDE DEF tags
  <2> QED BY ONLY <1>1, <2>1, WithoutTagsIs
<1>3. \A j \in DOMAIN consumers[q] : consumers[q][j].tag \in tags <=> consumers[q][j].chan \in closed
  BY <1>1 DEF TagsDiffer, Listed, TagsOf
<1> HIDE DEF tags
<1>4. \A i \in DOMAIN rest : rest[i].chan \notin closed /\ \E j \in DOMAIN consumers[q] :
        rest[i].chan = consumers[q][j].chan
  BY <1>2, <1>3
<1>5. \A j \in DOMAIN consumers[q] : consumers[q][j].chan \notin closed =>
        \E i \in DOMAIN rest : rest[i].chan = consumers[q][j].chan
  BY <1>2, <1>3
<1> QED BY <1>4, <1>5

\* What Subscribed(q)' needs of a step.
LEMMA SubscribedBy ==
    ASSUME NEW q \in Queues,
           \A i \in DOMAIN consumers'[q] :
               LET c == consumers'[q][i].chan
               IN c \in Channels /\ c \in subs' /\ own'[c] = q /\ busy'[c] = q,
           \A c \in subs' : busy'[c] = q => \E i \in DOMAIN consumers'[q] : consumers'[q][i].chan = c
    PROVE  Subscribed(q)'
BY DEF Subscribed, Listed

LEMMA DestroySubscribed ==
    ASSUME SubscribedInv, TagsDiffer, NEW closed \in SUBSET Channels, Destroy(closed), NEW q \in Queues
    PROVE  Subscribed(q)'
<1>1. /\ consumers'[q] = WithoutChannels(closed, q) /\ subs' = subs \ closed
      /\ own' = [c \in Channels |-> IF c \in closed THEN NoQueue ELSE own[c]]
      /\ busy' = [c \in Channels |-> IF c \in closed THEN NoQueue ELSE busy[c]]
  BY DEF Destroy
<1>2. Listed(q) /\ \A c \in subs : busy[c] = q => \E i \in DOMAIN consumers[q] : consumers[q][i].chan = c
  BY DEF SubscribedInv, Subscribed
<1>3. \A c \in subs' : c \in Channels /\ c \notin closed /\ c \in subs /\ busy'[c] = busy[c]
  BY <1>1 DEF SubscribedInv, SubscribersBusy
<1>4. CASE q \in lists
  <2> DEFINE mine == {d \in closed : own[d] = q}
  <2>1. consumers'[q] = WithoutTags(consumers[q], TagsOf(mine))
    BY <1>1, <1>4 DEF WithoutChannels, TagsOf
  <2>2. /\ \A i \in DOMAIN consumers'[q] : consumers'[q][i].chan \notin mine /\ \E j \in DOMAIN consumers[q] :
               consumers'[q][i].chan = consumers[q][j].chan
        /\ \A j \in DOMAIN consumers[q] : consumers[q][j].chan \notin mine =>
               \E i \in DOMAIN consumers'[q] : consumers'[q][i].chan = consumers[q][j].chan
    <3>1. mine \in SUBSET Channels
      OBVIOUS
    <3> HIDE DEF mine
    <3> QED BY ONLY <2>1, <3>1, SubscribedInv, TagsDiffer, q \in Queues, ChannelsLeft
  <2>3. ASSUME NEW i \in DOMAIN consumers'[q]
        PROVE  LET c == consumers'[q][i].chan
               IN c \in Channels /\ c \in subs' /\ own'[c] = q /\ busy'[c] = q
    <3> DEFINE c == consumers'[q][i].chan
    <3>1. PICK j \in DOMAIN consumers[q] : c = consumers[q][j].chan
      BY <2>2
    <3>2. c \in Channels /\ c \in subs /\ own[c] = q /\ busy[c] = q /\ c \notin mine
      BY <1>2, <2>2, <3>1 DEF Listed
    <3> HIDE DEF c
    <3>3. c \in Channels /\ c \in subs' /\ own'[c] = q /\ busy'[c] = q
      BY <1>1, <3>2
    <3> QED BY <3>3 DEF c
  <2>4. ASSUME NEW c \in subs', busy'[c] = q
        PROVE  \E i \in DOMAIN consumers'[q] : consumers'[q][i].chan = c
    <3>1. PICK j \in DOMAIN consumers[q] : consumers[q][j].chan = c
      BY <1>2, <1>3, <2>4
    <3> QED BY <1>3, <2>2, <3>1
  <2> QED BY <2>3, <2>4, SubscribedBy
<1>5. CASE q \notin lists
  <2>1. consumers'[q] = <<>> /\ consumers[q] = <<>>
    BY <1>1, <1>5 DEF WithoutChannels, SubscribedInv, TagsInv, Tagged
  <2>2. \A c \in subs' : busy'[c] /= q
    BY <1>2, <1>3, <2>1
  <2> QED BY <2>1, <2>2, SubscribedBy
<1> QED BY <1>4, <1>5

LEMMA SubscribeSubscribed ==
    ASSUME SubscribedInv, TagsDiffer, NEW c \in Channels, NEW p \in Queues, NEW auto \in BOOLEAN,
           Subscribe(c, p, auto), NEW q \in Queues
    PROVE  Subscribed(q)'
<1> DEFINE free == \A i \in DOMAIN consumers[p] : consumers[p][i].tag /= TagOf[c]
           new == [tag |-> TagOf[c], chan |-> c, auto |-> auto]
<1>1. /\ busy[c] = NoQueue /\ subs' = subs \union {c} /\ busy' = [busy EXCEPT ![c] = p]
      /\ own' = [own EXCEPT ![c] = IF free THEN p ELSE NoQueue]
      /\ consumers' = [consumers EXCEPT ![p] = IF free THEN Append(consumers[p], new) ELSE consumers[p]]
      /\ consumers \in [Queues -> Seq(Consumer)] /\ DOMAIN own = Channels /\ DOMAIN busy = Channels
      /\ NoQueue \notin Queues
  BY DeliveryAssumption DEF Subscribe, SubscribedInv, TagsInv, TypeInv, Types, TypeOK
<1>2. \A r \in Queues : /\ Listed(r)
                        /\ \A d \in subs : busy[d] = r => \E i \in DOMAIN consumers[r] : consumers[r][i].chan = d
                        /\ \A i \in DOMAIN consumers[r] :
                             consumers[r][i].tag = TagOf[consumers[r][i].chan] /\ consumers[r][i].chan /= c
  <2> SUFFICES ASSUME NEW r \in Queues
               PROVE  /\ Listed(r)
                      /\ \A d \in subs : busy[d] = r => \E i \in DOMAIN consumers[r] : consumers[r][i].chan = d
                      /\ \A i \in DOMAIN consumers[r] :
                           consumers[r][i].tag = TagOf[consumers[r][i].chan] /\ consumers[r][i].chan /= c
    OBVIOUS
  <2>1. Subscribed(r) /\ \A i \in DOMAIN consumers[r] : consumers[r][i].tag = TagOf[consumers[r][i].chan]
    BY DEF SubscribedInv, TagsInv, Tagged
  <2> QED BY <1>1, <2>1 DEF Subscribed, Listed
<1>3. free
  BY <1>2 DEF TagsDiffer, Listed
<1>4. new.chan = c /\ new \in Consumer
  BY DeliveryAssumption DEF Consumer
<1>5. c \notin subs
  BY <1>1 DEF SubscribedInv, SubscribersBusy
<1> HIDE DEF free, new
<1>6. CASE q /= p
  <2>1. consumers'[q] = consumers[q]
    BY <1>1, <1>6
  <2>2. \A i \in DOMAIN consumers[q] :
          LET d == consumers[q][i].chan
          IN d \in Channels /\ d \in subs' /\ own'[d] = q /\ busy'[d] = q
    BY <1>1, <1>2 DEF Listed
  <2>3. ASSUME NEW d \in subs', busy'[d] = q PROVE \E i \in DOMAIN consumers[q] : consumers[q][i].chan = d
    <3>1. d /= c /\ d \in subs /\ busy[d] = q
      BY <1>1, <1>6, <2>3 DEF SubscribedInv, SubscribersBusy
    <3> QED BY <1>2, <3>1
  <2> QED BY <2>1, <2>2, <2>3, SubscribedBy
<1>7. CASE q = p
  <2>1. consumers'[q] = Append(consumers[q], new) /\ own'[c] = q /\ busy'[c] = q /\ c \in subs'
    BY <1>1, <1>3, <1>7
  <2>2. /\ DOMAIN consumers[q] = 1..Len(consumers[q]) /\ Len(consumers[q]) \in Nat
        /\ DOMAIN consumers'[q] = 1..(Len(consumers[q]) + 1)
        /\ \A i \in 1..Len(consumers[q]) : consumers'[q][i] = consumers[q][i]
        /\ consumers'[q][Len(consumers[q]) + 1] = new
    BY <1>1, <1>4, <2>1, AppendProperties, LenProperties
  <2>3. ASSUME NEW i \in DOMAIN consumers'[q]
        PROVE  LET d == consumers'[q][i].chan
               IN d \in Channels /\ d \in subs' /\ own'[d] = q /\ busy'[d] = q
    <3>1. CASE i \in DOMAIN consumers[q]
      <4>1. consumers'[q][i] = consumers[q][i]
        BY <2>2, <3>1
      <4>2. /\ consumers[q][i].chan \in Channels /\ consumers[q][i].chan \in subs
            /\ own[consumers[q][i].chan] = q /\ busy[consumers[q][i].chan] = q /\ consumers[q][i].chan /= c
        BY <1>2, <3>1 DEF Listed
      <4> QED BY <1>1, <4>1, <4>2
    <3>2. CASE i = Len(consumers[q]) + 1
      BY <1>4, <2>1, <2>2, <3>2
    <3> QED BY <2>2, <3>1, <3>2
  <2>4. ASSUME NEW d \in subs', busy'[d] = q PROVE \E i \in DOMAIN consumers'[q] : consumers'[q][i].chan = d
    <3>1. CASE d = c
      BY <1>4, <2>2, <3>1
    <3>2. CASE d /= c
      <4>1. d \in subs /\ busy[d] = q
        BY <1>1, <2>4, <3>2 DEF SubscribedInv, SubscribersBusy
      <4>2. PICK i \in DOMAIN consumers[q] : consumers[q][i].chan = d
        BY <1>2, <4>1
      <4> QED BY <2>2, <4>2
    <3> QED BY <3>1, <3>2
  <2> QED BY <2>3, <2>4, SubscribedBy
<1> QED BY <1>6, <1>7

LEMMA CancelSubscribed ==
    ASSUME SubscribedInv, TagsDiffer, NEW c \in Channels, Cancel(c), NEW q \in Queues
    PROVE  Subscribed(q)'
<1> DEFINE p == busy[c]
<1>1. /\ p \in Queues /\ subs' = subs \ {c} /\ busy' = [busy EXCEPT ![c] = NoQueue] /\ own' = own
      /\ consumers' = IF p \in lists THEN [consumers EXCEPT ![p] = WithoutTags(consumers[p], {TagOf[c]})]
                      ELSE consumers
      /\ DOMAIN consumers = Queues /\ DOMAIN busy = Channels
  BY DEF Cancel, SubscribedInv, TagsInv, TypeInv, Types, TypeOK
<1>2. Listed(q) /\ \A d \in subs : busy[d] = q => \E i \in DOMAIN consumers[q] : consumers[q][i].chan = d
  BY DEF SubscribedInv, Subscribed
<1>3. \A d \in subs' : d \in Channels /\ d /= c /\ d \in subs /\ busy'[d] = busy[d]
  BY <1>1 DEF SubscribedInv, SubscribersBusy
<1>4. \A d \in subs : d \in Channels /\ (d /= c => d \in subs' /\ busy'[d] = busy[d])
  BY <1>1 DEF SubscribedInv, SubscribersBusy
<1>5. CASE q = p /\ q \in lists
  <2> DEFINE mine == {c}
  <2>1. consumers'[q] = WithoutTags(consumers[q], TagsOf(mine))
    <3>1. TagsOf({c}) = {TagOf[c]}
      BY DEF TagsOf
    <3> QED BY <1>1, <1>5, <3>1
  <2>2. /\ \A i \in DOMAIN consumers'[q] : consumers'[q][i].chan \notin mine /\ \E j \in DOMAIN consumers[q] :
               consumers'[q][i].chan = consumers[q][j].chan
        /\ \A j \in DOMAIN consumers[q] : consumers[q][j].chan \notin mine =>
               \E i \in DOMAIN consumers'[q] : consumers'[q][i].chan = consumers[q][j].chan
    <3>1. mine \in SUBSET Channels
      OBVIOUS
    <3> HIDE DEF mine
    <3> QED BY ONLY <2>1, <3>1, SubscribedInv, TagsDiffer, q \in Queues, ChannelsLeft
  <2>3. ASSUME NEW i \in DOMAIN consumers'[q]
        PROVE  LET d == consumers'[q][i].chan
               IN d \in Channels /\ d \in subs' /\ own'[d] = q /\ busy'[d] = q
    <3> DEFINE d == consumers'[q][i].chan
    <3>1. PICK j \in DOMAIN consumers[q] : d = consumers[q][j].chan
      BY <2>2
    <3>2. d \in subs /\ own[d] = q /\ busy[d] = q /\ d /= c
      BY <1>2, <2>2, <3>1 DEF Listed
    <3> HIDE DEF d, p
    <3>3. d \in Channels /\ d \in subs' /\ own'[d] = q /\ busy'[d] = q
      BY <1>1, <1>4, <3>2
    <3> QED BY <3>3 DEF d
  <2>4. ASSUME NEW d \in subs', busy'[d] = q
        PROVE  \E i \in DOMAIN consumers'[q] : consumers'[q][i].chan = d
    <3>1. PICK j \in DOMAIN consumers[q] : consumers[q][j].chan = d
      BY <1>2, <1>3, <2>4
    <3> QED BY <1>3, <2>2, <3>1
  <2> QED BY <2>3, <2>4, SubscribedBy
<1>6. CASE ~ (q = p /\ q \in lists)
  <2>1. consumers'[q] = consumers[q]
    BY <1>1, <1>6
  <2>2. \A i \in DOMAIN consumers[q] : consumers[q][i].chan /= c
    <3>1. CASE q = p
      BY <1>6, <3>1 DEF SubscribedInv, TagsInv, Tagged
    <3>2. CASE q /= p
      BY <1>2, <3>2 DEF Listed
    <3> QED BY <3>1, <3>2
  <2>3. \A i \in DOMAIN consumers[q] :
          LET d == consumers[q][i].chan
          IN d \in Channels /\ d \in subs' /\ own'[d] = q /\ busy'[d] = q
    BY <1>1, <1>2, <1>4, <2>2 DEF Listed
  <2>4. \A d \in subs' : busy'[d] = q => \E i \in DOMAIN consumers[q] : consumers[q][i].chan = d
    BY <1>2, <1>3
  <2> QED BY <2>1, <2>3, <2>4, SubscribedBy
<1> QED BY <1>5, <1>6

\* Deleting a queue ends the subscriptions to it, and to no other.
LEMMA DeleteSubscribed ==
    ASSUME SubscribedInv, NEW c \in Channels, NEW p \in Queues, DeleteConsumers(c, p), NEW q \in Queues
    PROVE  Subscribed(q)'
<1>1. /\ consumers' = [consumers EXCEPT ![p] = <<>>] /\ DOMAIN consumers = Queues
      /\ subs' = {d \in subs : busy[d] /= p} /\ UNCHANGED <<own, busy>>
  BY DEF DeleteConsumers, SubscribedInv, TagsInv, TypeInv, Types, TypeOK
<1>2. Listed(q) /\ \A d \in subs : busy[d] = q => \E i \in DOMAIN consumers[q] : consumers[q][i].chan = d
  BY DEF SubscribedInv, Subscribed
<1>3. CASE q = p
  <2>1. consumers'[q] = <<>> /\ \A d \in subs' : busy'[d] /= q
    BY <1>1, <1>3
  <2> QED BY <2>1, SubscribedBy
<1>4. CASE q /= p
  <2>1. consumers'[q] = consumers[q]
    BY <1>1, <1>4
  <2>2. \A i \in DOMAIN consumers[q] :
          LET d == consumers[q][i].chan
          IN d \in Channels /\ d \in subs' /\ own'[d] = q /\ busy'[d] = q
    BY <1>1, <1>2, <1>4 DEF Listed
  <2>3. \A d \in subs' : busy'[d] = q => \E i \in DOMAIN consumers[q] : consumers[q][i].chan = d
    BY <1>1, <1>2
  <2> QED BY <2>1, <2>2, <2>3, SubscribedBy
<1> QED BY <1>3, <1>4

\* A step that leaves lists and subscribers.
LEMMA SubscribedKept ==
    ASSUME NEW q \in Queues, Subscribed(q), UNCHANGED <<consumers, subs, own, busy>>
    PROVE  Subscribed(q)'
BY DEF Subscribed, Listed

LEMMA StepSubscribed ==
    ASSUME SubscribedInv, TagsDiffer, [Next]_vars, NEW q \in Queues
    PROVE  Subscribed(q)'
<1>1. Subscribed(q) /\ TypeInv
  BY DEF SubscribedInv, TagsInv
<1>2. CASE ChannelStep
  <2>1. ASSUME NEW c \in Channels, OpenChannel(c) PROVE Subscribed(q)'
    BY <1>1, <2>1, SubscribedKept DEF OpenChannel, subscriptions
  <2>2. ASSUME NEW c \in Channels, CloseChannel(c) PROVE Subscribed(q)'
    BY <2>2, DestroySubscribed DEF CloseChannel
  <2>3. ASSUME NEW k \in Connections, Disconnect(k) PROVE Subscribed(q)'
    <3>1. {c \in Open : ConnOf[c] = k} \in SUBSET Channels
      BY DEF Open
    <3> QED BY <2>3, <3>1, DestroySubscribed DEF Disconnect
  <2> QED BY <1>2, <2>1, <2>2, <2>3 DEF ChannelStep
<1>3. CASE QueueStep
  <2>1. ASSUME NEW c \in Channels, NEW p \in Queues, DeclareQueue(c, p) PROVE Subscribed(q)'
    BY <1>1, <2>1, SubscribedKept DEF DeclareQueue, channels, subscriptions
  <2>2. ASSUME DeleteMessages PROVE Subscribed(q)'
    BY <1>1, <2>2, SubscribedKept DEF DeleteMessages, channels, subscriptions
  <2> QED BY <1>3, <2>1, <2>2, DeleteSubscribed DEF QueueStep
<1>4. CASE ConsumerStep
  <2>1. ASSUME NEW c \in Channels, NEW p \in Queues, NEW n \in 1..MaxMsgs, Ack(c, p, n) PROVE Subscribed(q)'
    BY <1>1, <2>1, SubscribedKept DEF Ack, channels, subscriptions
  <2> QED BY <1>4, <2>1, SubscribeSubscribed, CancelSubscribed DEF ConsumerStep
<1>5. CASE Restart
  <2>1. consumers'[q] = <<>> /\ subs' = {}
    BY <1>5, RestartIs
  <2> QED BY <2>1, SubscribedBy
<1>6. CASE PublishStep \/ Pop \/ Choose \/ Callback \/ AutoAck \/ Die \/ WorkerDies \/ UNCHANGED vars
  <2>1. UNCHANGED <<consumers, subs, own, busy>>
    BY <1>6 DEF PublishStep, Publish, InsertMessage, PushTask, Pop, Choose, Callback, AutoAck,
                Die, WorkerDies, vars, channels, subscriptions
  <2> QED BY <1>1, <2>1, SubscribedKept
<1> QED BY <1>2, <1>3, <1>4, <1>5, <1>6, StepCases

LEMMA StepBusy ==
    ASSUME SubscribedInv, [Next]_vars
    PROVE  SubscribersBusy'
<1>1. /\ SubscribersBusy /\ DOMAIN busy = Channels /\ NoQueue \notin Queues
  BY DeliveryAssumption DEF SubscribedInv, TagsInv, TypeInv, Types, TypeOK
<1>2. ASSUME NEW closed, Destroy(closed) PROVE SubscribersBusy'
  BY <1>1, <1>2 DEF Destroy, SubscribersBusy
<1>3. CASE ChannelStep
  <2>1. ASSUME NEW c \in Channels, OpenChannel(c) PROVE SubscribersBusy'
    BY <1>1, <2>1 DEF OpenChannel, SubscribersBusy
  <2> QED BY <1>2, <1>3, <2>1 DEF ChannelStep, CloseChannel, Disconnect
<1>4. CASE QueueStep
  <2>1. UNCHANGED busy /\ subs' \subseteq subs
    BY <1>4 DEF QueueStep, DeclareQueue, DeleteConsumers, DeleteMessages, channels
  <2> QED BY <1>1, <2>1 DEF SubscribersBusy
<1>5. CASE ConsumerStep
  <2>1. ASSUME NEW c \in Channels, NEW p, NEW n, Ack(c, p, n) PROVE SubscribersBusy'
    BY <1>1, <2>1 DEF Ack, channels, SubscribersBusy
  <2>2. ASSUME NEW c \in Channels, NEW q \in Queues, NEW auto, Subscribe(c, q, auto) PROVE SubscribersBusy'
    BY <1>1, <2>2 DEF Subscribe, SubscribersBusy
  <2>3. ASSUME NEW c \in Channels, Cancel(c) PROVE SubscribersBusy'
    BY <1>1, <2>3 DEF Cancel, SubscribersBusy
  <2> QED BY <1>5, <2>1, <2>2, <2>3 DEF ConsumerStep
<1>6. CASE Restart
  BY <1>6, RestartIs DEF SubscribersBusy
<1>7. CASE PublishStep \/ Pop \/ Choose \/ Callback \/ AutoAck \/ Die \/ WorkerDies \/ UNCHANGED vars
  <2>1. UNCHANGED <<busy, subs>>
    BY <1>7 DEF PublishStep, Publish, InsertMessage, PushTask, Pop, Choose, Callback, AutoAck,
                Die, WorkerDies, vars, channels
  <2> QED BY <1>1, <2>1 DEF SubscribersBusy
<1> QED BY <1>3, <1>4, <1>5, <1>6, <1>7, StepCases

\* SubscriptionsExact: if the clients' channels have tags of their own, the consumers of a
\* queue are the channels that were told they are subscribed and have not cancelled, closed
\* or lost the queue, each once, although the broker's channel keeps the consumer it had
\* (__consumer) after cancelling and its destructor removes by that consumer's tag and queue.
\* Without the assumption it is not so: the run DeliverySameTag shows how.
THEOREM ConsumersAreSubscribers ==
    ASSUME TagsDiffer
    PROVE  Spec => []SubscriptionsExact
<1>1. Init => SubscribedInv
  <2>1. Init => SubscribersBusy /\ \A q \in Queues : Subscribed(q)
    BY DEF Init, SubscribersBusy, Subscribed, Listed
  <2>2. Init => Tagged
    BY DEF Init, Tagged, UniqueTags
  <2> QED BY <2>1, <2>2, InitTypes DEF SubscribedInv, TagsInv
<1>2. SubscribedInv /\ [Next]_vars => SubscribedInv'
  <2> SUFFICES ASSUME SubscribedInv, [Next]_vars PROVE SubscribedInv'
    OBVIOUS
  <2>1. TypeInv' /\ Tagged'
    BY StepTypes, StepTagged DEF SubscribedInv, TagsInv
  <2>2. SubscribersBusy' /\ \A q \in Queues : Subscribed(q)'
    BY TagsDiffer, StepBusy, StepSubscribed
  <2> QED BY <2>1, <2>2 DEF SubscribedInv, TagsInv
<1>3. SubscribedInv => SubscriptionsExact
  <2> SUFFICES ASSUME SubscribedInv, NEW q \in lists
               PROVE  /\ {consumers[q][i].chan : i \in DOMAIN consumers[q]} = {c \in subs : busy[c] = q}
                      /\ \A i, j \in DOMAIN consumers[q] :
                            consumers[q][i].chan = consumers[q][j].chan => i = j
    BY DEF SubscriptionsExact
  <2>1. q \in Queues
    BY DEF SubscribedInv, TagsInv, TypeInv, Types, TypeOK
  <2>2. {consumers[q][i].chan : i \in DOMAIN consumers[q]} = {c \in subs : busy[c] = q}
    BY <2>1 DEF SubscribedInv, Subscribed, Listed
  <2>3. \A i, j \in DOMAIN consumers[q] : consumers[q][i].chan = consumers[q][j].chan => i = j
    BY <2>1 DEF SubscribedInv, TagsInv, Tagged, UniqueTags
  <2> QED BY <2>2, <2>3
<1> QED BY <1>1, <1>2, <1>3, PTL DEF Spec

-----------------------------------------------------------------------------
(* What leaves a queue *)

\* Every step but these four leaves every message that waits for an acknowledgement.
LEMMA UnackedStays ==
    ASSUME TypeInv, [Next]_vars, NEW q \in Queues, NEW n \in unacked[q], n \notin unacked'[q]
    PROVE  \/ DeleteMessages \/ Restart \/ AutoAck
           \/ \E c \in Channels, p \in Queues, m \in 1..MaxMsgs : Ack(c, p, m)
<1>1. CASE Pop
  <2> DEFINE p == Head(tasks).q
             first == Head(ready[p])
  <2>1. UNCHANGED unacked \/ unacked' = [unacked EXCEPT ![p] = unacked[p] \union {first}]
    BY <1>1, PopIs
  <2> HIDE DEF p, first
  <2>2. unacked[q] \subseteq unacked'[q]
    <3>1. DOMAIN unacked = Queues
      BY DEF TypeInv, Types, TypeOK
    <3> QED BY <2>1, <3>1
  <2> QED BY <2>2
<1>2. CASE ChannelStep \/ PublishStep \/ Choose \/ Callback \/ Die \/ WorkerDies \/ UNCHANGED vars
  <2>1. UNCHANGED unacked
    BY <1>2 DEF ChannelStep, PublishStep, OpenChannel, CloseChannel, Disconnect, Destroy, Publish, InsertMessage,
         PushTask, Choose, Callback, Die, WorkerDies, vars, messages
  <2> QED BY <2>1
<1>3. CASE QueueStep
  <2>1. UNCHANGED unacked \/ DeleteMessages
    BY <1>3 DEF QueueStep, DeclareQueue, DeleteConsumers, messages
  <2> QED BY <2>1
<1>4. CASE ConsumerStep
  <2>1. UNCHANGED unacked \/ \E c \in Channels, p \in Queues, m \in 1..MaxMsgs : Ack(c, p, m)
    BY <1>4 DEF ConsumerStep, Subscribe, Cancel, messages
  <2> QED BY <2>1
<1> QED BY <1>1, <1>2, <1>3, <1>4, StepCases

\* A message that may survive is found by recovery() if it was in the queue.
LEMMA SurvivesRestart ==
    ASSUME TypeInv, Restart, NEW q \in Queues, NEW n \in unacked[q], q \in Durable, n \in Persistent
    PROVE  n \in ToSet(ready'[q])
<1>1. q \in stores
  BY DEF TypeInv, Existence
<1>2. n \in Stored(q)
  BY <1>1 DEF Stored
<1>3. PICK i \in DOMAIN StoredInOrder(q) : StoredInOrder(q)[i] = n
  BY <1>2, StoredIs
<1>4. i \in DOMAIN ready'[q] /\ n = ready'[q][i]
  BY <1>3, RestartIs
<1> QED BY <1>4 DEF ToSet

\* ManualAckOnly: a message that waits for its acknowledgement goes when its queue is
\* deleted, when the worker acknowledges it for a consumer with automatic responses, by a
\* request that changes nothing else, or when the broker dies and message or queue was not
\* to survive; and if it was, a restart makes it ready again.
THEOREM LeavesByAcknowledgement == Spec => ManualAckOnly
<1> DEFINE Leaves(q, n) ==
             \/ io.pc = "delete" /\ io.q = q
             \/ ~alive /\ ~(q \in Durable /\ n \in Persistent)
             \/ wk.pc = "ack" /\ wk.to.auto /\ wk.q = q /\ wk.n = n /\ wk' = WkIdle
             \/ Open /= {} /\ UNCHANGED <<channels, queues, subscriptions, tasks, io, wk, pushed>>
<1>1. ASSUME TypeInv, [Next]_vars, NEW q \in Queues, NEW n \in unacked[q] \ (unacked'[q] \union ToSet(ready'[q]))
      PROVE  Leaves(q, n)
  <2>1. unacked \in [Queues -> SUBSET (1..MaxMsgs)]
    BY <1>1 DEF TypeInv, Types, TypeOK
  <2>2. CASE DeleteMessages
    BY <1>1, <2>1, <2>2 DEF DeleteMessages
  <2>3. CASE Restart
    BY <1>1, <2>3, SurvivesRestart, RestartIs
  <2>4. CASE AutoAck
    <3>1. unacked' = [unacked EXCEPT ![wk.q] = unacked[wk.q] \ {wk.n}] /\ wk.pc = "ack" /\ wk.to.auto /\ wk' = WkIdle
      BY <1>1, <2>4 DEF AutoAck, Acknowledge, TypeInv, Types
    <3>2. wk.q = q /\ wk.n = n
      BY <1>1, <2>1, <3>1
    <3> QED BY <3>1, <3>2
  <2>5. ASSUME NEW c \in Channels, NEW p \in Queues, NEW m \in 1..MaxMsgs, Ack(c, p, m) PROVE Leaves(q, n)
    <3>1. c \in Open /\ UNCHANGED <<channels, queues, subscriptions, tasks, io, wk, pushed>>
      BY <2>5 DEF Ack, Request
    <3> QED BY <3>1
  <2> HIDE DEF Leaves
  <2> QED BY <1>1, <2>2, <2>3, <2>4, <2>5, UnackedStays
<1>2. TypeInv /\ [Next]_vars =>
        [\A q \in Queues : \A n \in unacked[q] \ (unacked'[q] \union ToSet(ready'[q])) :
          \/ io.pc = "delete" /\ io.q = q
          \/ ~alive /\ ~(q \in Durable /\ n \in Persistent)
          \/ wk.pc = "ack" /\ wk.to.auto /\ wk.q = q /\ wk.n = n /\ wk' = WkIdle
          \/ Open /= {} /\ UNCHANGED <<channels, queues, subscriptions, tasks, io, wk, pushed>>]_vars
  BY <1>1
<1> QED BY <1>2, AlwaysTypes, PTL DEF Spec, ManualAckOnly

-----------------------------------------------------------------------------
(* Every queue is a MessageQueue *)

LEMMA QueueAcknowledges ==
    ASSUME TypeInv, NEW q \in Queues, NEW p \in Queues, NEW n, Acknowledge(p, n), UNCHANGED <<ready, last>>
    PROVE  [Queue(q)!Next]_(Queue(q)!vars)
<1>1. unacked' = [unacked EXCEPT ![p] = unacked[p] \ {n}] /\ DOMAIN unacked = Queues
  BY DEF Acknowledge, TypeInv, Types, TypeOK
<1>2. CASE p = q /\ n \in unacked[q]
  <2>1. unacked'[q] = unacked[q] \ {n}
    BY <1>1, <1>2
  <2>2. Queue(q)!Acknowledge(n)
    BY <1>2, <2>1 DEF Queue!Acknowledge
  <2> QED BY <1>2, <2>2 DEF Queue!Next
<1>3. CASE ~ (p = q /\ n \in unacked[q])
  <2>1. unacked'[q] = unacked[q]
    BY <1>1, <1>3
  <2> QED BY <2>1 DEF Queue!vars
<1> QED BY <1>2, <1>3

\* A step that leaves the messages of a queue.
LEMMA QueueStutters ==
    ASSUME NEW q \in Queues, ready'[q] = ready[q], unacked'[q] = unacked[q], last'[q] = last[q]
    PROVE  [Queue(q)!Next]_(Queue(q)!vars)
BY DEF Queue!vars, ToSet

\* Inserting a message accepts it.
LEMMA QueuePublishes ==
    ASSUME TypeInv, NEW q \in Queues, InsertMessage(q)
    PROVE  Queue(q)!Next
<1> DEFINE n == last[q] + 1
           kept == q \in Durable /\ n \in Persistent
<1>1. /\ ready' = [ready EXCEPT ![q] = Append(ready[q], n)] /\ last' = [last EXCEPT ![q] = n]
      /\ unacked' = unacked /\ ready \in [Queues -> Seq(1..MaxMsgs)] /\ DOMAIN last = Queues
      /\ last[q] \in 0..MaxMsgs /\ io.pc = "insert" /\ q \in io.todo
  BY DEF InsertMessage, TypeInv, Types, TypeOK
<1>2. last[q] \in Nat /\ n \in 1..MaxMsgs
  BY <1>1, DeliveryAssumption DEF TypeInv, Existence, InHandler
<1> HIDE DEF n
<1>3. ready'[q] = Append(ready[q], n) /\ last'[q] = n /\ n = last[q] + 1
  BY <1>1 DEF n
<1>4. ToSet(ready'[q]) = ToSet(ready[q]) \union {n}
  <2>1. /\ DOMAIN ready[q] = 1..Len(ready[q]) /\ Len(ready[q]) \in Nat
        /\ DOMAIN ready'[q] = 1..(Len(ready[q]) + 1)
        /\ \A i \in 1..Len(ready[q]) : ready'[q][i] = ready[q][i]
        /\ ready'[q][Len(ready[q]) + 1] = n
    BY <1>1, <1>2, <1>3, AppendProperties, LenProperties
  <2>2. ASSUME NEW x \in ToSet(ready'[q]) PROVE x \in ToSet(ready[q]) \union {n}
    <3>1. PICK i \in DOMAIN ready'[q] : x = ready'[q][i]
      BY DEF ToSet
    <3>2. CASE i \in DOMAIN ready[q]
      BY <2>1, <3>1, <3>2 DEF ToSet
    <3>3. CASE i = Len(ready[q]) + 1
      BY <2>1, <3>1, <3>3
    <3> QED BY <2>1, <3>2, <3>3
  <2>3. ASSUME NEW x \in ToSet(ready[q]) PROVE x \in ToSet(ready'[q])
    <3>1. PICK i \in DOMAIN ready[q] : x = ready[q][i]
      BY DEF ToSet
    <3>2. i \in DOMAIN ready'[q] /\ x = ready'[q][i]
      BY <2>1, <3>1
    <3> QED BY <3>2 DEF ToSet
  <2>4. n \in ToSet(ready'[q])
    <3>1. Len(ready[q]) + 1 \in DOMAIN ready'[q] /\ n = ready'[q][Len(ready[q]) + 1]
      BY <2>1
    <3> QED BY <3>1 DEF ToSet
  <2> QED BY <2>2, <2>3, <2>4
<1>5. 1..n = 1..last[q] \union {n}
  BY <1>2, <1>3
<1>6. (IF q \in Durable THEN Persistent \intersect 1..last'[q] ELSE {}) =
        IF kept THEN (IF q \in Durable THEN Persistent \intersect 1..last[q] ELSE {}) \union {n}
        ELSE IF q \in Durable THEN Persistent \intersect 1..last[q] ELSE {}
  BY <1>3, <1>5
<1>7. unacked'[q] = unacked[q]
  BY <1>1
<1>8. kept \in BOOLEAN
  OBVIOUS
<1> HIDE DEF kept
<1>9. Queue(q)!Publish(kept)
  BY <1>3, <1>4, <1>6, <1>7 DEF Queue!Publish
<1> QED BY <1>8, <1>9 DEF Queue!Next

\* Taking the first message out hands out the lowest number.
LEMMA QueueDelivers ==
    ASSUME TypeInv, NumberedInv, Pop, NEW q \in Queues
    PROVE  [Queue(q)!Next]_(Queue(q)!vars)
<1> DEFINE p == Head(tasks).q
<1>1. CASE ready[p] = <<>>
  <2>1. UNCHANGED <<ready, unacked, last>>
    BY <1>1, PopIs
  <2> QED BY <2>1, QueueStutters
<1>2. CASE ready[p] /= <<>>
  <2> DEFINE n == Head(ready[p])
  <2>1. /\ p \in Queues /\ ready' = [ready EXCEPT ![p] = Tail(ready[p])]
        /\ unacked' = [unacked EXCEPT ![p] = unacked[p] \union {n}] /\ last' = last
    BY <1>2, PopIs
  <2>2. ready \in [Queues -> Seq(1..MaxMsgs)] /\ DOMAIN unacked = Queues
    BY DEF TypeInv, Types, TypeOK
  <2>3. n = Head(ready[p]) /\ ready[p] /= <<>>
    BY <1>2
  <2> HIDE DEF p, n
  <2>4. CASE q /= p
    BY <2>1, <2>2, <2>4, QueueStutters
  <2>5. CASE q = p
    <3>1. /\ ready'[q] = Tail(ready[q]) /\ unacked'[q] = unacked[q] \union {n} /\ last'[q] = last[q]
          /\ ready[q] \in Seq(1..MaxMsgs) /\ ready[q] /= <<>> /\ n = Head(ready[q])
      BY <2>1, <2>2, <2>3, <2>5
    <3>2. /\ Len(ready[q]) \in Nat \ {0} /\ DOMAIN ready[q] = 1..Len(ready[q]) /\ n = ready[q][1]
          /\ DOMAIN ready'[q] = 1..(Len(ready[q]) - 1)
          /\ \A i \in 1..(Len(ready[q]) - 1) : ready'[q][i] = ready[q][i + 1]
      BY <3>1, EmptySeq, LenProperties, HeadTailProperties
    <3>3. Rising(ready[q]) /\ \A i \in DOMAIN ready[q] : ready[q][i] \in Nat
      BY NumberTypes DEF NumberedInv, Numbered
    <3>4. \A i \in DOMAIN ready[q] : i /= 1 => n < ready[q][i]
      BY <3>2, <3>3 DEF Rising
    <3>5. n \in Nat /\ n \in ToSet(ready[q])
      <4>1. 1 \in DOMAIN ready[q] /\ n = ready[q][1]
        BY <3>2
      <4> QED BY <3>3, <4>1 DEF ToSet
    <3>6. \A m \in ToSet(ready[q]) : n <= m
      <4> SUFFICES ASSUME NEW m \in ToSet(ready[q]) PROVE n <= m
        OBVIOUS
      <4>1. PICK i \in DOMAIN ready[q] : m = ready[q][i]
        BY DEF ToSet
      <4>2. m \in Nat /\ (m = n \/ n < m)
        BY <3>2, <3>3, <3>4, <4>1
      <4> QED BY <3>5, <4>2
    <3>7. ToSet(ready'[q]) = ToSet(ready[q]) \ {n}
      <4>1. ASSUME NEW x \in ToSet(ready'[q]) PROVE x \in ToSet(ready[q]) \ {n}
        <5>1. PICK i \in DOMAIN ready'[q] : x = ready'[q][i]
          BY DEF ToSet
        <5>2. i + 1 \in DOMAIN ready[q] /\ x = ready[q][i + 1] /\ i + 1 /= 1
          BY <3>2, <5>1
        <5>3. n < x /\ x \in Nat
          BY <3>3, <3>4, <5>2
        <5> QED BY <3>5, <5>2, <5>3 DEF ToSet
      <4>2. ASSUME NEW x \in ToSet(ready[q]) \ {n} PROVE x \in ToSet(ready'[q])
        <5>1. PICK i \in DOMAIN ready[q] : x = ready[q][i]
          BY DEF ToSet
        <5>2. i /= 1
          BY <3>2, <5>1
        <5>3. i - 1 \in DOMAIN ready'[q] /\ x = ready'[q][i - 1]
          BY <3>2, <5>1, <5>2
        <5> QED BY <5>3 DEF ToSet
      <4> QED BY <4>1, <4>2
    <3>8. Queue(q)!Deliver(n)
      BY <3>1, <3>5, <3>6, <3>7 DEF Queue!Deliver
    <3> QED BY <3>5, <3>8 DEF Queue!Next
  <2> QED BY <2>4, <2>5
<1> QED BY <1>1, <1>2

\* A restart makes ready what was to survive.
LEMMA QueueRestarts ==
    ASSUME TypeInv, NumberedInv, Restart, NEW q \in Queues
    PROVE  Queue(q)!Next
<1> DEFINE kept == IF q \in Durable THEN Persistent \intersect 1..last[q] ELSE {}
<1>1. ready'[q] = StoredInOrder(q) /\ unacked'[q] = {} /\ last'[q] = last[q]
  BY RestartIs
<1>2. ToSet(ready'[q]) = Stored(q)
  <2>1. ASSUME NEW x \in ToSet(ready'[q]) PROVE x \in Stored(q)
    <3>1. StoredInOrder(q) \in Seq(Stored(q))
      BY StoredIs
    <3> QED BY <1>1, <2>1, <3>1, WithinSeq
  <2>2. ASSUME NEW x \in Stored(q) PROVE x \in ToSet(ready'[q])
    <3>1. PICK i \in DOMAIN StoredInOrder(q) : StoredInOrder(q)[i] = x
      BY StoredIs
    <3> QED BY <1>1, <3>1 DEF ToSet
  <2> QED BY <2>1, <2>2
<1>3. ToSet(ready[q]) \union unacked[q] \subseteq 1..last[q]
  <2>1. /\ ready[q] \in Seq(1..MaxMsgs) /\ unacked[q] \subseteq 1..MaxMsgs /\ last[q] \in Nat
        /\ \A i \in DOMAIN ready[q] : ready[q][i] \in Nat
    BY NumberTypes
  <2>2. (\A i \in DOMAIN ready[q] : ready[q][i] <= last[q]) /\ \A n \in unacked[q] : n <= last[q]
    BY DEF NumberedInv, Numbered
  <2>3. ToSet(ready[q]) \subseteq 1..MaxMsgs
    BY <2>1, WithinSeq
  <2>4. \A x \in ToSet(ready[q]) \union unacked[q] : x \in 1..MaxMsgs /\ x <= last[q]
    BY <2>1, <2>2, <2>3 DEF ToSet
  <2> QED BY <2>1, <2>4, DeliveryAssumption
<1>4. q \notin stores => ToSet(ready[q]) \union unacked[q] = {}
  BY DEF TypeInv, Existence, ToSet
<1>5. Stored(q) = (ToSet(ready[q]) \union unacked[q]) \intersect kept
  BY <1>3, <1>4 DEF Stored
<1>6. ToSet(ready'[q]) = (ToSet(ready[q]) \union unacked[q]) \intersect kept
  BY <1>2, <1>5
<1>7. Queue(q)!Restart
  BY <1>1, <1>6 DEF Queue!Restart
<1> QED BY <1>7 DEF Queue!Next

\* Deleting a queue empties it.
LEMMA QueuePurges ==
    ASSUME TypeInv, DeleteMessages, NEW q \in Queues
    PROVE  [Queue(q)!Next]_(Queue(q)!vars)
<1>1. /\ ready' = [ready EXCEPT ![io.q] = <<>>] /\ unacked' = [unacked EXCEPT ![io.q] = {}] /\ last' = last
      /\ DOMAIN ready = Queues /\ DOMAIN unacked = Queues
  BY DEF DeleteMessages, TypeInv, Types, TypeOK
<1>2. CASE q /= io.q
  BY <1>1, <1>2, QueueStutters
<1>3. CASE q = io.q
  <2>1. ready'[q] = <<>> /\ unacked'[q] = {} /\ last'[q] = last[q]
    BY <1>1, <1>3
  <2>2. ToSet(ready'[q]) = {}
    BY <2>1 DEF ToSet
  <2>3. Queue(q)!Purge
    BY <2>1, <2>2 DEF Queue!Purge
  <2> QED BY <2>3 DEF Queue!Next
<1> QED BY <1>2, <1>3

LEMMA StepKeepsPromise ==
    ASSUME TypeInv, NumberedInv, [Next]_vars, NEW q \in Queues
    PROVE  [Queue(q)!Next]_(Queue(q)!vars)
<1>1. CASE UNCHANGED <<ready, unacked, last>>
  BY <1>1, QueueStutters
<1>2. ASSUME NEW p \in Queues, InsertMessage(p) PROVE [Queue(q)!Next]_(Queue(q)!vars)
  <2>1. CASE p = q
    BY <1>2, <2>1, QueuePublishes
  <2>2. CASE p /= q
    <3>1. ready'[q] = ready[q] /\ unacked'[q] = unacked[q] /\ last'[q] = last[q]
      BY <1>2, <2>2 DEF InsertMessage, TypeInv, Types, TypeOK
    <3> QED BY <3>1, QueueStutters
  <2> QED BY <2>1, <2>2
<1>3. CASE AutoAck
  BY <1>3, QueueAcknowledges DEF AutoAck, TypeInv, Types
<1>4. ASSUME NEW c \in Channels, NEW p \in Queues, NEW n \in 1..MaxMsgs, Ack(c, p, n) PROVE [Queue(q)!Next]_(Queue(q)!vars)
  <2>1. Acknowledge(p, n) /\ UNCHANGED <<ready, last>>
    BY <1>4 DEF Ack, TypeInv, Types, TypeOK
  <2> QED BY <2>1, QueueAcknowledges
<1>5. \/ UNCHANGED <<ready, unacked, last>> \/ DeleteMessages \/ Pop \/ Restart \/ AutoAck
      \/ \E p \in Queues : InsertMessage(p)
      \/ \E c \in Channels, p \in Queues, n \in 1..MaxMsgs : Ack(c, p, n)
  <2>1. ChannelStep \/ Choose \/ Callback \/ Die \/ WorkerDies \/ UNCHANGED vars
          => UNCHANGED <<ready, unacked, last>>
    BY DEF ChannelStep, OpenChannel, CloseChannel, Disconnect, Destroy, Choose, Callback, Die, WorkerDies,
           vars, messages
  <2>2. QueueStep => UNCHANGED <<ready, unacked, last>> \/ DeleteMessages
    BY DEF QueueStep, DeclareQueue, DeleteConsumers, messages
  <2>3. PublishStep => UNCHANGED <<ready, unacked, last>> \/ \E p \in Queues : InsertMessage(p)
    BY DEF PublishStep, Publish, PushTask, messages
  <2>4. ConsumerStep => \/ UNCHANGED <<ready, unacked, last>>
                        \/ \E c \in Channels, p \in Queues, n \in 1..MaxMsgs : Ack(c, p, n)
    BY DEF ConsumerStep, Subscribe, Cancel, messages
  <2> QED BY <2>1, <2>2, <2>3, <2>4, StepCases
<1> QED BY <1>1, <1>2, <1>3, <1>4, <1>5, QueueDelivers, QueueRestarts, QueuePurges

\* QueuesKeepPromise: with channels, consumers, the worker, deletions and restarts around it,
\* every queue does what message.hpp promises: the lowest number first, a message kept until
\* it is acknowledged, and after a restart every persistent message of a durable queue ready
\* again in its order.
THEOREM DeliveryImplementsQueues == Spec => QueuesKeepPromise
<1>1. Init => \A q \in Queues : Queue(q)!Init
  <2> SUFFICES ASSUME Init, NEW q \in Queues PROVE Queue(q)!Init
    OBVIOUS
  <2>1. ready[q] = <<>> /\ unacked[q] = {} /\ last[q] = 0
    BY DEF Init
  <2>2. ToSet(ready[q]) = {} /\ (IF q \in Durable THEN Persistent \intersect 1..last[q] ELSE {}) = {}
    BY <2>1 DEF ToSet
  <2> QED BY <2>1, <2>2 DEF Queue!Init
<1>2. TypeInv /\ NumberedInv /\ [Next]_vars => [\A q \in Queues : [Queue(q)!Next]_(Queue(q)!vars)]_vars
  BY StepKeepsPromise
<1> QED BY <1>1, <1>2, AlwaysTypes, AlwaysNumbered, PTL DEF Spec, QueuesKeepPromise
=============================================================================
