------------------------- MODULE QueueMessageProofs -------------------------
(* Theorems about QueueMessage, for every number of messages, every threshold of the
   garbage collection and every choice of crash points and failing file operations. *)
EXTENDS QueueMessageProperties, Integers, TLAPS

-----------------------------------------------------------------------------
(* Sequences, as the proofs below need them. *)

\* Append adds one element at the end.
LEMMA AppendFacts ==
    ASSUME NEW S, NEW s \in Seq(S), NEW e
    PROVE  /\ Len(Append(s, e)) = Len(s) + 1
           /\ DOMAIN Append(s, e) = 1..(Len(s) + 1)
           /\ DOMAIN s = 1..Len(s)
           /\ \A i \in 1..Len(s) : Append(s, e)[i] = s[i]
           /\ Append(s, e)[Len(s) + 1] = e
    OBVIOUS

\* Tail drops the first element.
LEMMA TailFacts ==
    ASSUME NEW S, NEW s \in Seq(S), s /= <<>>
    PROVE  /\ Head(s) \in S /\ Head(s) = s[1] /\ 1 \in DOMAIN s
           /\ Tail(s) \in Seq(S)
           /\ DOMAIN Tail(s) = 1..(Len(s) - 1)
           /\ DOMAIN s = 1..Len(s)
           /\ \A i \in 1..(Len(s) - 1) : Tail(s)[i] = s[i + 1]
    OBVIOUS

\* A function on an initial interval of the naturals is a sequence.
LEMMA FunctionIsSeq ==
    ASSUME NEW S, NEW n \in Nat, NEW f \in [1..n -> S]
    PROVE  f \in Seq(S) /\ Len(f) = n /\ DOMAIN f = 1..n
    OBVIOUS

\* The empty sequence.
LEMMA EmptySeqFacts ==
    ASSUME NEW S
    PROVE  <<>> \in Seq(S) /\ Len(<<>>) = 0 /\ DOMAIN <<>> = {}
    OBVIOUS

\* An element of a sequence.
LEMMA ElementFacts ==
    ASSUME NEW S, NEW s \in Seq(S)
    PROVE  /\ Len(s) \in Nat /\ DOMAIN s = 1..Len(s)
           /\ \A i \in DOMAIN s : s[i] \in S
    OBVIOUS

\* A sequence of references stays one when the heap grows.
LEMMA SeqGrows ==
    ASSUME NEW S, NEW T, S \subseteq T, NEW s \in Seq(S)
    PROVE  s \in Seq(T)
    OBVIOUS

\* The last element of a sequence.
LEMMA LastFacts ==
    ASSUME NEW S, NEW s \in Seq(S), s /= <<>>
    PROVE  Len(s) \in Nat /\ Len(s) > 0 /\ Len(s) \in DOMAIN s /\ s[Len(s)] \in S
    OBVIOUS

\* CHOOSE from a set, with 0 for the empty one.
LEMMA ChooseFacts ==
    ASSUME NEW T, NEW S, S \subseteq T
    PROVE  (IF S = {} THEN 0 ELSE CHOOSE i \in S : TRUE) \in {0} \union T
    OBVIOUS

\* A map with one more entry is a map.
LEMMA PutType ==
    ASSUME NEW L, NEW map \in [Msg -> 0..L], NEW id, NEW o \in 1..L
    PROVE  Put(map, id, o) \in [Msg -> 0..L]
<1>1. o \in 0..L
    OBVIOUS
<1>2. [map EXCEPT ![id] = o] \in [Msg -> 0..L]
    BY <1>1
<1> QED
    BY <1>2 DEF Put

\* A message object learns its offset.
LEMMA SetOffset ==
    ASSUME NEW s \in Seq(Object), NEW o \in DOMAIN s, NEW v \in Nat
    PROVE  LET t == [s EXCEPT ![o].off = v]
           IN /\ t \in Seq(Object) /\ Len(t) = Len(s) /\ DOMAIN t = DOMAIN s
              /\ \A p \in DOMAIN s : t[p] = IF p = o THEN [n |-> s[o].n, off |-> v] ELSE s[p]
<1> DEFINE t == [s EXCEPT ![o].off = v]
<1>1. Len(s) \in Nat /\ DOMAIN s = 1..Len(s) /\ \A p \in DOMAIN s : s[p] \in Object
    BY ElementFacts
<1>2. [s[o] EXCEPT !.off = v] = [n |-> s[o].n, off |-> v]
    BY <1>1 DEF Object
<1>3. \A p \in DOMAIN s : t[p] = IF p = o THEN [n |-> s[o].n, off |-> v] ELSE s[p]
    BY <1>2
<1>4. \A p \in DOMAIN s : t[p] \in Object
    BY <1>1, <1>3 DEF Object
<1>5. t = [p \in 1..Len(s) |-> t[p]]
    BY <1>1
<1>6. t \in [1..Len(s) -> Object]
    BY <1>1, <1>4, <1>5
<1> QED
    BY <1>1, <1>3, <1>6, FunctionIsSeq

\* The state of one record changes.
LEMMA MarkType ==
    ASSUME file \in Seq(Record), NEW k, NEW st \in {"valid", "invalid", "torn"}
    PROVE  /\ [file EXCEPT ![k].st = st] \in Seq(Record)
           /\ Len([file EXCEPT ![k].st = st]) = Len(file)
           /\ DOMAIN [file EXCEPT ![k].st = st] = DOMAIN file
           /\ \A i \in DOMAIN file : [file EXCEPT ![k].st = st][i].n = file[i].n
<1> DEFINE t == [file EXCEPT ![k].st = st]
<1>1. DOMAIN file = 1..Len(file) /\ Len(file) \in Nat /\ \A i \in 1..Len(file) : file[i] \in Record
    BY ElementFacts
<1>2. \A i \in 1..Len(file) : [file[i] EXCEPT !.st = st] \in Record
    BY <1>1 DEF Record
<1>3. \A i \in 1..Len(file) : t[i] \in Record
    BY <1>1, <1>2
<1>4. t = [i \in 1..Len(file) |-> t[i]]
    BY <1>1
<1>5. t \in [1..Len(file) -> Record]
    BY <1>3, <1>4
<1>6. \A i \in DOMAIN file : t[i].n = file[i].n
  <2>1. \A i \in DOMAIN file : [file[i] EXCEPT !.st = st].n = file[i].n
    BY <1>1 DEF Record
  <2>2. \A i \in DOMAIN file : t[i] = IF i = k THEN [file[i] EXCEPT !.st = st] ELSE file[i]
    OBVIOUS
  <2> QED
    BY <2>1, <2>2
<1> QED
    BY <1>1, <1>5, <1>6, FunctionIsSeq

\* A record is overwritten by the invalidated message: the file keeps its length, and
\* every record is of the message it was of or of the acknowledged one.
LEMMA InvalidateType ==
    ASSUME file \in Seq(Record), NEW o, obj[o] \in Object, Invalidate(o)
    PROVE  /\ file' \in Seq(Record)
           /\ DOMAIN file' = DOMAIN file /\ Len(file') = Len(file)
           /\ \A i \in DOMAIN file : file'[i].n \in {file[i].n, obj[o].n}
<1>1. DOMAIN file = 1..Len(file) /\ Len(file) \in Nat /\ \A i \in 1..Len(file) : file[i] \in Record
    BY ElementFacts
<1>2. CASE file' = file
    BY <1>1, <1>2
<1>3. CASE file' = Overwritten(o)
  <2>1. [n |-> obj[o].n, st |-> "invalid"] \in Record
    BY DEF Object, Record
  <2>2. \A i \in DOMAIN file : /\ [file[i] EXCEPT !.st = "torn"] \in Record
                              /\ [file[i] EXCEPT !.st = "torn"].n = file[i].n
    BY <1>1 DEF Record
  <2>3. \A i \in DOMAIN file : /\ file'[i] \in {[n |-> obj[o].n, st |-> "invalid"],
                                              [file[i] EXCEPT !.st = "torn"], file[i]}
    BY <1>3 DEF Overwritten
  <2>4. file' \in [1..Len(file) -> Record]
    <3>1. \A i \in 1..Len(file) : file'[i] \in Record
      BY <1>1, <2>1, <2>2, <2>3
    <3>2. file' = [i \in 1..Len(file) |-> file'[i]]
      BY <1>1, <1>3 DEF Overwritten
    <3> QED
      BY <3>1, <3>2
  <2>5. ASSUME NEW i \in DOMAIN file
        PROVE  file'[i].n = file[i].n \/ file'[i].n = obj[o].n
    <3>1. CASE file'[i] = [n |-> obj[o].n, st |-> "invalid"]
      BY <3>1
    <3>2. CASE file'[i] = [file[i] EXCEPT !.st = "torn"]
      BY <2>2, <3>2
    <3> QED
      BY <2>3, <3>1, <3>2
  <2> QED
    BY <1>1, <2>4, <2>5, FunctionIsSeq
<1>4. CASE file' = [file EXCEPT ![obj[o].off].st = "torn"]
    BY <1>4, MarkType
<1> QED
    BY <1>2, <1>3, <1>4 DEF Invalidate

-----------------------------------------------------------------------------
(* Type correctness *)

\* What TypeOK needs besides itself: a record is written for a message, and nothing waits
\* for an acknowledgement before recovery() has filled the heap.
TypeInv ==
    /\ TypeOK
    /\ pc = "body" => pub /= <<>>
    /\ pc \in {"idle", "body", "relink"} => up
    /\ ~up => waitAck = Empty

\* The end of the process leaves well-typed, empty containers.
LEMMA EndsType ==
    ASSUME QueueMessageAssumption, TypeInv, ProcessEnds,
           file' \in Seq(Record), exists' \in BOOLEAN, tmp' \in Seq(Record),
           UNCHANGED pub, accepted' \in SUBSET Msg, UNCHANGED acked
    PROVE  TypeInv'
<1>1. msgs' \in Seq(1..Len(obj')) /\ obj' \in Seq(Object) /\ lst' \in Seq(Object)
    BY EmptySeqFacts DEF ProcessEnds
<1>2. durable' \in [Msg -> 0..Len(obj')] /\ waitAck' \in [Msg -> 0..Len(obj')]
    BY EmptySeqFacts DEF ProcessEnds, Empty
<1>3. pc' = "down" /\ valid_count' = 0 /\ total_count' = 0 /\ at' = 1 /\ handed' = 0
    BY DEF ProcessEnds
<1>4. pub' \in Seq([id : Msg, durable : BOOLEAN]) /\ Len(pub') <= MaxMsgs /\ acked' \in SUBSET Msg
    BY DEF TypeInv, TypeOK
<1>5. /\ pc' \in {"down", "idle", "body", "load", "swap", "removed", "loaded", "relink"}
      /\ pc' /= "body"
      /\ valid_count' \in Nat /\ total_count' \in Nat /\ at' \in Nat \ {0}
      /\ handed' \in {0} \union Msg
    BY <1>3
<1>6. up' \in BOOLEAN
    BY DEF ProcessEnds
<1>7. TypeOK'
    BY <1>1, <1>2, <1>4, <1>5, <1>6 DEF TypeOK
<1>8. pc' = "down" /\ waitAck' = Empty
    BY DEF ProcessEnds
<1> QED
    BY <1>5, <1>7, <1>8 DEF TypeInv

\* The first k messages of lst, copied, are records, and lst keeps its type.
LEMMA CopyType ==
    ASSUME QueueMessageAssumption, lst \in Seq(Object), NEW k \in 0..Len(lst), CopyToTmp(k)
    PROVE  /\ tmp' \in Seq(Record) /\ lst' \in Seq(Object)
           /\ DOMAIN tmp' = 1..k /\ \A i \in 1..k : tmp'[i].n = lst[i].n
           /\ DOMAIN lst' = DOMAIN lst /\ \A i \in DOMAIN lst : lst'[i].n = lst[i].n
<1>1. \A i \in DOMAIN lst : lst[i] \in Object
    BY ElementFacts
<1>2. PICK short \in MaybeShort(1..k) :
         tmp' = [i \in 1..k |-> [n |-> lst[i].n, st |-> IF i \in short THEN "torn" ELSE "valid"]]
    BY DEF CopyToTmp
<1>3. \A i \in 1..k : [n |-> lst[i].n, st |-> IF i \in short THEN "torn" ELSE "valid"] \in Record
    BY <1>1, ElementFacts DEF Object, Record
<1>4. tmp' \in [1..k -> Record]
    BY <1>2, <1>3
<1>5. \A i \in DOMAIN lst : [lst[i] EXCEPT !.off = i] \in Object
    BY <1>1, ElementFacts DEF Object
<1>6. lst' \in [1..Len(lst) -> Object]
    BY <1>1, <1>5, ElementFacts DEF CopyToTmp
<1>7. \A i \in DOMAIN lst : lst'[i].n = lst[i].n
    BY <1>1 DEF CopyToTmp, Object
<1>8. \A i \in 1..k : tmp'[i].n = lst[i].n
    BY <1>2
<1>9. Len(lst) \in Nat /\ k \in Nat /\ DOMAIN lst = 1..Len(lst)
    BY ElementFacts
<1>10. tmp' \in Seq(Record) /\ DOMAIN tmp' = 1..k
    BY ONLY <1>4, <1>9, FunctionIsSeq
<1>11. lst' \in Seq(Object) /\ DOMAIN lst' = DOMAIN lst
    BY ONLY <1>6, <1>9, FunctionIsSeq
<1> QED
    BY <1>7, <1>8, <1>10, <1>11

\* Start and every step of message_mapper::gc() keep the types.
LEMMA GcType ==
    ASSUME QueueMessageAssumption, TypeInv, Start \/ StartWithoutFile \/ Gc
    PROVE  TypeInv'
<1> USE DEF TypeInv, TypeOK, disk, memory, loop, history
<1>1. CASE Start
    BY <1>1, EmptySeqFacts DEF Start, BeginGc
<1>2. CASE LoadRecord
  <2>1. file[at] \in Record
    BY <1>2, ElementFacts DEF LoadRecord
  <2>2. [n |-> file[at].n, off |-> 0] \in Object
    BY <2>1 DEF Record, Object
  <2>3. lst' \in Seq(Object)
    BY <1>2, <2>2 DEF LoadRecord
  <2> QED
    BY <1>2, <2>3 DEF LoadRecord
<1>3. CASE LoadFails
    BY <1>3 DEF LoadFails
<1>4. CASE LoadDone
    BY <1>4, CopyType, ElementFacts DEF LoadDone
<1>5. CASE TmpWriteFails
  <2>1. PICK k \in DOMAIN lst : CopyToTmp(k - 1)
    BY <1>5 DEF TmpWriteFails
  <2>2. k - 1 \in 0..Len(lst)
    BY ElementFacts
  <2> QED
    BY <1>5, <2>1, <2>2, CopyType DEF TmpWriteFails
<1>6. CASE RemoveOld
    BY <1>6, EmptySeqFacts DEF RemoveOld
<1>7. CASE RemoveFails
    BY <1>7 DEF RemoveFails
<1>8. CASE Rename
    BY <1>8, EmptySeqFacts DEF Rename
<1>9. CASE RenameFails
    BY <1>9 DEF RenameFails
<1>10. CASE StartWithoutFile
    BY <1>10, EmptySeqFacts DEF StartWithoutFile, BeginGc
<1>11. CASE LoadThrows
    BY <1>11, EndsType DEF LoadThrows
<1>12. CASE LoadDamaged
  <2>1. /\ pc = "load" /\ at \in DOMAIN file
        /\ UNCHANGED <<pc, up, disk, memory, accepted, acked, handed>>
    BY <1>12 DEF LoadDamaged, Misreads
  <2>2. PICK i \in at..Len(file) :
           /\ \/ UNCHANGED <<lst, pub>>
              \/ lst' = Append(lst, [n |-> file[i].n, off |-> 0]) /\ UNCHANGED pub
              \/ \E id \in NewIds, isDurable \in BOOLEAN :
                    /\ Len(pub) < MaxMsgs
                    /\ pub' = Append(pub, [id |-> id, durable |-> isDurable])
                    /\ lst' = Append(lst, [n |-> NextMsg, off |-> 0])
           /\ at' = i + 1
    BY <1>12 DEF LoadDamaged
  <2>3. DOMAIN file = 1..Len(file) /\ Len(file) \in Nat /\ i \in DOMAIN file
    BY <2>1, ElementFacts
  <2>4. at' \in Nat \ {0}
    BY <2>2, <2>3
  <2>5. Len(pub) \in Nat
    BY ElementFacts
  <2>6. /\ lst' \in Seq(Object)
        /\ pub' \in Seq([id : Msg, durable : BOOLEAN]) /\ Len(pub') <= MaxMsgs
    <3>1. CASE UNCHANGED <<lst, pub>>
      BY <3>1
    <3>2. CASE lst' = Append(lst, [n |-> file[i].n, off |-> 0]) /\ UNCHANGED pub
      <4>1. [n |-> file[i].n, off |-> 0] \in Object
        <5>1. file[i] \in Record
          BY <2>3, ElementFacts
        <5> QED
          BY ONLY <5>1 DEF Record, Object
      <4> QED
        BY <3>2, <4>1
    <3>3. ASSUME NEW id \in NewIds, NEW isDurable \in BOOLEAN,
                 Len(pub) < MaxMsgs,
                 pub' = Append(pub, [id |-> id, durable |-> isDurable]),
                 lst' = Append(lst, [n |-> NextMsg, off |-> 0])
          PROVE  /\ lst' \in Seq(Object)
                 /\ pub' \in Seq([id : Msg, durable : BOOLEAN]) /\ Len(pub') <= MaxMsgs
      <4>1. NextMsg \in Msg /\ id \in Msg
        BY <2>5, <3>3, QueueMessageAssumption DEF NewIds, NextMsg, Msg, QueueMessageAssumption
      <4>2. /\ [n |-> NextMsg, off |-> 0] \in Object
            /\ [id |-> id, durable |-> isDurable] \in [id : Msg, durable : BOOLEAN]
        BY <4>1 DEF Object
      <4>3. lst' \in Seq(Object) /\ pub' \in Seq([id : Msg, durable : BOOLEAN])
        BY <3>3, <4>2
      <4>4. Len(pub') = Len(pub) + 1
        BY <3>3, <4>2, AppendFacts
      <4>5. Len(pub') <= MaxMsgs
        BY <2>5, <3>3, <4>4, QueueMessageAssumption DEF QueueMessageAssumption
      <4> QED
        BY <4>3, <4>5
    <3> QED
      BY <2>2, <3>1, <3>2, <3>3
  <2> QED
    BY <2>1, <2>4, <2>6
<1> QED
    BY <1>1, <1>2, <1>3, <1>4, <1>5, <1>6, <1>7, <1>8, <1>9, <1>10, <1>11, <1>12 DEF Gc

\* recovery() and queue_message::gc() keep the types.
LEMMA RelinkType ==
    ASSUME QueueMessageAssumption, TypeInv, Recover \/ Relink
    PROVE  TypeInv'
<1> USE DEF TypeInv, TypeOK, disk, memory, loop, history
<1>1. CASE Recover
  <2>1. msgs' \in [1..Len(lst) -> 1..Len(lst)]
    BY <1>1, ElementFacts DEF Recover
  <2>2. msgs' \in Seq(1..Len(obj'))
    BY <1>1, <2>1, FunctionIsSeq, ElementFacts DEF Recover
  <2>3. FirstWithId \in [Msg -> 0..Len(lst)]
    <3>1. DOMAIN lst = 1..Len(lst) /\ Len(lst) \in Nat
      BY ElementFacts
    <3>2. ASSUME NEW id \in Msg
          PROVE  FirstWithId[id] \in 0..Len(lst)
      <4> DEFINE first == {i \in DOMAIN lst :
                             /\ IdOf(lst[i].n) = id
                             /\ \A j \in 1..(i - 1) : IdOf(lst[j].n) /= id}
      <4>1. FirstWithId[id] = IF first = {} THEN 0 ELSE CHOOSE i \in first : TRUE
        BY DEF FirstWithId
      <4>2. first \subseteq 1..Len(lst)
        BY <3>1
      <4> HIDE DEF first
      <4>3. FirstWithId[id] \in {0} \union 1..Len(lst)
        <5>1. CASE first = {}
          BY <4>1, <5>1
        <5>2. CASE first /= {}
          <6>1. (CHOOSE i \in first : TRUE) \in first
            BY <5>2
          <6> QED
            BY <4>1, <4>2, <5>2, <6>1
        <5> QED
          BY <5>1, <5>2
      <4> QED
        BY <3>1, <4>3
    <3> QED
      BY <3>2 DEF FirstWithId
  <2>4. Len(lst) \in Nat
    BY ElementFacts
  <2>5. waitAck' \in [Msg -> 0..Len(obj')]
    BY <1>1, <2>4 DEF Recover, Empty
  <2>6. durable' \in [Msg -> 0..Len(obj')] /\ obj' \in Seq(Object)
    BY <1>1, <2>3 DEF Recover
  <2>7. valid_count' \in Nat /\ total_count' \in Nat /\ lst' \in Seq(Object) /\ at' \in Nat \ {0}
    BY <1>1, <2>4, EmptySeqFacts DEF Recover
  <2>8. up' = TRUE /\ pc' = "idle"
    BY <1>1 DEF Recover
  <2>9. UNCHANGED <<disk, history>>
    BY <1>1 DEF Recover
  <2> QED
    BY <2>2, <2>5, <2>6, <2>7, <2>8, <2>9
<1>2. CASE CheckGc
    BY <1>2 DEF CheckGc
<1>3. CASE AbortGc
    BY <1>3, EndsType DEF AbortGc
<1>4. CASE RelinkFound
  <2> DEFINE o == durable[IdOf(lst[at].n)]
  <2>1. o /= 0 /\ obj' = [obj EXCEPT ![o].off = lst[at].off] /\ at \in DOMAIN lst
    BY <1>4 DEF RelinkFound
  <2>2. lst[at] \in Object
    BY <2>1, ElementFacts
  <2>3. obj' \in Seq(Object) /\ Len(obj') = Len(obj)
    <3> DEFINE v == lst[at].off
    <3>1. obj' = [obj EXCEPT ![o].off = v] /\ v \in Nat /\ obj \in Seq(Object)
      BY <2>1, <2>2 DEF Object
    <3> HIDE DEF o, v
    <3>2. CASE o \in DOMAIN obj
      <4> DEFINE t == [obj EXCEPT ![o].off = v]
      <4>1. t \in Seq(Object) /\ Len(t) = Len(obj)
        BY ONLY <3>1, <3>2, SetOffset
      <4> QED
        BY ONLY <3>1, <4>1
    <3>3. CASE o \notin DOMAIN obj
      <4>1. obj' = obj
        BY <3>1, <3>3, ElementFacts
      <4> QED
        BY <3>1, <4>1
    <3> QED
      BY <3>2, <3>3
  <2>4. at' \in Nat \ {0}
    <3>1. at' = at + 1
      BY <1>4 DEF RelinkFound
    <3>2. at \in Nat
      OBVIOUS
    <3> QED
      BY ONLY <3>1, <3>2
  <2> QED
    BY <1>4, <2>3, <2>4 DEF RelinkFound
<1>5. CASE RelinkMissed
  <2> DEFINE o == Len(obj) + 1
             id == IdOf(lst[at].n)
  <2>1. /\ obj' = Append(obj, lst[at]) /\ msgs' = Append(msgs, o)
        /\ durable' = [durable EXCEPT ![id] = o] /\ at \in DOMAIN lst
    BY <1>5 DEF RelinkMissed
  <2>2. lst[at] \in Object
    BY <2>1, ElementFacts
  <2>3. obj' \in Seq(Object) /\ Len(obj') = Len(obj) + 1 /\ Len(obj) \in Nat
    BY <2>1, <2>2, AppendFacts, ElementFacts
  <2>4. 1..Len(obj) \subseteq 1..Len(obj') /\ o \in 1..Len(obj')
    BY <2>3
  <2>5. msgs' \in Seq(1..Len(obj'))
    BY <2>1, <2>4, SeqGrows, AppendFacts
  <2>6. waitAck' \in [Msg -> 0..Len(obj')]
    BY <1>5, <2>3 DEF RelinkMissed
  <2>8. durable' \in [Msg -> 0..Len(obj')]
    <3>1. 0..Len(obj) \subseteq 0..Len(obj') /\ o \in 0..Len(obj')
      BY <2>3
    <3> HIDE DEF id
    <3> QED
      BY <2>1, <3>1
  <2>7. at' \in Nat \ {0}
    BY <1>5 DEF RelinkMissed
  <2> QED
    BY <1>5, <2>3, <2>5, <2>6, <2>7, <2>8 DEF RelinkMissed
<1>6. CASE RelinkDone
    BY <1>6, EmptySeqFacts DEF RelinkDone
<1> QED
    BY <1>1, <1>2, <1>3, <1>4, <1>5, <1>6 DEF Relink

\* Enqueue puts an object on the heap and its reference in __msgs.
LEMMA EnqueueType ==
    ASSUME QueueMessageAssumption, TypeInv, NEW n \in Msg, NEW off \in Nat, Enqueue(n, off)
    PROVE  /\ obj' \in Seq(Object) /\ Len(obj') = Len(obj) + 1 /\ Len(obj) \in Nat
           /\ msgs' \in Seq(1..Len(obj'))
           /\ accepted' \in SUBSET Msg
           /\ \A map \in [Msg -> 0..Len(obj)] : map \in [Msg -> 0..Len(obj')]
           /\ \A map \in [Msg -> 0..Len(obj)], id \in Msg :
                 Put(map, id, Len(obj) + 1) \in [Msg -> 0..Len(obj')]
<1>1. obj \in Seq(Object) /\ msgs \in Seq(1..Len(obj)) /\ accepted \in SUBSET Msg
    BY DEF TypeInv, TypeOK
<1>2. [n |-> n, off |-> off] \in Object
    BY DEF Object
<1>3. obj' \in Seq(Object) /\ Len(obj') = Len(obj) + 1 /\ Len(obj) \in Nat
    BY <1>1, <1>2, AppendFacts DEF Enqueue
<1>4. 1..Len(obj) \subseteq 1..Len(obj') /\ 0..Len(obj) \subseteq 0..Len(obj')
    BY <1>3
<1>5. msgs' \in Seq(1..Len(obj'))
    BY <1>1, <1>3, <1>4, SeqGrows DEF Enqueue
<1>6. accepted' \in SUBSET Msg
    BY <1>1 DEF Enqueue
<1>7. \A map \in [Msg -> 0..Len(obj)] : map \in [Msg -> 0..Len(obj')]
    BY <1>4
<1>8. \A map \in [Msg -> 0..Len(obj)], id \in Msg :
         Put(map, id, Len(obj) + 1) \in [Msg -> 0..Len(obj')]
    BY <1>3, <1>4, <1>7 DEF Put
<1> QED
    BY <1>3, <1>5, <1>6, <1>7, <1>8

\* An insertion gets the next number and one of the ids.
LEMMA AttemptType ==
    ASSUME QueueMessageAssumption, TypeInv, NEW d \in BOOLEAN, \E id \in NewIds : Attempt(id, d)
    PROVE  /\ pc = "idle" /\ NextMsg \in Msg /\ Len(pub) \in Nat
           /\ pub' \in Seq([id : Msg, durable : BOOLEAN]) /\ Len(pub') = NextMsg
           /\ Len(pub') <= MaxMsgs /\ pub' /= <<>>
<1>1. PICK id \in NewIds : Attempt(id, d)
    OBVIOUS
<1>2. pub \in Seq([id : Msg, durable : BOOLEAN]) /\ Len(pub) \in Nat /\ Len(pub) < MaxMsgs
    BY <1>1, ElementFacts DEF TypeInv, TypeOK, Attempt
<1>3. NextMsg \in Msg /\ id \in Msg
    BY <1>2, QueueMessageAssumption DEF NewIds, NextMsg, Msg, QueueMessageAssumption
<1>4. [id |-> id, durable |-> d] \in [id : Msg, durable : BOOLEAN]
    BY <1>3
<1> QED
    BY <1>1, <1>2, <1>3, <1>4, AppendFacts DEF Attempt, NextMsg

\* insert() keeps the types.
LEMMA InsertType ==
    ASSUME QueueMessageAssumption, TypeInv, Insert
    PROVE  TypeInv'
<1> USE DEF TypeInv, TypeOK, disk, memory, loop, history
<1>1. CASE InsertTransient
  <2>1. /\ NextMsg \in Msg /\ Enqueue(NextMsg, 0) /\ pc = "idle"
        /\ pub' \in Seq([id : Msg, durable : BOOLEAN]) /\ Len(pub') <= MaxMsgs
    BY <1>1, AttemptType DEF InsertTransient
  <2>2. /\ obj' \in Seq(Object) /\ msgs' \in Seq(1..Len(obj')) /\ accepted' \in SUBSET Msg
        /\ durable' \in [Msg -> 0..Len(obj')] /\ waitAck' \in [Msg -> 0..Len(obj')]
    BY <1>1, <2>1, EnqueueType DEF InsertTransient
  <2> QED
    BY <1>1, <2>1, <2>2 DEF InsertTransient
<1>2. CASE InsertHeader
  <2>1. /\ NextMsg \in Msg /\ pub' /= <<>> /\ pc = "idle"
        /\ pub' \in Seq([id : Msg, durable : BOOLEAN]) /\ Len(pub') <= MaxMsgs
    BY <1>2, AttemptType DEF InsertHeader
  <2>2. [n |-> NextMsg, st |-> "torn"] \in Record
    BY <2>1 DEF Record
  <2>3. file' \in Seq(Record)
    BY <1>2, <2>2 DEF InsertHeader
  <2> QED
    BY <1>2, <2>1, <2>3 DEF InsertHeader
<1>3. CASE InsertBody
  <2>1. /\ Len(pub) \in Msg /\ IdOf(Len(pub)) \in Msg
    <3>1. pub /= <<>> /\ Len(pub) <= MaxMsgs /\ pub \in Seq([id : Msg, durable : BOOLEAN])
      BY <1>3 DEF InsertBody
    <3>2. Len(pub) \in Nat /\ Len(pub) > 0 /\ pub[Len(pub)] \in [id : Msg, durable : BOOLEAN]
      BY <3>1, LastFacts
    <3>3. Len(pub) \in Msg
      BY ONLY <3>1, <3>2, QueueMessageAssumption DEF Msg, QueueMessageAssumption
    <3>4. pub[Len(pub)].id \in Msg
      BY ONLY <3>2
    <3> QED
      BY ONLY <3>3, <3>4 DEF IdOf
  <2>2. Len(file) \in Nat /\ Enqueue(Len(pub), Len(file))
    BY <1>3, ElementFacts DEF InsertBody
  <2>3. /\ obj' \in Seq(Object) /\ msgs' \in Seq(1..Len(obj')) /\ accepted' \in SUBSET Msg
        /\ durable' \in [Msg -> 0..Len(obj')] /\ waitAck' \in [Msg -> 0..Len(obj')]
    BY <1>3, <2>1, <2>2, EnqueueType DEF InsertBody
  <2>4. file' \in Seq(Record)
    <3>1. PICK short \in MaybeShort({Len(file)}) :
             file' = [file EXCEPT ![Len(file)].st = IF short = {} THEN "valid" ELSE "torn"]
      BY <1>3 DEF InsertBody
    <3> QED
      BY <3>1, MarkType
  <2>5. valid_count' \in Nat /\ total_count' \in Nat /\ pc' = "idle"
    <3>1. valid_count' = valid_count + 1 /\ total_count' = total_count + 1 /\ pc' = "idle"
      BY <1>3 DEF InsertBody
    <3>2. valid_count \in Nat /\ total_count \in Nat
      OBVIOUS
    <3> QED
      BY ONLY <3>1, <3>2
  <2> QED
    BY <1>3, <2>3, <2>4, <2>5 DEF InsertBody
<1>4. CASE InsertBodyFails
    BY <1>4 DEF InsertBodyFails
<1>5. CASE InsertRejected
    BY <1>5, AttemptType DEF InsertRejected
<1>6. CASE InsertHeaderFails
  <2>1. /\ NextMsg \in Msg /\ pub' /= <<>> /\ pc = "idle"
        /\ pub' \in Seq([id : Msg, durable : BOOLEAN]) /\ Len(pub') <= MaxMsgs
    BY <1>6, AttemptType DEF InsertHeaderFails
  <2>2. [n |-> NextMsg, st |-> "torn"] \in Record
    BY <2>1 DEF Record
  <2>3. file' \in Seq(Record)
    <3>1. file' = file \/ file' = Append(file, [n |-> NextMsg, st |-> "torn"])
      BY <1>6 DEF InsertHeaderFails
    <3>2. file \in Seq(Record)
      OBVIOUS
    <3> QED
      BY ONLY <2>2, <3>1, <3>2
  <2> QED
    BY <1>6, <2>1, <2>3 DEF InsertHeaderFails
<1> QED
    BY <1>1, <1>2, <1>3, <1>4, <1>5, <1>6 DEF Insert

\* front() and remove() keep the types.
LEMMA FrontAckType ==
    ASSUME QueueMessageAssumption, TypeInv, Front \/ Ack
    PROVE  TypeInv'
<1> USE DEF TypeInv, TypeOK, disk, memory, loop, history
<1>1. CASE Front
  <2>1. /\ Head(msgs) \in 1..Len(obj) /\ msgs' \in Seq(1..Len(obj))
    BY <1>1, TailFacts DEF Front
  <2>2. obj[Head(msgs)] \in Object
    BY <2>1, ElementFacts
  <2>3. handed' \in Msg
    BY <1>1, <2>2 DEF Front, Object
  <2>4. waitAck' \in [Msg -> 0..Len(obj)]
    <3> DEFINE o == Head(msgs)
               id == IdOf(obj[o].n)
    <3>1. waitAck' = Put(waitAck, id, o) /\ waitAck \in [Msg -> 0..Len(obj)] /\ o \in 1..Len(obj)
      BY <1>1, <2>1 DEF Front
    <3> HIDE DEF o, id
    <3> QED
      BY ONLY <3>1, PutType
  <2> QED
    BY <1>1, <2>1, <2>3, <2>4 DEF Front
<1>2. ASSUME NEW id \in Msg, Forget(id)
      PROVE  /\ waitAck' \in [Msg -> 0..Len(obj)] /\ acked' \in SUBSET Msg /\ pc = "idle"
             /\ obj[waitAck[id]] \in Object
  <2>1. waitAck[id] \in 1..Len(obj)
    BY <1>2, ElementFacts DEF Forget
  <2>2. obj[waitAck[id]] \in Object
    BY <2>1, ElementFacts
  <2>3. acked' \in SUBSET Msg
    BY <1>2, <2>2 DEF Forget, Object
  <2>4. 0 \in 0..Len(obj)
    BY ElementFacts
  <2> QED
    BY <1>2, <2>2, <2>3, <2>4 DEF Forget
<1>3. ASSUME NEW id \in Msg, AckTransient(id)
      PROVE  TypeInv'
    BY <1>2, <1>3 DEF AckTransient
<1>4. ASSUME NEW id \in Msg, AckDurable(id)
      PROVE  TypeInv'
  <2>1. /\ waitAck' \in [Msg -> 0..Len(obj)] /\ acked' \in SUBSET Msg /\ pc = "idle"
        /\ obj[waitAck[id]] \in Object
    BY <1>2, <1>4 DEF AckDurable
  <2>2. file' \in Seq(Record)
    BY <1>4, <2>1, InvalidateType DEF AckDurable
  <2>3. durable' \in [Msg -> 0..Len(obj)]
    <3>1. 0 \in 0..Len(obj)
      BY ElementFacts
    <3> QED
      BY <1>4, <3>1 DEF AckDurable
  <2>4. valid_count' \in Nat
    BY <1>4 DEF AckDurable, Decrement, QueueMessageAssumption
  <2>5. pc' \in {"idle", "load"} /\ lst' \in Seq(Object) /\ at' \in Nat \ {0}
    <3>1. CASE BeginGc
      BY <3>1, EmptySeqFacts DEF BeginGc
    <3>2. CASE UNCHANGED <<pc, loop>>
      BY <2>1, <3>2
    <3> QED
      BY <1>4, <3>1, <3>2 DEF AckDurable
  <2>6. up' = up /\ up
    BY <1>4, <2>1 DEF AckDurable
  <2>7. UNCHANGED <<exists, tmp, obj, msgs, total_count, pub, accepted, handed>>
    BY <1>4 DEF AckDurable
  <2> QED
    BY <2>1, <2>2, <2>3, <2>4, <2>5, <2>6, <2>7
<1> QED
    BY <1>1, <1>3, <1>4 DEF Ack

\* Every step keeps the types.
LEMMA StepType ==
    ASSUME QueueMessageAssumption, TypeInv, [Next]_vars
    PROVE  TypeInv'
<1>1. CASE UNCHANGED vars
    BY <1>1 DEF vars, disk, memory, loop, history, TypeInv, TypeOK
<1>2. CASE Crash
  <2>1. /\ ProcessEnds
        /\ file' \in Seq(Record) /\ exists' \in BOOLEAN /\ tmp' \in Seq(Record)
        /\ UNCHANGED pub /\ accepted' \in SUBSET Msg /\ UNCHANGED acked
    BY <1>2 DEF Crash, disk, TypeInv, TypeOK
  <2> QED
    BY <2>1, EndsType
<1>3. CASE Clear
  <2>1. /\ ProcessEnds
        /\ file' \in Seq(Record) /\ exists' \in BOOLEAN /\ tmp' \in Seq(Record)
        /\ UNCHANGED pub /\ accepted' \in SUBSET Msg /\ UNCHANGED acked
    BY <1>3, EmptySeqFacts DEF Clear
  <2> QED
    BY <2>1, EndsType
<1>4. CASE ClearFails
  <2>1. /\ ProcessEnds
        /\ file' \in Seq(Record) /\ exists' \in BOOLEAN /\ tmp' \in Seq(Record)
        /\ UNCHANGED pub /\ accepted' \in SUBSET Msg /\ UNCHANGED acked
    BY <1>4 DEF ClearFails, disk, TypeInv, TypeOK
  <2> QED
    BY <2>1, EndsType
<1> QED
    BY <1>1, <1>2, <1>3, <1>4, GcType, RelinkType, InsertType, FrontAckType DEF Next

\* The initial containers are well typed.
LEMMA InitType ==
    ASSUME Init
    PROVE  TypeInv
<1>1. durable \in [Msg -> 0..Len(obj)] /\ waitAck \in [Msg -> 0..Len(obj)]
    BY EmptySeqFacts DEF Init, Empty
<1>2. up \in BOOLEAN /\ exists \in BOOLEAN
    BY DEF Init
<1> QED
    BY <1>1, <1>2, EmptySeqFacts, QueueMessageAssumption
    DEF Init, TypeInv, TypeOK, QueueMessageAssumption

\* TypeOK is an invariant: whichever of the operations on the files fails and wherever the
\* process dies, also when __load() misreads the file, the containers of queue_message
\* never hold a reference to an object that does not exist.
THEOREM TypeCorrect == Spec => []TypeOK
<1>1. Init => TypeInv
    BY InitType
<1>2. TypeInv /\ [Next]_vars => TypeInv'
    BY StepType, QueueMessageAssumption
<1>3. TypeInv => TypeOK
    BY DEF TypeInv
<1> QED
    BY <1>1, <1>2, <1>3, PTL DEF Spec

-----------------------------------------------------------------------------
(* Safety: the inductive invariant of QueueMessageProperties is preserved by every step. *)

\* Inductive, with the types it is about.
IInv == TypeInv /\ Inductive

\* The parts of the invariant as facts, with the lengths and domains the steps use.
LEMMA Unfold ==
    ASSUME IInv
    PROVE  /\ InvHistory /\ InvPhase /\ InvFile /\ InvDisk
           /\ InvObjects /\ InvTracked /\ InvOffsets /\ InvGc
           /\ file \in Seq(Record) /\ tmp \in Seq(Record) /\ lst \in Seq(Object) /\ obj \in Seq(Object)
           /\ msgs \in Seq(1..Len(obj)) /\ pub \in Seq([id : Msg, durable : BOOLEAN])
           /\ durable \in [Msg -> 0..Len(obj)] /\ waitAck \in [Msg -> 0..Len(obj)]
           /\ accepted \in SUBSET Msg /\ acked \in SUBSET Msg
           /\ at \in Nat \ {0} /\ handed \in Nat
           /\ Len(file) \in Nat /\ DOMAIN file = 1..Len(file)
           /\ Len(tmp) \in Nat /\ DOMAIN tmp = 1..Len(tmp)
           /\ Len(lst) \in Nat /\ DOMAIN lst = 1..Len(lst)
           /\ Len(obj) \in Nat /\ DOMAIN obj = 1..Len(obj)
           /\ Len(pub) \in Nat /\ DOMAIN pub = 1..Len(pub)
           /\ Len(msgs) \in Nat /\ DOMAIN msgs = 1..Len(msgs)
<1>1. TypeOK /\ Inductive
    BY DEF IInv, TypeInv
<1>2. handed \in Nat
    BY <1>1 DEF TypeOK, Msg
<1> QED
    BY <1>1, <1>2, ElementFacts DEF TypeOK, Inductive

\* Without failures no write is short.
LEMMA NoneShort ==
    ASSUME IOFails = {}, NEW S
    PROVE  MaybeShort(S) = {{}}
    BY DEF MaybeShort

\* Between two insertions every record is whole, and the reader keeps its place.
LEMMA NeverLost ==
    ASSUME InvFile, pc /= "body", file \in Seq(Record)
    PROVE  /\ \A i \in DOMAIN file : file[i].st /= "torn"
           /\ \A i \in DOMAIN file : ~Lost(i)
<1>1. \A i \in DOMAIN file : file[i].st /= "torn"
    BY DEF InvFile
<1>2. DOMAIN file = 1..Len(file) /\ Len(file) \in Nat
    BY ElementFacts
<1> QED
    BY <1>1, <1>2 DEF Lost

\* What does not depend on the files survives a step that only touches them.
LEMMA MemoryFrame ==
    ASSUME InvHistory, InvObjects, InvTracked, pc /= "body", pc' /= "body",
           UNCHANGED <<obj, msgs, durable, waitAck, pub, accepted, acked, handed, up>>
    PROVE  InvHistory' /\ InvObjects' /\ InvTracked'
<1>1. LastNow' = LastNow
    BY DEF LastNow
<1>2. InvHistory'
    BY <1>1 DEF InvHistory
<1>3. InvObjects'
    BY DEF InvObjects, Increasing, NumberOf
<1>4. InvTracked'
    BY DEF InvTracked, NoResurrection, DeliveryInOrder, Held, InMsgs, InWaitAck, Owed,
           NumberOf, IsDurable
<1> QED
    BY <1>2, <1>3, <1>4

LEMMA FileFrame ==
    ASSUME InvFile, InvDisk, pc \notin {"body", "removed"}, pc' \notin {"idle", "body"},
           UNCHANGED <<file, pub, accepted, acked>>
    PROVE  InvFile' /\ InvDisk' /\ InvOffsets'
<1>1. InvFile'
    BY DEF InvFile, Increasing, IsDurable
<1>2. OnDisk' = OnDisk
    BY DEF OnDisk
<1>3. Owed' = Owed
    BY DEF Owed, IsDurable
<1>4. InvDisk'
    BY <1>2, <1>3 DEF InvDisk
<1>5. InvOffsets'
    BY DEF InvOffsets
<1> QED
    BY <1>1, <1>4, <1>5

-----------------------------------------------------------------------------
(* message_mapper::gc() *)

\* create_msg_file() and the start of recovery().
LEMMA StartStep ==
    ASSUME IInv, Start
    PROVE  Inductive'
<1> USE Unfold
<1>1. /\ pc = "down" /\ pc' = "load" /\ exists' = TRUE /\ lst' = <<>> /\ at' = 1
      /\ UNCHANGED <<up, file, tmp, obj, msgs, durable, waitAck, pub, accepted, acked, handed>>
    BY DEF Start, BeginGc, memory, history
<1>2. InvHistory' /\ InvObjects' /\ InvTracked'
    BY <1>1, MemoryFrame
<1>3. InvPhase'
    BY <1>1 DEF InvPhase
<1>4. InvFile' /\ InvDisk' /\ InvOffsets'
    BY <1>1, FileFrame DEF IInv, Inductive
<1>5. InvGc'
    BY <1>1, EmptySeqFacts DEF InvGc, Increasing, Loaded
<1> QED
    BY <1>2, <1>3, <1>4, <1>5 DEF Inductive

\* __load() reads a record.
LEMMA LoadRecordStep ==
    ASSUME IInv, LoadRecord
    PROVE  Inductive'
<1> USE Unfold
<1>1. /\ pc = "load" /\ pc' = "load" /\ at' = at + 1 /\ at \in DOMAIN file
      /\ lst' = IF file[at].st = "valid" THEN Append(lst, [n |-> file[at].n, off |-> 0]) ELSE lst
      /\ UNCHANGED <<up, file, exists, tmp, obj, msgs, durable, waitAck, pub, accepted, acked, handed>>
    BY DEF LoadRecord, disk, memory, history
<1>2. InvHistory' /\ InvObjects' /\ InvTracked'
    BY <1>1, MemoryFrame
<1>3. InvPhase'
    BY <1>1 DEF InvPhase
<1>4. InvFile' /\ InvDisk' /\ InvOffsets'
    BY <1>1, FileFrame DEF IInv, Inductive
<1>5. Increasing(lst') /\ Loaded' = {file[i].n : i \in {k \in DOMAIN file : k < at + 1 /\ file[k].st = "valid"}}
  <2>1. Loaded = {file[i].n : i \in {k \in DOMAIN file : k < at /\ file[k].st = "valid"}}
    BY <1>1 DEF InvGc
  <2>2. CASE file[at].st = "valid"
    <3>1. /\ Len(lst') = Len(lst) + 1 /\ DOMAIN lst' = 1..(Len(lst) + 1)
          /\ \A i \in 1..Len(lst) : lst'[i] = lst[i]
          /\ lst'[Len(lst) + 1] = [n |-> file[at].n, off |-> 0]
      BY <1>1, <2>2, AppendFacts
    <3>2. \A i \in 1..Len(lst) : lst[i].n < file[at].n
      <4>1. ASSUME NEW i \in 1..Len(lst) PROVE lst[i].n < file[at].n
        <5>1. lst[i].n \in Loaded
          BY DEF Loaded
        <5>2. PICK k \in DOMAIN file : k < at /\ file[k].n = lst[i].n
          BY <2>1, <5>1
        <5> QED
          BY <1>1, <5>2 DEF InvFile, Increasing
      <4> QED
        BY <4>1
    <3>3. Increasing(lst')
      <4>1. \A i, j \in 1..Len(lst) : i < j => lst[i].n < lst[j].n
        BY DEF InvGc, Increasing
      <4>2. Len(lst) \in Nat
        OBVIOUS
      <4> QED
        BY ONLY <3>1, <3>2, <4>1, <4>2 DEF Increasing
    <3>4. Loaded' = Loaded \union {file[at].n}
      <4>1. Len(lst) \in Nat /\ DOMAIN lst = 1..Len(lst)
        OBVIOUS
      <4>2. 1..(Len(lst) + 1) = (1..Len(lst)) \union {Len(lst) + 1}
        BY ONLY <4>1
      <4> QED
        BY ONLY <3>1, <4>1, <4>2 DEF Loaded
    <3>5. {k \in DOMAIN file : k < at + 1 /\ file[k].st = "valid"}
            = {k \in DOMAIN file : k < at /\ file[k].st = "valid"} \union {at}
      <4>1. DOMAIN file = 1..Len(file) /\ Len(file) \in Nat /\ at \in 1..Len(file)
        BY <1>1
      <4> QED
        BY ONLY <2>2, <4>1
    <3> QED
      BY ONLY <2>1, <3>3, <3>4, <3>5
  <2>3. CASE file[at].st /= "valid"
    <3>1. lst' = lst
      BY <1>1, <2>3
    <3>2. {k \in DOMAIN file : k < at + 1 /\ file[k].st = "valid"}
            = {k \in DOMAIN file : k < at /\ file[k].st = "valid"}
      <4>1. DOMAIN file = 1..Len(file) /\ Len(file) \in Nat /\ at \in 1..Len(file)
        BY <1>1
      <4> QED
        BY ONLY <2>3, <4>1
    <3>3. Increasing(lst)
      BY DEF InvGc
    <3> QED
      BY ONLY <2>1, <3>1, <3>2, <3>3 DEF Increasing, Loaded
  <2> QED
    BY <2>2, <2>3
<1>6. InvGc'
    BY <1>1, <1>5 DEF InvGc, Increasing
<1> QED
    BY <1>2, <1>3, <1>4, <1>6 DEF Inductive

\* The loaded messages are copied to the temporary file.
LEMMA LoadDoneStep ==
    ASSUME IInv, IOFails = {}, LoadDone
    PROVE  Inductive'
<1> USE Unfold
<1>1. /\ pc = "load" /\ pc' = "swap" /\ at = Len(file) + 1 /\ CopyToTmp(Len(lst))
      /\ UNCHANGED <<up, file, exists, obj, msgs, durable, waitAck, pub, accepted, acked, handed>>
    BY DEF LoadDone, memory, history
<1>2. InvHistory' /\ InvObjects' /\ InvTracked'
    BY <1>1, MemoryFrame
<1>3. InvPhase'
    BY <1>1 DEF InvPhase
<1>4. InvFile' /\ InvDisk' /\ InvOffsets'
    BY <1>1, FileFrame DEF IInv, Inductive
<1>5. /\ DOMAIN lst' = 1..Len(lst) /\ Len(lst') = Len(lst) /\ Len(tmp') = Len(lst)
      /\ \A i \in 1..Len(lst) : /\ lst'[i].n = lst[i].n /\ lst'[i].off = i
                                /\ tmp'[i] = [n |-> lst[i].n, st |-> "valid"]
  <2>1. lst' \in Seq(Object) /\ tmp' \in Seq(Record)
    <3>1. Len(lst) \in 0..Len(lst) /\ lst \in Seq(Object) /\ CopyToTmp(Len(lst))
      BY <1>1
    <3> QED
      BY ONLY <3>1, CopyType, QueueMessageAssumption
  <2>6. tmp' = [i \in 1..Len(lst) |-> [n |-> lst[i].n, st |-> "valid"]]
    <3>1. PICK short \in MaybeShort(1..Len(lst)) :
             tmp' = [i \in 1..Len(lst) |->
                       [n |-> lst[i].n, st |-> IF i \in short THEN "torn" ELSE "valid"]]
      BY <1>1 DEF CopyToTmp
    <3>2. short = {}
      BY <3>1, NoneShort
    <3> QED
      BY <3>1, <3>2
  <2>2. DOMAIN lst' = 1..Len(lst) /\ DOMAIN tmp' = 1..Len(lst)
    BY <1>1, <2>6 DEF CopyToTmp
  <2>3. \A i \in 1..Len(lst) : lst[i] \in Object
    BY ElementFacts
  <2>4. \A i \in 1..Len(lst) : lst'[i].n = lst[i].n /\ lst'[i].off = i
    BY <1>1, <2>3 DEF CopyToTmp, Object
  <2>5. \A i \in 1..Len(lst) : tmp'[i] = [n |-> lst[i].n, st |-> "valid"]
    BY <2>6
  <2> QED
    BY <2>1, <2>2, <2>4, <2>5, ElementFacts
<1>6. Loaded' = Owed
  <2>1. Loaded' = Loaded
    BY <1>5 DEF Loaded
  <2>2. Loaded = {file[i].n : i \in {k \in DOMAIN file : k < at /\ file[k].st = "valid"}}
    BY <1>1 DEF InvGc
  <2>3. Loaded = OnDisk
    BY <1>1, <2>2 DEF OnDisk
  <2> QED
    BY <1>1, <2>1, <2>3 DEF InvDisk
<1>7. InvGc'
  <2>1. Holds(tmp)'
    <3>1. Len(tmp') = Len(lst')
      BY <1>5
    <3>2. \A i \in DOMAIN lst' : lst'[i].off = i /\ tmp'[i] = [n |-> lst'[i].n, st |-> "valid"]
      BY ONLY <1>5
    <3> QED
      BY ONLY <3>1, <3>2 DEF Holds
  <2>2. Increasing(lst')
    <3>1. Increasing(lst) /\ DOMAIN lst = 1..Len(lst)
      BY DEF InvGc
    <3> QED
      BY ONLY <1>5, <3>1 DEF Increasing
  <2>3. Owed' = Owed
    BY <1>1 DEF Owed, IsDurable
  <2> QED
    BY ONLY <1>1, <1>6, <2>1, <2>2, <2>3 DEF InvGc, Increasing
<1> QED
    BY <1>2, <1>3, <1>4, <1>7 DEF Inductive

\* The old data file is removed.
LEMMA RemoveOldStep ==
    ASSUME IInv, RemoveOld
    PROVE  Inductive'
<1> USE Unfold
<1>1. /\ pc = "swap" /\ pc' = "removed" /\ file' = <<>> /\ exists' = FALSE
      /\ UNCHANGED <<up, tmp, lst, at, obj, msgs, durable, waitAck, pub, accepted, acked, handed>>
    BY DEF RemoveOld, memory, loop, history
<1>2. InvHistory' /\ InvObjects' /\ InvTracked'
    BY <1>1, MemoryFrame
<1>3. InvPhase'
    BY <1>1 DEF InvPhase
<1>4. InvFile' /\ InvDisk' /\ InvOffsets'
    BY <1>1, EmptySeqFacts DEF InvFile, InvDisk, InvOffsets, Increasing
<1>5. InvGc'
  <2>1. Increasing(lst) /\ Loaded = Owed /\ Holds(tmp)
    BY <1>1 DEF InvGc
  <2>2. Loaded' = Loaded /\ Owed' = Owed
    BY <1>1 DEF Loaded, Owed, IsDurable
  <2> QED
    BY ONLY <1>1, <2>1, <2>2 DEF InvGc, Increasing, Holds
<1> QED
    BY <1>2, <1>3, <1>4, <1>5 DEF Inductive

\* The temporary file becomes the data file.
LEMMA RenameStep ==
    ASSUME IInv, Rename
    PROVE  Inductive'
<1> USE Unfold
<1>1. /\ pc = "removed" /\ pc' = "loaded" /\ file' = tmp /\ exists' = TRUE
      /\ UNCHANGED <<up, lst, at, obj, msgs, durable, waitAck, pub, accepted, acked, handed>>
    BY DEF Rename, memory, loop, history
<1>2. InvHistory' /\ InvObjects' /\ InvTracked'
    BY <1>1, MemoryFrame
<1>3. InvPhase'
    BY <1>1 DEF InvPhase
<1>4. Increasing(lst) /\ Loaded = Owed /\ Holds(tmp)
    BY <1>1 DEF InvGc
<1>5. /\ DOMAIN tmp = DOMAIN lst
      /\ \A i \in DOMAIN tmp : tmp[i].n = lst[i].n /\ tmp[i].st = "valid" /\ lst[i].n \in Owed
  <2>1. DOMAIN tmp = DOMAIN lst
    BY <1>4 DEF Holds
  <2>2. \A i \in DOMAIN lst : lst[i].n \in Owed
    BY <1>4 DEF Loaded
  <2> QED
    BY ONLY <1>4, <2>1, <2>2 DEF Holds
<1>6. \A n \in Owed : n \in DOMAIN pub /\ IsDurable(n)
    BY <1>1 DEF InvHistory, LastNow, Owed
<1>7. InvFile'
  <2>1. Increasing(tmp)
    BY ONLY <1>4, <1>5 DEF Increasing
  <2> QED
    BY ONLY <1>1, <1>5, <1>6, <2>1 DEF InvFile, Increasing, IsDurable
<1>8. InvDisk'
  <2>1. OnDisk' = Loaded
    BY ONLY <1>1, <1>5 DEF OnDisk, Loaded
  <2>2. Owed' = Owed
    BY <1>1 DEF Owed, IsDurable
  <2> QED
    BY <1>4, <2>1, <2>2 DEF InvDisk
<1>9. InvOffsets'
    BY <1>1 DEF InvOffsets
<1>10. InvGc'
  <2>1. Loaded' = Loaded /\ Owed' = Owed
    BY <1>1 DEF Loaded, Owed, IsDurable
  <2> QED
    BY ONLY <1>1, <1>4, <2>1 DEF InvGc, Increasing, Holds
<1> QED
    BY <1>2, <1>3, <1>7, <1>8, <1>9, <1>10 DEF Inductive

-----------------------------------------------------------------------------
(* queue_message, after gc() has returned *)

\* The assertion holds and the loop over the loaded messages begins.
LEMMA CheckGcStep ==
    ASSUME IInv, CheckGc
    PROVE  Inductive'
<1> USE Unfold
<1>1. /\ pc = "loaded" /\ pc' = "relink" /\ at' = 1 /\ up
      /\ UNCHANGED <<up, file, exists, tmp, lst, obj, msgs, durable, waitAck, pub, accepted, acked, handed>>
    BY DEF CheckGc, disk, memory, history
<1>2. InvHistory' /\ InvObjects' /\ InvTracked'
    BY <1>1, MemoryFrame
<1>3. InvPhase'
    BY <1>1 DEF InvPhase
<1>4. InvFile' /\ InvDisk' /\ InvOffsets'
    BY <1>1, FileFrame DEF IInv, Inductive
<1>5. InvGc'
  <2>1. Increasing(lst) /\ Loaded = Owed /\ Holds(file)
    BY <1>1 DEF InvGc
  <2>2. Loaded' = Loaded /\ Owed' = Owed
    BY <1>1 DEF Loaded, Owed, IsDurable
  <2>3. Len(lst) \in Nat /\ DOMAIN lst = 1..Len(lst)
    OBVIOUS
  <2> QED
    BY ONLY <1>1, <2>1, <2>2, <2>3 DEF InvGc, Increasing, Holds
<1> QED
    BY <1>2, <1>3, <1>4, <1>5 DEF Inductive

\* A publisher's id is the number of its message.
LEMMA IdIsNumber ==
    ASSUME IInv
    PROVE  /\ \A n \in DOMAIN pub : IdOf(n) = n
           /\ \A n \in Owed : n \in DOMAIN pub /\ n \in Msg /\ IdOf(n) = n /\ IsDurable(n)
<1> USE Unfold
<1>1. \A n \in DOMAIN pub : IdOf(n) = n
    BY DEF InvHistory, IdOf
<1>2. \A n \in Owed : n \in DOMAIN pub /\ n \in Msg /\ IsDurable(n)
  <2>1. LastNow <= Len(pub) /\ LastNow \in Int
    BY DEF LastNow
  <2>2. accepted \subseteq 1..LastNow /\ accepted \subseteq Msg /\ DOMAIN pub = 1..Len(pub) /\ Len(pub) \in Nat
    BY DEF InvHistory
  <2> QED
    BY ONLY <2>1, <2>2 DEF Owed
<1> QED
    BY <1>1, <1>2

\* An object learns its new offset.
LEMMA RelinkFoundStep ==
    ASSUME IInv, RelinkFound
    PROVE  Inductive'
<1> USE Unfold
<1> DEFINE m == lst[at].n
           o == durable[m]
<1>1. Increasing(lst) /\ Loaded = Owed /\ Holds(file) /\ at \in DOMAIN lst /\ pc = "relink"
    BY DEF InvGc, RelinkFound
<1>2. m \in Owed /\ IdOf(m) = m /\ m \in Msg
  <2>1. m \in Owed
    BY <1>1 DEF Loaded
  <2> QED
    BY <2>1, IdIsNumber
<1>3. /\ pc' = "relink" /\ at' = at + 1 /\ obj' = [obj EXCEPT ![o].off = lst[at].off] /\ o /= 0
      /\ UNCHANGED <<up, file, exists, tmp, lst, msgs, durable, waitAck, pub, accepted, acked, handed>>
    BY <1>1, <1>2 DEF RelinkFound, disk, history
<1>4. o \in DOMAIN obj /\ NumberOf(o) = m
    BY <1>2, <1>3 DEF InvObjects
<1>5. lst[at].off = at
    BY <1>1 DEF Holds
<1>6. /\ DOMAIN obj' = DOMAIN obj
      /\ \A p \in DOMAIN obj : obj'[p].n = obj[p].n
      /\ \A p \in DOMAIN obj : p /= o => obj'[p] = obj[p]
      /\ obj'[o].off = at
  <2>1. at \in Nat /\ obj \in Seq(Object)
    OBVIOUS
  <2>2. obj' = [obj EXCEPT ![o].off = at]
    BY <1>3, <1>5
  <2> HIDE DEF o
  <2>3. DOMAIN obj' = DOMAIN obj
        /\ \A p \in DOMAIN obj : obj'[p] = IF p = o THEN [n |-> obj[o].n, off |-> at] ELSE obj[p]
    BY ONLY <1>4, <2>1, <2>2, SetOffset
  <2> QED
    BY ONLY <1>4, <2>3
<1>7. \A i \in DOMAIN msgs : msgs[i] \in DOMAIN obj
    BY ElementFacts
<1>8. \A n \in Msg : waitAck[n] /= 0 => waitAck[n] \in DOMAIN obj
    OBVIOUS
<1>9. \A n \in Msg : durable[n] /= 0 => durable[n] \in DOMAIN obj
    OBVIOUS
<1>10. LastNow' = LastNow
    BY <1>1, <1>3 DEF LastNow
<1>11. InvHistory'
    BY <1>3, <1>10 DEF InvHistory
<1>12. InvPhase'
    BY <1>1, <1>3 DEF InvPhase
<1>13. InvFile' /\ InvDisk' /\ InvOffsets'
  <2>1. InvFile /\ InvDisk
    OBVIOUS
  <2>2. InvFile'
    BY ONLY <1>1, <1>3, <2>1 DEF InvFile, Increasing, IsDurable
  <2>3. InvDisk'
    BY ONLY <1>1, <1>3, <2>1 DEF InvDisk, IsDurable, OnDisk, Owed
  <2>4. InvOffsets'
    BY ONLY <1>3 DEF InvOffsets
  <2> QED
    BY <2>2, <2>3, <2>4
<1>14. InvObjects'
  <2>1. InvObjects
    OBVIOUS
  <2> QED
    BY ONLY <1>3, <1>6, <1>8, <1>9, <2>1 DEF InvObjects, Increasing, NumberOf
<1>15. InvTracked'
  <2>1. InMsgs' = InMsgs
    BY ONLY <1>3, <1>6, <1>7 DEF InMsgs, NumberOf
  <2>2. InWaitAck' = InWaitAck
    BY ONLY <1>3, <1>6, <1>8 DEF InWaitAck, NumberOf
  <2>3. Owed' = Owed
    BY <1>3 DEF Owed, IsDurable
  <2>4. DeliveryInOrder'
    <3>1. DeliveryInOrder
      BY DEF InvTracked
    <3> QED
      BY ONLY <1>3, <1>6, <1>7, <3>1 DEF DeliveryInOrder, NumberOf
  <2>5. InvTracked
    OBVIOUS
  <2> QED
    BY ONLY <1>3, <2>1, <2>2, <2>3, <2>4, <2>5 DEF InvTracked, Held, NoResurrection
<1>16. InvGc'
  <2>1. Loaded' = Loaded /\ Owed' = Owed
    BY <1>3 DEF Loaded, Owed, IsDurable
  <2>2. Len(lst) \in Nat /\ DOMAIN lst = 1..Len(lst) /\ at \in Nat
    OBVIOUS
  <2>3. \A i \in DOMAIN lst : i < at + 1 => obj'[durable[lst[i].n]].off = i
    <3>1. ASSUME NEW i \in DOMAIN lst, i < at
          PROVE  obj'[durable[lst[i].n]].off = i
      <4>1. obj[durable[lst[i].n]].off = i
        BY <1>1, <3>1 DEF InvGc
      <4>2. lst[i].n /= m /\ lst[i].n \in Owed
        <5>1. lst[i].n < m
          BY <1>1, <3>1 DEF Increasing
        <5>2. lst[i].n \in Nat /\ m \in Nat
          <6>1. lst[i] \in Object /\ lst[at] \in Object
            BY <1>1, ElementFacts
          <6> QED
            BY ONLY <6>1 DEF Object, Msg
        <5> QED
          BY <1>1, <5>1, <5>2 DEF Loaded
      <4>3. durable[lst[i].n] \in DOMAIN obj /\ NumberOf(durable[lst[i].n]) = lst[i].n
        <5>1. up
          BY <1>1 DEF InvPhase
        <5>2. lst[i].n \in Msg
          BY <4>2, IdIsNumber
        <5>3. durable[lst[i].n] /= 0
          BY <4>2, <5>1, <5>2 DEF InvTracked
        <5> QED
          BY <5>2, <5>3, <1>9 DEF InvObjects
      <4>4. durable[lst[i].n] /= o
        BY <1>4, <4>2, <4>3
      <4> QED
        BY <1>6, <4>1, <4>3, <4>4
    <3>2. obj'[durable[lst[at].n]].off = at
      BY <1>6
    <3> QED
      BY <2>2, <3>1, <3>2
  <2> QED
    BY ONLY <1>1, <1>3, <2>1, <2>2, <2>3 DEF InvGc, Increasing, Holds
<1> QED
    BY <1>11, <1>12, <1>13, <1>14, <1>15, <1>16 DEF Inductive

\* Every object knows its offset again, and gc() returns.
LEMMA RelinkDoneStep ==
    ASSUME IInv, RelinkDone
    PROVE  Inductive'
<1> USE Unfold
<1>1. /\ pc = "relink" /\ pc' = "idle" /\ at = Len(lst) + 1 /\ lst' = <<>> /\ at' = 1
      /\ UNCHANGED <<up, file, exists, tmp, obj, msgs, durable, waitAck, pub, accepted, acked, handed>>
    BY DEF RelinkDone, disk, history
<1>2. InvHistory' /\ InvObjects' /\ InvTracked'
    BY <1>1, MemoryFrame
<1>3. InvPhase'
    BY <1>1 DEF InvPhase
<1>4. InvFile' /\ InvDisk'
  <2>1. InvFile'
    BY <1>1 DEF InvFile, Increasing, IsDurable
  <2>2. OnDisk' = OnDisk /\ Owed' = Owed
    BY ONLY <1>1 DEF OnDisk, Owed, IsDurable
  <2> QED
    BY <1>1, <2>1, <2>2 DEF InvDisk
<1>5. InvOffsets'
  <2>1. Loaded = Owed /\ Holds(file) /\ \A i \in DOMAIN lst : i < at => obj[durable[lst[i].n]].off = i
    BY <1>1 DEF InvGc
  <2>2. ASSUME NEW n \in Owed
        PROVE  obj[durable[n]].off \in DOMAIN file /\ file[obj[durable[n]].off].n = n
    <3>1. PICK i \in DOMAIN lst : lst[i].n = n
      BY <2>1 DEF Loaded
    <3>2. i \in 1..Len(lst) /\ Len(lst) \in Nat /\ at = Len(lst) + 1
      BY <1>1
    <3>3. i < at
      BY ONLY <3>2
    <3>4. obj[durable[n]].off = i
      BY <2>1, <3>1, <3>3
    <3> QED
      BY <2>1, <3>1, <3>4 DEF Holds
  <2>3. Owed' = Owed
    BY <1>1 DEF Owed, IsDurable
  <2> QED
    BY ONLY <1>1, <2>2, <2>3 DEF InvOffsets
<1>6. InvGc'
    BY <1>1, EmptySeqFacts DEF InvGc, Increasing
<1> QED
    BY <1>2, <1>3, <1>4, <1>5, <1>6 DEF Inductive

-----------------------------------------------------------------------------
(* The end of the process, and recovery *)

\* The process ends with a complete file, or the queue is deleted with its file.
LEMMA EndsStep ==
    ASSUME IInv, ProcessEnds, pc \notin {"body", "removed"}, UNCHANGED <<pub, acked>>,
           \/ UNCHANGED <<file, exists, accepted>>
           \/ file' = <<>> /\ accepted' = {}
    PROVE  Inductive'
<1> USE Unfold
<1>1. /\ pc' = "down" /\ up' = FALSE /\ obj' = <<>> /\ msgs' = <<>> /\ durable' = Empty
      /\ waitAck' = Empty /\ lst' = <<>> /\ handed' = 0 /\ pub' = pub /\ acked' = acked
      /\ accepted' \subseteq accepted
    BY DEF ProcessEnds
<1>2. Empty' = Empty /\ \A n \in Msg : Empty[n] = 0
    BY DEF Empty
<1>3. LastNow' = LastNow /\ 0 <= LastNow
  <2>1. LastNow = Len(pub) /\ LastNow' = Len(pub)
    BY <1>1 DEF LastNow
  <2>2. Len(pub) \in Nat
    OBVIOUS
  <2> QED
    BY ONLY <2>1, <2>2
<1>4. InvHistory'
    BY <1>1, <1>3 DEF InvHistory
<1>5. InvPhase'
    BY <1>1, <1>2 DEF InvPhase
<1>6. InvFile' /\ InvDisk'
  <2>1. CASE UNCHANGED <<file, exists, accepted>>
    <3>1. InvFile'
      BY <1>1, <2>1 DEF InvFile, Increasing, IsDurable
    <3>2. OnDisk' = OnDisk /\ Owed' = Owed
      BY ONLY <1>1, <2>1 DEF OnDisk, Owed, IsDurable
    <3> QED
      BY <1>1, <3>1, <3>2 DEF InvDisk
  <2>2. CASE file' = <<>> /\ accepted' = {}
    <3>1. OnDisk' = {} /\ Owed' = {}
      BY <2>2, EmptySeqFacts DEF OnDisk, Owed
    <3> QED
      BY <1>1, <2>2, <3>1, EmptySeqFacts DEF InvFile, InvDisk, Increasing
  <2> QED
    BY <2>1, <2>2
<1>7. InvObjects'
    BY <1>1, <1>2, EmptySeqFacts DEF InvObjects, Increasing
<1>8. InvTracked'
  <2>1. InMsgs' = {}
    BY <1>1, EmptySeqFacts DEF InMsgs
  <2>2. InWaitAck' = {}
    BY <1>1, <1>2 DEF InWaitAck
  <2>3. DeliveryInOrder'
    BY <1>1, EmptySeqFacts DEF DeliveryInOrder
  <2> QED
    BY <1>1, <1>2, <2>1, <2>2, <2>3 DEF InvTracked, NoResurrection, Held
<1>9. InvOffsets' /\ InvGc'
    BY <1>1, EmptySeqFacts DEF InvOffsets, InvGc, Increasing
<1> QED
    BY <1>4, <1>5, <1>6, <1>7, <1>8, <1>9 DEF Inductive

\* With an id per message, __durable_msgs refers to the object of each loaded message.
LEMMA FirstWithIdFacts ==
    ASSUME IInv, Loaded = Owed, NEW n \in Msg
    PROVE  /\ FirstWithId[n] /= 0 <=> n \in Owed
           /\ FirstWithId[n] /= 0 => FirstWithId[n] \in DOMAIN lst /\ lst[FirstWithId[n]].n = n
<1> USE Unfold
<1> DEFINE first == {i \in DOMAIN lst : /\ IdOf(lst[i].n) = n
                                        /\ \A j \in 1..(i - 1) : IdOf(lst[j].n) /= n}
<1>1. FirstWithId[n] = IF first = {} THEN 0 ELSE CHOOSE i \in first : TRUE
    BY DEF FirstWithId
<1>2. \A i \in DOMAIN lst : lst[i].n \in Owed /\ IdOf(lst[i].n) = lst[i].n /\ lst[i].n \in Nat
  <2>1. \A i \in DOMAIN lst : lst[i].n \in Owed
    BY DEF Loaded
  <2>2. \A i \in DOMAIN lst : IdOf(lst[i].n) = lst[i].n /\ lst[i].n \in Msg
    BY <2>1, IdIsNumber
  <2>3. \A i \in DOMAIN lst : lst[i].n \in Nat
    BY ONLY <2>2 DEF Msg
  <2> QED
    BY ONLY <2>1, <2>2, <2>3
<1>3. \A i \in DOMAIN lst : lst[i].n = n => i \in first
  <2>1. ASSUME NEW i \in DOMAIN lst, lst[i].n = n, NEW j \in 1..(i - 1)
        PROVE  IdOf(lst[j].n) /= n
    <3>1. j \in DOMAIN lst /\ j < i
      OBVIOUS
    <3>2. lst[j].n < n
      BY <2>1, <3>1 DEF InvGc, Increasing
    <3> QED
      BY <1>2, <3>1, <3>2
  <2> QED
    BY <1>2, <2>1
<1>4. \A i \in first : i \in DOMAIN lst /\ lst[i].n = n /\ i /= 0
    BY <1>2
<1>5. first /= {} <=> n \in Owed
    BY <1>2, <1>3, <1>4 DEF Loaded
<1> HIDE DEF first
<1>6. CASE first = {}
    BY ONLY <1>1, <1>5, <1>6
<1>7. CASE first /= {}
  <2>1. (CHOOSE i \in first : TRUE) \in first
    BY ONLY <1>7
  <2>2. FirstWithId[n] \in first
    BY ONLY <1>1, <1>7, <2>1
  <2> QED
    BY ONLY <1>4, <1>5, <1>7, <2>2
<1> QED
    BY <1>6, <1>7

\* The end of recovery().
LEMMA RecoverStep ==
    ASSUME IInv, Recover
    PROVE  Inductive'
<1> USE Unfold
<1>1. /\ pc = "loaded" /\ ~up /\ pc' = "idle" /\ up' = TRUE /\ obj' = lst /\ lst' = <<>>
      /\ msgs' = [i \in DOMAIN lst |-> i] /\ durable' = FirstWithId
      /\ UNCHANGED <<file, exists, tmp, waitAck, pub, accepted, acked, handed>>
    BY DEF Recover, disk, history
<1>2. Increasing(lst) /\ Loaded = Owed /\ Holds(file)
    BY <1>1 DEF InvGc
<1>3. Owed' = Owed
    BY <1>1 DEF Owed, IsDurable
<1>4. waitAck' = Empty /\ handed' = 0
    BY <1>1 DEF InvPhase
<1>5. \A n \in Msg : Empty[n] = 0
    BY DEF Empty
<1>6. \A n \in Msg :
         /\ durable'[n] /= 0 <=> n \in Owed
         /\ durable'[n] /= 0 => durable'[n] \in DOMAIN lst /\ lst[durable'[n]].n = n
    BY ONLY <1>1, <1>2, IInv, FirstWithIdFacts
<1>7. \A i \in DOMAIN lst : lst[i].n \in Owed
    BY <1>2 DEF Loaded
<1>8. LastNow' = LastNow
    BY <1>1 DEF LastNow
<1>9. InvHistory'
    BY <1>1, <1>8 DEF InvHistory
<1>10. InvPhase'
    BY <1>1 DEF InvPhase
<1>11. InvFile' /\ InvDisk'
    BY <1>1, <1>3 DEF InvFile, InvDisk, Increasing, IsDurable, OnDisk
<1>12. InvObjects'
  <2>1. Increasing(obj')
    BY <1>1, <1>2 DEF Increasing
  <2>2. \A i \in DOMAIN lst : lst[i].n \in accepted
    BY <1>7 DEF Owed
  <2> QED
    BY ONLY <1>1, <1>4, <1>5, <1>6, <2>1, <2>2 DEF InvObjects, NumberOf, Increasing
<1>13. InMsgs' = Owed
  <2>1. DOMAIN msgs' = DOMAIN lst /\ \A i \in DOMAIN lst : msgs'[i] = i
    BY ONLY <1>1
  <2>2. InMsgs' = {obj'[msgs'[i]].n : i \in DOMAIN msgs'}
    BY DEF InMsgs, NumberOf
  <2>3. {obj'[msgs'[i]].n : i \in DOMAIN msgs'} = {lst[i].n : i \in DOMAIN lst}
    BY ONLY <1>1, <2>1
  <2> QED
    BY ONLY <1>2, <2>2, <2>3 DEF Loaded
<1>14. InWaitAck' = {}
    BY <1>4, <1>5 DEF InWaitAck
<1>15. DeliveryInOrder'
  <2>1. DOMAIN msgs' = DOMAIN lst /\ \A i \in DOMAIN lst : msgs'[i] = i
    BY ONLY <1>1
  <2>2. \A i \in DOMAIN lst : lst[i].n > 0
    <3>1. \A i \in DOMAIN lst : lst[i].n \in Msg
      BY <1>7, IdIsNumber
    <3> QED
      BY ONLY <3>1 DEF Msg
  <2> QED
    BY ONLY <1>1, <1>2, <1>4, <2>1, <2>2 DEF DeliveryInOrder, NumberOf, Increasing
<1>16. InvTracked'
  <2>1. Held' = Owed
    BY ONLY <1>13, <1>14 DEF Held
  <2>2. NoResurrection'
    BY <1>1, <2>1 DEF NoResurrection, Owed
  <2> QED
    BY ONLY <1>3, <1>4, <1>5, <1>6, <1>15, <2>1, <2>2 DEF InvTracked
<1>17. InvOffsets'
  <2>1. ASSUME NEW n \in Owed
        PROVE  obj'[durable'[n]].off \in DOMAIN file /\ file[obj'[durable'[n]].off].n = n
    <3>1. n \in Msg
      BY IdIsNumber
    <3>2. durable'[n] \in DOMAIN lst /\ lst[durable'[n]].n = n
      BY <1>6, <3>1
    <3>3. DOMAIN file = DOMAIN lst
      BY <1>2 DEF Holds
    <3> QED
      BY ONLY <1>1, <1>2, <3>2, <3>3 DEF Holds
  <2> QED
    BY ONLY <1>1, <1>3, <2>1 DEF InvOffsets
<1>18. InvGc'
    BY <1>1, EmptySeqFacts DEF InvGc, Increasing
<1> QED
    BY <1>9, <1>10, <1>11, <1>12, <1>16, <1>17, <1>18 DEF Inductive

-----------------------------------------------------------------------------
(* insert() *)

\* Where an accepted message is, and that its number is an argument of pub.
LEMMA AcceptedFacts ==
    ASSUME IInv
    PROVE  /\ LastNow \in Int /\ LastNow <= Len(pub) /\ accepted \subseteq 1..LastNow
           /\ \A n \in accepted : n \in DOMAIN pub /\ n \in Msg /\ n \in Nat
           /\ \A o \in DOMAIN obj : obj[o].n \in accepted
           /\ \A i \in DOMAIN msgs : msgs[i] \in DOMAIN obj
           /\ \A n \in Msg : waitAck[n] /= 0 => waitAck[n] \in DOMAIN obj
           /\ \A n \in Msg : durable[n] /= 0 => durable[n] \in DOMAIN obj
<1> USE Unfold
<1>1. LastNow \in Int /\ LastNow <= Len(pub) /\ accepted \subseteq 1..LastNow
    BY DEF LastNow, InvHistory
<1>2. accepted \subseteq Msg /\ Len(pub) \in Nat /\ DOMAIN pub = 1..Len(pub)
    OBVIOUS
<1>3. \A n \in accepted : n \in DOMAIN pub /\ n \in Msg /\ n \in Nat
    BY ONLY <1>1, <1>2
<1>4. \A i \in DOMAIN msgs : msgs[i] \in DOMAIN obj
    BY ElementFacts
<1>5. \A n \in Msg : waitAck[n] /= 0 => waitAck[n] \in DOMAIN obj
    OBVIOUS
<1>6. \A n \in Msg : durable[n] /= 0 => durable[n] \in DOMAIN obj
    OBVIOUS
<1>7. \A o \in DOMAIN obj : obj[o].n \in accepted
    BY DEF InvObjects
<1> QED
    BY ONLY <1>1, <1>3, <1>4, <1>5, <1>6, <1>7

\* A new message goes to the end of the heap and of the queue, with a higher number.
LEMMA EnqueueStep ==
    ASSUME IInv, NEW n \in Nat, NEW off, Enqueue(n, off), handed' = handed, waitAck' = waitAck,
           handed < n, \A k \in accepted : k < n, InvTracked
    PROVE  /\ Len(obj') = Len(obj) + 1 /\ DOMAIN obj' = 1..(Len(obj) + 1)
           /\ \A o \in DOMAIN obj : o \in DOMAIN obj' /\ obj'[o] = obj[o]
           /\ obj'[Len(obj) + 1] = [n |-> n, off |-> off]
           /\ accepted' = accepted \union {n}
           /\ Increasing(obj)' /\ \A o \in DOMAIN obj' : obj'[o].n \in accepted'
           /\ InMsgs' = InMsgs \union {n} /\ InWaitAck' = InWaitAck
           /\ DeliveryInOrder'
<1> USE Unfold
<1> DEFINE new == Len(obj) + 1
           last == Len(msgs) + 1
<1>1. /\ obj' = Append(obj, [n |-> n, off |-> off]) /\ msgs' = Append(msgs, new)
      /\ accepted' = accepted \union {n}
    BY DEF Enqueue
<1>2. /\ Len(obj') = new /\ DOMAIN obj' = 1..new /\ obj'[new] = [n |-> n, off |-> off]
      /\ \A o \in 1..Len(obj) : obj'[o] = obj[o]
    BY <1>1, AppendFacts
<1>3. /\ DOMAIN msgs' = 1..last /\ msgs'[last] = new
      /\ \A i \in 1..Len(msgs) : msgs'[i] = msgs[i]
  <2> HIDE DEF new
  <2> QED
    BY <1>1, AppendFacts
<1>4. Len(obj) \in Nat /\ Len(msgs) \in Nat /\ DOMAIN obj = 1..Len(obj) /\ DOMAIN msgs = 1..Len(msgs)
    OBVIOUS
<1>5. \A o \in DOMAIN obj : obj[o].n \in accepted /\ obj[o].n \in Nat
    BY AcceptedFacts
<1>6. \A i \in DOMAIN msgs : msgs[i] \in DOMAIN obj
    BY AcceptedFacts
<1>7. \A k \in Msg : waitAck[k] /= 0 => waitAck[k] \in DOMAIN obj
    BY AcceptedFacts
<1>8. /\ \A o \in DOMAIN obj : o \in DOMAIN obj' /\ obj'[o] = obj[o]
      /\ \A o \in DOMAIN obj' : o \in DOMAIN obj \/ o = new
      /\ \A o \in DOMAIN obj : o < new
    BY ONLY <1>2, <1>4
<1>9. /\ \A i \in DOMAIN msgs : i \in DOMAIN msgs' /\ msgs'[i] = msgs[i]
      /\ \A i \in DOMAIN msgs' : i \in DOMAIN msgs \/ i = last
      /\ \A i \in DOMAIN msgs : i < last
      /\ last \in DOMAIN msgs' /\ new \in DOMAIN obj'
    BY ONLY <1>2, <1>3, <1>4
<1>10. Increasing(obj)' /\ \A o \in DOMAIN obj' : obj'[o].n \in accepted'
  <2>1. Increasing(obj) /\ \A k \in accepted : k < n
    BY DEF InvObjects
  <2>2. new \in Nat /\ \A o \in DOMAIN obj : o \in Nat
    BY <1>4
  <2> HIDE DEF new
  <2>3. \A o \in DOMAIN obj' : obj'[o].n \in accepted'
    BY ONLY <1>1, <1>2, <1>5, <1>8
  <2>4. \A i, j \in DOMAIN obj' : i < j => obj'[i].n < obj'[j].n
    <3>1. ASSUME NEW i \in DOMAIN obj', NEW j \in DOMAIN obj', i < j
          PROVE  obj'[i].n < obj'[j].n
      <4>1. i \in DOMAIN obj
        BY ONLY <1>8, <2>2, <3>1
      <4>2. CASE j \in DOMAIN obj
        BY ONLY <1>8, <2>1, <3>1, <4>1, <4>2 DEF Increasing
      <4>3. CASE j = new
        BY ONLY <1>2, <1>5, <1>8, <2>1, <4>1, <4>3
      <4> QED
        BY <1>8, <4>2, <4>3
    <3> QED
      BY <3>1
  <2> QED
    BY ONLY <2>3, <2>4 DEF Increasing
<1> HIDE DEF new, last
<1>11. InMsgs' = InMsgs \union {n}
  <2>1. \A i \in DOMAIN msgs : obj'[msgs'[i]].n = obj[msgs[i]].n
    BY ONLY <1>6, <1>8, <1>9
  <2>2. obj'[msgs'[last]].n = n
    BY ONLY <1>2, <1>3
  <2> QED
    BY ONLY <1>9, <2>1, <2>2 DEF InMsgs, NumberOf
<1>12. InWaitAck' = InWaitAck
    BY ONLY <1>7, <1>8, waitAck' = waitAck DEF InWaitAck, NumberOf
<1>13. DeliveryInOrder'
  <2>1. DeliveryInOrder /\ handed' = handed /\ handed < n /\ \A k \in accepted : k < n
    BY DEF InvTracked
  <2>2. \A i \in DOMAIN msgs : obj'[msgs'[i]].n = obj[msgs[i]].n /\ obj[msgs[i]].n < n
    BY ONLY <1>5, <1>6, <1>8, <1>9, <2>1
  <2>3. obj'[msgs'[last]].n = n
    BY ONLY <1>2, <1>3
  <2>4. \A i \in DOMAIN msgs' : handed' < obj'[msgs'[i]].n
    BY ONLY <1>9, <2>1, <2>2, <2>3 DEF DeliveryInOrder, NumberOf
  <2>5. ASSUME NEW i \in DOMAIN msgs', NEW j \in DOMAIN msgs', i < j
        PROVE  obj'[msgs'[i]].n < obj'[msgs'[j]].n
    <3>1. last \in Nat /\ \A k \in DOMAIN msgs : k \in Nat
      BY <1>4 DEF last
    <3>2. i \in DOMAIN msgs
      BY ONLY <1>9, <2>5, <3>1
    <3>3. CASE j \in DOMAIN msgs
      BY ONLY <2>1, <2>2, <2>5, <3>2, <3>3 DEF DeliveryInOrder, NumberOf
    <3>4. CASE j = last
      BY ONLY <2>2, <2>3, <3>2, <3>4
    <3> QED
      BY <1>9, <3>3, <3>4
  <2> QED
    BY ONLY <2>4, <2>5 DEF DeliveryInOrder, NumberOf
<1> QED
    BY ONLY <1>1, <1>2, <1>8, <1>10, <1>11, <1>12, <1>13 DEF new

\* A publisher that gives each message an id of its own.
LEMMA AttemptFacts ==
    ASSUME IInv, UniqueIds, NEW b \in BOOLEAN, \E id \in NewIds : Attempt(id, b)
    PROVE  /\ pc = "idle" /\ up /\ exists /\ LastNow = Len(pub)
           /\ NextMsg = Len(pub) + 1 /\ NextMsg \in Nat /\ NextMsg \in Msg /\ handed < NextMsg
           /\ NextMsg \notin acked /\ NextMsg \notin accepted /\ NextMsg \notin DOMAIN pub
           /\ \A k \in accepted : k < NextMsg
           /\ \A k \in DOMAIN pub : k < NextMsg
           /\ Len(pub') = NextMsg /\ DOMAIN pub' = 1..NextMsg /\ NextMsg \in DOMAIN pub'
           /\ \A k \in DOMAIN pub : k \in DOMAIN pub' /\ pub'[k] = pub[k]
           /\ pub'[NextMsg] = [id |-> NextMsg, durable |-> b]
           /\ \A k \in DOMAIN pub' : pub'[k].id = k
<1> USE Unfold
<1>1. /\ pc = "idle" /\ Len(pub) < MaxMsgs
      /\ pub' = Append(pub, [id |-> NextMsg, durable |-> b])
    BY DEF NewIds, Attempt
<1>2. up /\ exists
    BY <1>1 DEF InvPhase
<1>3. LastNow = Len(pub) /\ Len(pub) \in Nat /\ DOMAIN pub = 1..Len(pub)
    BY <1>1 DEF LastNow
<1>4. /\ Len(pub') = NextMsg /\ DOMAIN pub' = 1..NextMsg
      /\ \A k \in 1..Len(pub) : pub'[k] = pub[k]
      /\ pub'[NextMsg] = [id |-> NextMsg, durable |-> b]
    BY <1>1, AppendFacts DEF NextMsg
<1>5. NextMsg = Len(pub) + 1 /\ NextMsg \in Nat /\ NextMsg \in Msg
    BY ONLY <1>1, <1>3, QueueMessageAssumption DEF NextMsg, Msg
<1>6. /\ accepted \subseteq 1..LastNow /\ acked \subseteq 1..LastNow /\ handed <= LastNow
      /\ \A k \in DOMAIN pub : pub[k].id = k
    BY DEF InvHistory
<1>7. handed \in Nat
    OBVIOUS
<1>8. /\ handed < NextMsg /\ NextMsg \notin acked /\ NextMsg \notin accepted /\ NextMsg \notin DOMAIN pub
      /\ \A k \in accepted : k < NextMsg
      /\ \A k \in DOMAIN pub : k < NextMsg
    BY ONLY <1>3, <1>5, <1>6, <1>7
<1>9. /\ \A k \in DOMAIN pub : k \in DOMAIN pub' /\ pub'[k] = pub[k]
      /\ \A k \in DOMAIN pub' : k \in DOMAIN pub \/ k = NextMsg
      /\ NextMsg \in DOMAIN pub'
    BY ONLY <1>3, <1>4, <1>5
<1>10. \A k \in DOMAIN pub' : pub'[k].id = k
    BY ONLY <1>4, <1>6, <1>9
<1> QED
    BY ONLY <1>1, <1>2, <1>3, <1>4, <1>5, <1>8, <1>9, <1>10

\* A transient message is accepted.
LEMMA InsertTransientStep ==
    ASSUME IInv, UniqueIds, InsertTransient
    PROVE  Inductive'
<1> USE Unfold
<1> DEFINE n == NextMsg
<1>1. /\ \E id \in NewIds : Attempt(id, FALSE)
      /\ Enqueue(n, 0)
      /\ UNCHANGED <<pc, up, file, exists, tmp, durable, waitAck, lst, at, acked, handed>>
    BY DEF InsertTransient, disk, loop
<1>2. /\ pc = "idle" /\ up /\ exists /\ LastNow = Len(pub)
      /\ n = Len(pub) + 1 /\ n \in Nat /\ n \in Msg /\ handed < n
      /\ n \notin acked /\ n \notin accepted
      /\ \A k \in accepted : k < n
      /\ Len(pub') = n
      /\ \A k \in DOMAIN pub : k \in DOMAIN pub' /\ pub'[k] = pub[k]
      /\ pub'[n] = [id |-> n, durable |-> FALSE]
      /\ \A k \in DOMAIN pub' : pub'[k].id = k
    BY <1>1, AttemptFacts
<1>3. /\ \A o \in DOMAIN obj : o \in DOMAIN obj' /\ obj'[o] = obj[o]
      /\ accepted' = accepted \union {n}
      /\ Increasing(obj)' /\ \A o \in DOMAIN obj' : obj'[o].n \in accepted'
      /\ InMsgs' = InMsgs \union {n} /\ InWaitAck' = InWaitAck
      /\ DeliveryInOrder'
  <2> HIDE DEF n
  <2> QED
    BY <1>1, <1>2, EnqueueStep
<1>4. /\ \A k \in accepted : k \in DOMAIN pub /\ k \in Msg
      /\ \A k \in Msg : waitAck[k] /= 0 => waitAck[k] \in DOMAIN obj
      /\ \A k \in Msg : durable[k] /= 0 => durable[k] \in DOMAIN obj
    BY AcceptedFacts
<1> HIDE DEF n
<1>5. Owed' = Owed
    BY ONLY <1>1, <1>2, <1>3, <1>4 DEF Owed, IsDurable
<1>6. LastNow' = n
    BY ONLY <1>1, <1>2 DEF LastNow
<1>7. InvHistory'
  <2>1. accepted \subseteq 1..LastNow /\ acked \subseteq 1..LastNow /\ Len(pub) \in Nat /\ handed \in Nat
    BY DEF InvHistory
  <2>2. LastNow = Len(pub) /\ n = Len(pub) + 1 /\ n \in Nat /\ handed < n
    BY ONLY <1>2
  <2>3. accepted' = accepted \union {n} /\ acked' = acked /\ handed' = handed
    BY ONLY <1>1, <1>3
  <2>4. accepted' \subseteq 1..n /\ acked' \subseteq 1..n
    <3>1. 1..LastNow \subseteq 1..n /\ n \in 1..n
      BY ONLY <2>1, <2>2
    <3> QED
      BY ONLY <2>1, <2>3, <3>1
  <2>5. handed' <= n
    BY ONLY <2>1, <2>2, <2>3
  <2> QED
    BY ONLY <1>2, <1>6, <2>4, <2>5 DEF InvHistory
<1>8. InvPhase'
    BY <1>1, <1>2 DEF InvPhase
<1>9. InvFile' /\ InvDisk'
  <2>1. InvFile /\ InvDisk
    OBVIOUS
  <2>2. InvFile'
    BY ONLY <1>1, <1>2, <2>1 DEF InvFile, Increasing, IsDurable
  <2>3. InvDisk'
    BY ONLY <1>1, <1>5, <2>1 DEF InvDisk, OnDisk
  <2> QED
    BY <2>2, <2>3
<1>10. InvObjects'
  <2>1. InvObjects
    OBVIOUS
  <2> QED
    BY ONLY <1>1, <1>3, <1>4, <2>1 DEF InvObjects, NumberOf
<1>11. InvTracked'
  <2>1. InvTracked
    OBVIOUS
  <2>2. Held' = Held \union {n}
    BY ONLY <1>3 DEF Held
  <2>3. NoResurrection'
    BY ONLY <1>1, <1>2, <1>3, <2>1, <2>2 DEF InvTracked, NoResurrection
  <2> QED
    BY ONLY <1>1, <1>3, <1>5, <2>1, <2>2, <2>3 DEF InvTracked
<1>12. InvOffsets'
  <2>1. InvOffsets /\ \A k \in Owed : durable[k] \in DOMAIN obj
    <3>1. \A k \in Owed : k \in Msg /\ durable[k] /= 0
      BY <1>2, <1>4 DEF InvTracked, Owed
    <3> QED
      BY <1>4, <3>1
  <2> QED
    BY ONLY <1>1, <1>3, <1>5, <2>1 DEF InvOffsets
<1>13. InvGc'
    BY <1>1, <1>2 DEF InvGc, Increasing
<1> QED
    BY ONLY <1>7, <1>8, <1>9, <1>10, <1>11, <1>12, <1>13 DEF Inductive

\* The length of a record is written for a durable message.
LEMMA InsertHeaderStep ==
    ASSUME IInv, UniqueIds, InsertHeader
    PROVE  Inductive'
<1> USE Unfold
<1> DEFINE n == NextMsg
           rec == [n |-> n, st |-> "torn"]
<1>1. /\ \E id \in NewIds : Attempt(id, TRUE)
      /\ file' = Append(file, rec) /\ pc' = "body"
      /\ UNCHANGED <<up, exists, tmp, obj, msgs, durable, waitAck, lst, at, accepted, acked, handed>>
    BY DEF InsertHeader, memory, loop
<1>2. /\ pc = "idle" /\ up /\ exists /\ LastNow = Len(pub)
      /\ n = Len(pub) + 1 /\ n \in Nat /\ n \in Msg
      /\ Len(pub') = n /\ n \in DOMAIN pub'
      /\ \A k \in DOMAIN pub : k < n
      /\ \A k \in DOMAIN pub : k \in DOMAIN pub' /\ pub'[k] = pub[k]
      /\ pub'[n] = [id |-> n, durable |-> TRUE]
      /\ \A k \in DOMAIN pub' : pub'[k].id = k
    BY <1>1, AttemptFacts
<1>3. /\ \A k \in accepted : k \in DOMAIN pub /\ k \in Msg
    BY AcceptedFacts
<1> HIDE DEF n
<1>4. /\ Len(file') = Len(file) + 1 /\ DOMAIN file' = 1..(Len(file) + 1)
      /\ \A i \in 1..Len(file) : file'[i] = file[i]
      /\ file'[Len(file) + 1] = rec
  <2> HIDE DEF rec
  <2> QED
    BY <1>1, AppendFacts
<1>5. Len(file) \in Nat /\ DOMAIN file = 1..Len(file)
    OBVIOUS
<1>6. /\ \A i \in DOMAIN file : i \in DOMAIN file' /\ file'[i] = file[i] /\ i < Len(file')
      /\ \A i \in DOMAIN file' : i \in DOMAIN file \/ i = Len(file')
      /\ Len(file') \in DOMAIN file' /\ file'[Len(file')] = rec /\ Len(file') \in Nat
    BY ONLY <1>4, <1>5
<1>7. Owed' = Owed
    BY ONLY <1>1, <1>2, <1>3 DEF Owed, IsDurable
<1>8. LastNow' = LastNow
  <2>1. LastNow' = n - 1
    BY ONLY <1>1, <1>2 DEF LastNow
  <2>2. n = Len(pub) + 1 /\ LastNow = Len(pub) /\ Len(pub) \in Nat
    BY <1>2
  <2> QED
    BY ONLY <2>1, <2>2
<1>9. InvHistory'
    BY <1>1, <1>2, <1>8 DEF InvHistory
<1>10. InvPhase'
    BY <1>1, <1>2 DEF InvPhase
<1>11. InvFile'
  <2>1. \A i \in DOMAIN file : /\ file[i].n \in DOMAIN pub /\ pub[file[i].n].durable
                                /\ file[i].st /= "torn"
    BY <1>2 DEF InvFile, IsDurable
  <2>2. /\ \A i \in DOMAIN file : i \in DOMAIN file' /\ file'[i] = file[i] /\ i /= Len(file')
        /\ \A i \in DOMAIN file : file'[i].n < n
    <3>1. \A i \in DOMAIN file : i \in Nat
      BY <1>5
    <3> QED
      BY ONLY <1>2, <1>6, <2>1, <3>1
  <2>3. file'[Len(file')].n = n /\ file'[Len(file')].st = "torn"
    BY ONLY <1>6
  <2>4. \A i \in DOMAIN file' :
          /\ file'[i].n \in DOMAIN pub' /\ pub'[file'[i].n].durable
          /\ file'[i].st = "torn" <=> pc' = "body" /\ i = Len(file')
    BY ONLY <1>1, <1>2, <1>6, <2>1, <2>2, <2>3
  <2>5. Increasing(file)'
    <3>1. ASSUME NEW i \in DOMAIN file', NEW j \in DOMAIN file', i < j
          PROVE  file'[i].n < file'[j].n
      <4>1. i \in DOMAIN file
        <5>1. j \in Nat /\ j <= Len(file') /\ i \in Nat
          BY ONLY <1>4, <1>5, <3>1
        <5> QED
          BY ONLY <1>6, <3>1, <5>1
      <4>2. CASE j \in DOMAIN file
        <5>1. Increasing(file)
          BY DEF InvFile
        <5> QED
          BY ONLY <1>6, <3>1, <4>1, <4>2, <5>1 DEF Increasing
      <4>3. CASE j = Len(file')
        BY ONLY <2>2, <2>3, <4>1, <4>3
      <4> QED
        BY <1>6, <4>2, <4>3
    <3> QED
      BY ONLY <3>1 DEF Increasing
  <2>6. pub' /= <<>> /\ file' /= <<>> /\ file'[Len(file')].n = Len(pub')
    BY <1>2, <1>6, <2>3, EmptySeqFacts
  <2> QED
    BY ONLY <2>4, <2>5, <2>6 DEF InvFile, IsDurable
<1>12. InvDisk'
  <2>1. OnDisk' = OnDisk
    BY ONLY <1>6 DEF OnDisk
  <2> QED
    BY <1>1, <1>2, <1>7, <2>1 DEF InvDisk
<1>13. InvObjects'
  <2>1. InvObjects
    OBVIOUS
  <2> QED
    BY ONLY <1>1, <2>1 DEF InvObjects, Increasing, NumberOf
<1>14. InvTracked'
  <2>1. InvTracked
    OBVIOUS
  <2> QED
    BY ONLY <1>1, <1>7, <2>1 DEF InvTracked, NoResurrection, DeliveryInOrder, Held, InMsgs,
                                 InWaitAck, NumberOf
<1>15. InvOffsets'
  <2>1. InvOffsets
    OBVIOUS
  <2> QED
    BY ONLY <1>1, <1>2, <1>6, <1>7, <2>1 DEF InvOffsets
<1>16. InvGc'
    BY <1>1, <1>2 DEF InvGc, Increasing
<1> QED
    BY ONLY <1>9, <1>10, <1>11, <1>12, <1>13, <1>14, <1>15, <1>16 DEF Inductive

\* The body is written and the durable message is accepted.
LEMMA InsertBodyStep ==
    ASSUME IInv, IOFails = {}, InsertBody
    PROVE  Inductive'
<1> USE Unfold
<1> DEFINE n == Len(pub)
           k == Len(file)
           o == Len(obj) + 1
<1>1. /\ pc = "body" /\ pc' = "idle" /\ file' = [file EXCEPT ![k].st = "valid"]
      /\ Enqueue(n, k) /\ durable' = Put(durable, IdOf(n), o)
      /\ UNCHANGED <<up, exists, tmp, waitAck, lst, at, pub, acked, handed>>
  <2>1. PICK short \in MaybeShort({k}) :
           file' = [file EXCEPT ![k].st = IF short = {} THEN "valid" ELSE "torn"]
    BY DEF InsertBody
  <2>2. short = {}
    BY <2>1, NoneShort
  <2>3. file' = [file EXCEPT ![k].st = "valid"]
    BY <2>1, <2>2
  <2> QED
    BY <2>3 DEF InsertBody, loop
<1>2. /\ up /\ pub /= <<>> /\ file /= <<>> /\ file[k].n = n /\ exists
    BY <1>1 DEF InvPhase, InvFile
<1>3. n \in DOMAIN pub /\ n \in Nat /\ k \in DOMAIN file /\ IsDurable(n)
  <2>1. n \in DOMAIN pub /\ k \in DOMAIN file
    BY <1>2, LastFacts
  <2> QED
    BY <1>2, <2>1 DEF InvFile
<1>4. LastNow = n - 1 /\ LastNow' = n
    BY <1>1 DEF LastNow
<1>5. /\ handed < n /\ n \notin acked /\ n \notin accepted
      /\ \A a \in accepted : a < n
  <2>1. handed <= LastNow /\ accepted \subseteq 1..LastNow /\ acked \subseteq 1..LastNow /\ handed \in Nat
    BY DEF InvHistory
  <2>2. LastNow = n - 1 /\ n \in Nat
    BY <1>4
  <2> HIDE DEF n
  <2> QED
    BY ONLY <2>1, <2>2
<1>6. /\ o \in DOMAIN obj'
      /\ \A p \in DOMAIN obj : p \in DOMAIN obj' /\ obj'[p] = obj[p]
      /\ obj'[o] = [n |-> n, off |-> k]
      /\ accepted' = accepted \union {n}
      /\ Increasing(obj)' /\ \A p \in DOMAIN obj' : obj'[p].n \in accepted'
      /\ InMsgs' = InMsgs \union {n} /\ InWaitAck' = InWaitAck
      /\ DeliveryInOrder'
  <2>1. n \in Nat /\ Enqueue(n, k) /\ handed' = handed /\ waitAck' = waitAck
    BY <1>1, <1>3
  <2> HIDE DEF n, k
  <2>2. /\ Len(obj') = Len(obj) + 1 /\ DOMAIN obj' = 1..(Len(obj) + 1)
        /\ \A p \in DOMAIN obj : p \in DOMAIN obj' /\ obj'[p] = obj[p]
        /\ obj'[Len(obj) + 1] = [n |-> n, off |-> k]
        /\ accepted' = accepted \union {n}
        /\ Increasing(obj)' /\ \A p \in DOMAIN obj' : obj'[p].n \in accepted'
        /\ InMsgs' = InMsgs \union {n} /\ InWaitAck' = InWaitAck
        /\ DeliveryInOrder'
    BY <1>5, <2>1, EnqueueStep
  <2>3. o \in DOMAIN obj'
    BY <2>2
  <2> QED
    BY ONLY <2>2, <2>3
<1>7. /\ \A a \in accepted : a \in DOMAIN pub /\ a \in Msg
      /\ \A a \in Msg : waitAck[a] /= 0 => waitAck[a] \in DOMAIN obj
      /\ \A a \in Msg : durable[a] /= 0 => durable[a] \in DOMAIN obj
    BY AcceptedFacts
<1>8. /\ DOMAIN file' = DOMAIN file /\ \A i \in DOMAIN file : file'[i].n = file[i].n
      /\ \A i \in DOMAIN file : i /= k => file'[i] = file[i]
      /\ file'[k].st = "valid"
  <2>1. \A i \in DOMAIN file : file[i] \in Record
    BY ElementFacts
  <2> HIDE DEF k
  <2> QED
    BY ONLY <1>1, <1>3, <2>1 DEF Record
<1>9. n \in Msg /\ IdOf(n) = n /\ durable[n] = 0 /\ n \notin Owed /\ o /= 0
  <2>1. Len(pub) <= MaxMsgs /\ Len(pub) \in 1..Len(pub)
    BY <1>3 DEF IInv, TypeInv, TypeOK
  <2>2. n \in Msg
    BY <2>1, QueueMessageAssumption DEF Msg, QueueMessageAssumption
  <2>3. IdOf(n) = n
    BY <1>3, IdIsNumber
  <2>4. n \notin Owed
    BY <1>5 DEF Owed
  <2>5. durable[n] = 0
    BY <1>2, <2>2, <2>4 DEF InvTracked
  <2> QED
    BY <2>2, <2>3, <2>4, <2>5
<1>10. durable' = [durable EXCEPT ![n] = o]
    BY <1>1, <1>9 DEF Put
<1>11. /\ durable'[n] = o
       /\ \A a \in Msg : a /= n => durable'[a] = durable[a]
    BY <1>9, <1>10
<1> HIDE DEF n, o, k
<1>12. Owed' = Owed \union {n}
  <2>1. \A a \in accepted : IsDurable(a)' = IsDurable(a)
    BY <1>1 DEF IsDurable
  <2>2. pub'[n].durable
    BY <1>1, <1>3 DEF IsDurable
  <2> QED
    BY ONLY <1>1, <1>5, <1>6, <2>1, <2>2 DEF Owed, IsDurable
<1>13. InvHistory'
  <2>1. accepted \subseteq 1..LastNow /\ acked \subseteq 1..LastNow /\ handed \in Nat
        /\ \A i \in DOMAIN pub : pub[i].id = i
    BY DEF InvHistory
  <2>2. 1..LastNow \subseteq 1..n /\ n \in 1..n
    BY <1>3, <1>4 DEF n
  <2>3. handed' <= n
    BY ONLY <1>1, <1>3, <1>5, <2>1
  <2> QED
    BY ONLY <1>1, <1>4, <1>6, <2>1, <2>2, <2>3 DEF InvHistory
<1>14. InvPhase'
    BY <1>1, <1>2 DEF InvPhase
<1>15. InvFile'
  <2>1. InvFile
    OBVIOUS
  <2>2. \A i \in DOMAIN file : i /= k => file[i].st /= "torn"
    BY ONLY <2>1 DEF InvFile, k
  <2>3. \A i \in DOMAIN file : file'[i].st /= "torn"
    BY ONLY <1>3, <1>8, <2>2
  <2> QED
    BY ONLY <1>1, <1>8, <2>1, <2>3 DEF InvFile, Increasing, IsDurable
<1>16. InvDisk'
  <2>1. \A i \in DOMAIN file : i /= k => file'[i] = file[i]
    BY ONLY <1>8
  <2>2. file[k].st /= "valid"
    BY <1>1, <1>3 DEF InvFile, k
  <2>3. OnDisk' = OnDisk \union {file'[k].n}
    BY ONLY <1>3, <1>8, <2>1, <2>2 DEF OnDisk
  <2>4. file'[k].n = n /\ OnDisk = Owed
    BY <1>1, <1>2, <1>3, <1>8 DEF InvDisk
  <2> QED
    BY ONLY <1>12, <2>3, <2>4 DEF InvDisk
<1>17. InvObjects'
  <2>1. InvObjects
    OBVIOUS
  <2> QED
    BY ONLY <1>1, <1>6, <1>7, <1>11, <2>1 DEF InvObjects, NumberOf
<1>18. InvTracked'
  <2>1. InvTracked
    OBVIOUS
  <2>2. Held' = Held \union {n}
    BY ONLY <1>6 DEF Held
  <2>3. NoResurrection'
    BY ONLY <1>1, <1>5, <1>6, <2>1, <2>2 DEF InvTracked, NoResurrection
  <2>4. \A a \in Msg : durable'[a] /= 0 <=> a \in Owed'
    BY ONLY <1>2, <1>9, <1>11, <1>12, <2>1 DEF InvTracked
  <2> QED
    BY ONLY <1>1, <1>2, <1>6, <1>12, <2>1, <2>2, <2>3, <2>4 DEF InvTracked
<1>19. InvOffsets'
  <2>1. ASSUME NEW a \in Owed
        PROVE  /\ obj'[durable'[a]].off \in DOMAIN file'
               /\ file'[obj'[durable'[a]].off].n = a
    <3>1. obj[durable[a]].off \in DOMAIN file /\ file[obj[durable[a]].off].n = a
      BY <1>1 DEF InvOffsets
    <3>2. a /= n /\ a \in Msg /\ durable[a] /= 0
      BY <1>2, <1>9, <1>7 DEF InvTracked, Owed
    <3> QED
      BY ONLY <1>6, <1>7, <1>8, <1>11, <3>1, <3>2
  <2>2. obj'[durable'[n]].off \in DOMAIN file' /\ file'[obj'[durable'[n]].off].n = n
    <3>1. obj'[durable'[n]].off = k
      BY ONLY <1>6, <1>11
    <3> QED
      BY ONLY <1>2, <1>3, <1>8, <3>1
  <2> QED
    BY ONLY <1>12, <2>1, <2>2 DEF InvOffsets
<1>20. InvGc'
    BY <1>1, <1>2 DEF InvGc, Increasing
<1> QED
    BY ONLY <1>13, <1>14, <1>15, <1>16, <1>17, <1>18, <1>19, <1>20 DEF Inductive

-----------------------------------------------------------------------------
(* front() and remove() *)

\* The first message moves from __msgs to __wait_ack_msgs.
LEMMA FrontStep ==
    ASSUME IInv, Front
    PROVE  Inductive'
<1> USE Unfold
<1> DEFINE o == Head(msgs)
           m == obj[o].n
<1>1. /\ pc = "idle" /\ msgs /= <<>> /\ waitAck' = Put(waitAck, IdOf(m), o) /\ handed' = m
      /\ msgs' = Tail(msgs)
      /\ UNCHANGED <<pc, up, file, exists, tmp, obj, durable, lst, at, pub, accepted, acked>>
    BY DEF Front, disk, loop
<1>2. /\ o = msgs[1] /\ 1 \in DOMAIN msgs
      /\ DOMAIN msgs' = 1..(Len(msgs) - 1) /\ DOMAIN msgs = 1..Len(msgs)
      /\ \A i \in 1..(Len(msgs) - 1) : msgs'[i] = msgs[i + 1]
    BY <1>1, TailFacts
<1>3. Len(msgs) \in Nat
    OBVIOUS
<1>4. /\ \A i \in DOMAIN msgs' : i + 1 \in DOMAIN msgs /\ msgs'[i] = msgs[i + 1] /\ i \in Nat /\ 1 < i + 1
      /\ \A i \in DOMAIN msgs : i = 1 \/ (i - 1 \in DOMAIN msgs' /\ msgs'[i - 1] = msgs[i])
    BY ONLY <1>2, <1>3
<1>5. o \in DOMAIN obj /\ m \in accepted /\ m \in Msg /\ m \in DOMAIN pub /\ m \in Nat
    BY <1>2, AcceptedFacts
<1>6. handed < m /\ handed \in Nat /\ up
    BY <1>1, <1>2 DEF InvTracked, DeliveryInOrder, NumberOf, InvPhase
<1>7. IdOf(m) = m
    BY <1>5, IdIsNumber
<1>8. waitAck[m] = 0
    BY <1>5, <1>6 DEF InvTracked
<1> HIDE DEF o, m
<1>9. o /= 0
  <2>1. DOMAIN obj = 1..Len(obj) /\ Len(obj) \in Nat
    OBVIOUS
  <2> QED
    BY ONLY <1>5, <2>1
<1> USE DEF m
<1>10. waitAck' = [waitAck EXCEPT ![m] = o]
    BY <1>1, <1>7, <1>8 DEF Put
<1>11. waitAck'[m] = o /\ \A n \in Msg : n /= m => waitAck'[n] = waitAck[n]
    BY <1>5, <1>10
<1>12. LastNow' = LastNow
    BY <1>1 DEF LastNow
<1>13. InvHistory'
  <2>1. m <= LastNow
    BY <1>5, AcceptedFacts
  <2> QED
    BY <1>1, <1>12, <2>1 DEF InvHistory
<1>14. InvPhase'
    BY <1>1, <1>6 DEF InvPhase
<1>15. InvFile' /\ InvDisk' /\ InvOffsets' /\ InvGc'
  <2>1. InvFile /\ InvDisk /\ InvOffsets /\ InvGc
    OBVIOUS
  <2> QED
    BY ONLY <1>1, <2>1 DEF InvFile, InvDisk, InvOffsets, InvGc, Increasing, IsDurable, OnDisk, Owed,
                           Loaded, Holds
<1>16. InvObjects'
  <2>1. InvObjects
    OBVIOUS
  <2> QED
    BY ONLY <1>1, <1>11, <2>1 DEF InvObjects, Increasing, NumberOf
<1>17. InMsgs \subseteq InMsgs' \union {m} /\ InMsgs' \subseteq InMsgs
  <2>1. \A i \in DOMAIN msgs : obj[msgs[i]].n \in InMsgs' \union {m}
    BY ONLY <1>1, <1>2, <1>4 DEF InMsgs, NumberOf
  <2>2. \A i \in DOMAIN msgs' : obj[msgs'[i]].n \in InMsgs
    BY ONLY <1>4 DEF InMsgs, NumberOf
  <2>3. InMsgs \subseteq InMsgs' \union {m}
    BY ONLY <2>1 DEF InMsgs, NumberOf
  <2>4. InMsgs' \subseteq InMsgs
    BY ONLY <1>1, <2>2 DEF InMsgs, NumberOf
  <2> QED
    BY ONLY <2>3, <2>4
<1>18. InWaitAck' = InWaitAck \union {m}
  <2>1. InWaitAck' = {obj[waitAck'[k]].n : k \in {j \in Msg : waitAck'[j] /= 0}}
    BY ONLY <1>1 DEF InWaitAck, NumberOf
  <2>2. InWaitAck = {obj[waitAck[k]].n : k \in {j \in Msg : waitAck[j] /= 0}}
    BY DEF InWaitAck, NumberOf
  <2>3. obj[waitAck'[m]].n = m
    BY ONLY <1>11
  <2> HIDE DEF m
  <2>4. {obj[waitAck'[k]].n : k \in {j \in Msg : waitAck'[j] /= 0}}
          = {obj[waitAck[k]].n : k \in {j \in Msg : waitAck[j] /= 0}} \union {m}
    BY ONLY <1>5, <1>8, <1>9, <1>11, <2>3
  <2> QED
    BY ONLY <2>1, <2>2, <2>4
<1>19. InvTracked'
  <2>1. InvTracked
    OBVIOUS
  <2>2. m \in InMsgs
    BY <1>2 DEF InMsgs, NumberOf
  <2>3. Held' = Held
    BY ONLY <1>17, <1>18, <2>2 DEF Held
  <2>4. Owed' = Owed
    BY ONLY <1>1 DEF Owed, IsDurable
  <2>5. \A n \in Msg : waitAck'[n] /= 0 => n <= handed'
    <3>1. ASSUME NEW n \in Msg, waitAck'[n] /= 0
          PROVE  n <= m
      <4>1. CASE n = m
        BY <1>5, <4>1
      <4>2. CASE n /= m
        <5>1. n <= handed
          BY <1>11, <2>1, <3>1, <4>2 DEF InvTracked
        <5>2. n \in Nat
          BY <3>1 DEF Msg
        <5> QED
          BY ONLY <1>5, <1>6, <5>1, <5>2
      <4> QED
        BY <4>1, <4>2
    <3> QED
      BY <1>1, <3>1
  <2>6. DeliveryInOrder'
    <3>1. /\ \A i, j \in DOMAIN msgs : i < j => obj[msgs[i]].n < obj[msgs[j]].n
      BY <2>1 DEF InvTracked, DeliveryInOrder, NumberOf
    <3>2. \A i \in DOMAIN msgs' : m < obj[msgs'[i]].n
      BY ONLY <1>2, <1>4, <3>1
    <3>3. \A i, j \in DOMAIN msgs' : i < j => obj[msgs'[i]].n < obj[msgs'[j]].n
      BY ONLY <1>4, <3>1
    <3> QED
      BY ONLY <1>1, <3>2, <3>3 DEF DeliveryInOrder, NumberOf
  <2> QED
    BY ONLY <1>1, <2>1, <2>3, <2>4, <2>5, <2>6 DEF InvTracked, NoResurrection
<1> QED
    BY ONLY <1>13, <1>14, <1>15, <1>16, <1>19 DEF Inductive

\* What both delivery modes do with an acknowledgement.
LEMMA ForgetFacts ==
    ASSUME IInv, NEW id \in Msg, Forget(id),
           UNCHANGED <<pub, up, obj, msgs, accepted, handed>>, pc' /= "body"
    PROVE  /\ pc = "idle" /\ up /\ exists
           /\ waitAck[id] \in DOMAIN obj /\ obj[waitAck[id]].n = id
           /\ id \in accepted /\ id \notin acked /\ acked' = acked \union {id}
           /\ LastNow' = LastNow /\ InvHistory'
           /\ \A n \in Msg : waitAck'[n] = IF n = id THEN 0 ELSE waitAck[n]
           /\ InWaitAck' = InWaitAck \ {id} /\ id \in InWaitAck /\ InMsgs' = InMsgs
           /\ Held' = Held \ {id} /\ NoResurrection' /\ DeliveryInOrder'
           /\ \A n \in Msg : waitAck'[n] /= 0 => n <= handed'
           /\ \A n \in Msg : waitAck'[n] /= 0 => NumberOf(waitAck[n]) = n /\ waitAck'[n] = waitAck[n]
<1> USE Unfold
<1>1. /\ pc = "idle" /\ waitAck[id] /= 0 /\ waitAck' = [waitAck EXCEPT ![id] = 0]
      /\ acked' = acked \union {obj[waitAck[id]].n}
    BY DEF Forget
<1>2. up /\ exists
    BY <1>1 DEF InvPhase
<1>3. waitAck[id] \in DOMAIN obj /\ obj[waitAck[id]].n = id
    BY <1>1, AcceptedFacts DEF InvObjects, NumberOf
<1>4. id \in InWaitAck
    BY <1>1, <1>3 DEF InWaitAck, NumberOf
<1>5. id \in accepted /\ id \notin acked
    BY <1>4 DEF InvTracked, NoResurrection, Held
<1>6. LastNow' = LastNow
    BY <1>1 DEF LastNow
<1>7. InvHistory'
    BY <1>1, <1>3, <1>5, <1>6 DEF InvHistory
<1>8. \A n \in Msg : waitAck'[n] = IF n = id THEN 0 ELSE waitAck[n]
    BY <1>1
<1>9. \A n \in Msg : waitAck[n] /= 0 => obj[waitAck[n]].n = n
    BY DEF InvObjects, NumberOf
<1>10. InWaitAck' = InWaitAck \ {id}
  <2>1. InWaitAck' = {obj[waitAck'[k]].n : k \in {j \in Msg : waitAck'[j] /= 0}}
    BY DEF InWaitAck, NumberOf
  <2>2. InWaitAck = {obj[waitAck[k]].n : k \in {j \in Msg : waitAck[j] /= 0}}
    BY DEF InWaitAck, NumberOf
  <2>3. {obj[waitAck'[k]].n : k \in {j \in Msg : waitAck'[j] /= 0}}
          = {obj[waitAck[k]].n : k \in {j \in Msg : waitAck[j] /= 0}} \ {id}
    BY ONLY <1>8, <1>9, id \in Msg
  <2> QED
    BY ONLY <2>1, <2>2, <2>3
<1>11. InMsgs' = InMsgs /\ id \notin InMsgs
  <2>1. id <= handed /\ id \in Nat /\ handed \in Nat
    BY <1>1 DEF InvTracked, Msg
  <2>2. \A i \in DOMAIN msgs : handed < obj[msgs[i]].n
    BY DEF InvTracked, DeliveryInOrder, NumberOf
  <2>3. id \notin InMsgs
    BY ONLY <2>1, <2>2 DEF InMsgs, NumberOf
  <2> QED
    BY <2>3 DEF InMsgs, NumberOf
<1>12. Held' = Held \ {id}
    BY ONLY <1>10, <1>11 DEF Held
<1>13. NoResurrection'
  <2>1. NoResurrection
    BY DEF InvTracked
  <2> QED
    BY <1>1, <1>3, <1>12, <2>1 DEF NoResurrection
<1>14. DeliveryInOrder'
    BY DEF InvTracked, DeliveryInOrder, NumberOf
<1>15. \A n \in Msg : waitAck'[n] /= 0 => n <= handed'
    BY <1>8 DEF InvTracked
<1>16. \A n \in Msg : waitAck'[n] /= 0 => NumberOf(waitAck[n]) = n /\ waitAck'[n] = waitAck[n]
    BY <1>8, <1>9 DEF NumberOf
<1> QED
    BY <1>1, <1>2, <1>3, <1>4, <1>5, <1>6, <1>7, <1>8, <1>10, <1>11, <1>12, <1>13, <1>14, <1>15, <1>16

\* A transient message is acknowledged.
LEMMA AckTransientStep ==
    ASSUME IInv, NEW id \in Msg, AckTransient(id)
    PROVE  Inductive'
<1> USE Unfold
<1>1. /\ Forget(id) /\ ~pub[obj[waitAck[id]].n].durable
      /\ UNCHANGED <<pc, up, file, exists, tmp, obj, msgs, durable, lst, at, pub, accepted, handed>>
    BY DEF AckTransient, disk, loop
<1>2. pc = "idle"
    BY <1>1 DEF Forget
<1>3. /\ up /\ obj[waitAck[id]].n = id /\ acked' = acked \union {id}
      /\ InvHistory' /\ Held' = Held \ {id} /\ NoResurrection' /\ DeliveryInOrder'
      /\ \A n \in Msg : waitAck'[n] /= 0 => n <= handed'
      /\ \A n \in Msg : waitAck'[n] /= 0 => NumberOf(waitAck[n]) = n /\ waitAck'[n] = waitAck[n]
    BY <1>1, <1>2, ForgetFacts
<1>4. id \notin Owed /\ Owed' = Owed
    BY <1>1, <1>3 DEF Owed, IsDurable
<1>5. InvPhase'
    BY <1>1, <1>3 DEF InvPhase
<1>6. InvFile' /\ InvDisk' /\ InvOffsets' /\ InvGc'
  <2>1. InvFile /\ InvDisk /\ InvOffsets /\ InvGc
    OBVIOUS
  <2> QED
    BY ONLY <1>1, <1>2, <1>4, <2>1 DEF InvFile, InvDisk, InvOffsets, InvGc, Increasing, IsDurable,
                                       OnDisk, Loaded, Holds
<1>7. InvObjects'
  <2>1. InvObjects
    OBVIOUS
  <2> QED
    BY ONLY <1>1, <1>3, <2>1 DEF InvObjects, Increasing, NumberOf
<1>8. InvTracked'
  <2>1. InvTracked
    OBVIOUS
  <2> QED
    BY ONLY <1>1, <1>3, <1>4, <2>1 DEF InvTracked
<1> QED
    BY ONLY <1>3, <1>5, <1>6, <1>7, <1>8 DEF Inductive

\* A durable message is acknowledged: its record is overwritten, and the garbage
\* collection may begin.
LEMMA AckDurableStep ==
    ASSUME IInv, IOFails = {}, NEW id \in Msg, AckDurable(id)
    PROVE  Inductive'
<1> USE Unfold
<1> DEFINE off == obj[durable[id]].off
<1>1. /\ Forget(id) /\ pub[obj[waitAck[id]].n].durable /\ Invalidate(waitAck[id])
      /\ durable' = [durable EXCEPT ![id] = 0]
      /\ UNCHANGED <<up, exists, tmp, obj, msgs, pub, accepted, handed>>
      /\ \/ pc' = "load" /\ lst' = <<>> /\ at' = 1
         \/ UNCHANGED <<pc, lst, at>>
    BY DEF AckDurable, BeginGc, loop
<1>2. pc = "idle" /\ pc' /= "body" /\ pc' \in {"idle", "load"}
    BY <1>1 DEF Forget
<1>3. /\ up /\ exists /\ waitAck[id] \in DOMAIN obj /\ obj[waitAck[id]].n = id
      /\ id \in accepted /\ id \notin acked /\ acked' = acked \union {id}
      /\ InvHistory' /\ Held' = Held \ {id} /\ NoResurrection' /\ DeliveryInOrder'
      /\ \A n \in Msg : waitAck'[n] /= 0 => n <= handed'
      /\ \A n \in Msg : waitAck'[n] /= 0 => NumberOf(waitAck[n]) = n /\ waitAck'[n] = waitAck[n]
    BY <1>1, <1>2, ForgetFacts
<1>4. id \in Owed /\ Owed' = Owed \ {id}
    BY <1>1, <1>3 DEF Owed, IsDurable
<1>5. durable[id] /= 0 /\ durable[id] \in DOMAIN obj /\ obj[durable[id]].n = id
    BY <1>3, <1>4, AcceptedFacts DEF InvTracked, InvObjects, NumberOf
<1>6. waitAck[id] = durable[id]
  <2>1. Increasing(obj)
    BY DEF InvObjects
  <2>2. waitAck[id] \in Nat /\ durable[id] \in Nat /\ id \in Nat
    BY <1>3, <1>5 DEF Msg
  <2>3. ~(waitAck[id] < durable[id]) /\ ~(durable[id] < waitAck[id])
    BY ONLY <1>3, <1>5, <2>1, <2>2 DEF Increasing
  <2> QED
    BY ONLY <2>2, <2>3
<1>7. off \in DOMAIN file /\ file[off].n = id
    BY <1>2, <1>4 DEF InvOffsets
<1>8. file' = [file EXCEPT ![off] = [n |-> id, st |-> "invalid"]]
  <2>1. obj[waitAck[id]].off = off /\ obj[waitAck[id]].n = id /\ exists /\ id \in accepted
    BY <1>3, <1>6
  <2>2. file' = Overwritten(waitAck[id])
    BY <1>1, <1>7, <2>1 DEF Invalidate
  <2>3. file[off].st /= "torn"
    BY <1>2, <1>7, NeverLost
  <2> HIDE DEF off
  <2>4. file' = [i \in DOMAIN file |-> IF i = off THEN [n |-> id, st |-> "invalid"] ELSE file[i]]
    BY ONLY <2>1, <2>2, <2>3 DEF Overwritten
  <2>5. file = [i \in DOMAIN file |-> file[i]]
    BY ElementFacts
  <2> QED
    BY ONLY <1>7, <2>4, <2>5
<1> HIDE DEF off
<1>9. /\ DOMAIN file' = DOMAIN file /\ Len(file') = Len(file)
      /\ file'[off] = [n |-> id, st |-> "invalid"]
      /\ \A i \in DOMAIN file : i /= off => file'[i] = file[i]
      /\ \A i \in DOMAIN file : file'[i].n = file[i].n
  <2>1. DOMAIN file' = DOMAIN file /\ DOMAIN file = 1..Len(file) /\ Len(file) \in Nat
    BY <1>8
  <2>2. file' \in Seq(Record)
    <3>1. waitAck[id] \in DOMAIN obj /\ obj[waitAck[id]] \in Object
      BY <1>3, ElementFacts
    <3> QED
      BY <1>1, <3>1, InvalidateType
  <2>3. Len(file') = Len(file)
    <3>1. DOMAIN file' = 1..Len(file') /\ Len(file') \in Nat
      BY ONLY <2>2, ElementFacts
    <3> QED
      BY ONLY <2>1, <3>1
  <2> QED
    BY ONLY <1>7, <1>8, <2>1, <2>3
<1>10. \A i \in DOMAIN file : file[i].n = id => i = off
  <2>1. Increasing(file) /\ DOMAIN file = 1..Len(file) /\ Len(file) \in Nat
    BY DEF InvFile
  <2>2. id \in Nat
    BY DEF Msg
  <2> QED
    BY ONLY <1>7, <2>1, <2>2 DEF Increasing
<1>11. \A n \in Msg : durable'[n] = IF n = id THEN 0 ELSE durable[n]
    BY <1>1
<1>12. InvPhase'
    BY <1>1, <1>2, <1>3 DEF InvPhase
<1>13. InvFile'
  <2>1. InvFile
    OBVIOUS
  <2>2. \A i \in DOMAIN file : file[i].st /= "torn"
    BY ONLY <1>2, <2>1 DEF InvFile
  <2>3. \A i \in DOMAIN file' : file'[i].st /= "torn"
    BY ONLY <1>9, <2>2
  <2> QED
    BY ONLY <1>1, <1>2, <1>9, <2>1, <2>3 DEF InvFile, Increasing, IsDurable
<1>14. InvDisk'
  <2>1. OnDisk = Owed
    BY <1>2 DEF InvDisk
  <2>2. OnDisk' = OnDisk \ {id}
    BY ONLY <1>9, <1>10 DEF OnDisk
  <2> QED
    BY ONLY <1>4, <2>1, <2>2 DEF InvDisk
<1>15. InvObjects'
  <2>1. InvObjects
    OBVIOUS
  <2> QED
    BY ONLY <1>1, <1>3, <1>11, <2>1 DEF InvObjects, Increasing, NumberOf
<1>16. InvTracked'
  <2>1. InvTracked
    OBVIOUS
  <2>2. \A n \in Msg : durable'[n] /= 0 <=> n \in Owed'
    BY ONLY <1>3, <1>4, <1>11, <2>1 DEF InvTracked
  <2>3. Owed' \subseteq Held'
    BY ONLY <1>3, <1>4, <2>1 DEF InvTracked
  <2> QED
    BY ONLY <1>1, <1>3, <2>2, <2>3 DEF InvTracked
<1>17. InvOffsets'
  <2>1. ASSUME NEW n \in Owed, n /= id
        PROVE  obj[durable'[n]].off \in DOMAIN file /\ file'[obj[durable'[n]].off].n = n
    <3>1. obj[durable[n]].off \in DOMAIN file /\ file[obj[durable[n]].off].n = n
      BY <1>2 DEF InvOffsets
    <3>2. n \in Msg
      BY IdIsNumber
    <3> QED
      BY ONLY <1>9, <1>11, <2>1, <3>1, <3>2
  <2> QED
    BY ONLY <1>1, <1>4, <1>9, <2>1 DEF InvOffsets
<1>18. InvGc'
  <2>1. CASE pc' = "load" /\ lst' = <<>> /\ at' = 1
    <3>1. DOMAIN file' = 1..Len(file') /\ Len(file') \in Nat /\ DOMAIN <<>> = {}
      BY <1>9, EmptySeqFacts
    <3>2. {k \in DOMAIN file' : k < 1 /\ file'[k].st = "valid"} = {}
      BY ONLY <3>1
    <3>3. Loaded' = {}
      BY ONLY <2>1, <3>1 DEF Loaded
    <3> QED
      BY ONLY <2>1, <3>1, <3>2, <3>3 DEF InvGc, Increasing
  <2>2. CASE UNCHANGED <<pc, lst, at>>
    BY <1>2, <2>2 DEF InvGc, Increasing
  <2> QED
    BY <1>1, <2>1, <2>2
<1> QED
    BY ONLY <1>3, <1>12, <1>13, <1>14, <1>15, <1>16, <1>17, <1>18 DEF Inductive

-----------------------------------------------------------------------------
(* The theorem *)

\* The queue starts with nothing anywhere.
LEMMA InitInductive ==
    ASSUME Init
    PROVE  Inductive
<1> USE EmptySeqFacts DEF Init
<1>1. \A n \in Msg : Empty[n] = 0
    BY DEF Empty
<1>2. InMsgs = {} /\ InWaitAck = {} /\ Owed = {} /\ OnDisk = {}
    BY <1>1 DEF InMsgs, InWaitAck, Owed, OnDisk
<1>3. InvHistory /\ InvPhase /\ InvFile /\ InvDisk
    BY <1>2 DEF InvHistory, InvPhase, InvFile, InvDisk, Increasing, LastNow
<1>4. InvObjects /\ InvTracked /\ InvOffsets /\ InvGc
    BY <1>1, <1>2 DEF InvObjects, InvTracked, InvOffsets, InvGc, Increasing, NoResurrection,
                      DeliveryInOrder, Held
<1> QED
    BY <1>3, <1>4 DEF Inductive

\* Every step keeps the invariant when nothing fails: the actions of a failing file
\* system are not enabled, and the process does not die where the disk is incomplete.
LEMMA StepInductive ==
    ASSUME SafeFaults, IInv, [Next]_vars
    PROVE  Inductive'
<1> USE Unfold
<1>1. UniqueIds /\ IOFails = {} /\ CrashAt \intersect {"body", "removed"} = {}
    BY DEF SafeFaults
<1>2. CASE Start
    BY <1>2, StartStep
<1>3. CASE Gc
  <2>1. ~LoadFails /\ ~LoadThrows /\ ~LoadDamaged /\ ~TmpWriteFails /\ ~RenameFails
    BY <1>1, NeverLost DEF LoadFails, LoadThrows, LoadDamaged, Misreads, TmpWriteFails, RenameFails
  <2>2. ~RemoveFails
    BY <1>1 DEF RemoveFails, InvPhase
  <2> QED
    BY <1>1, <1>3, <2>1, <2>2, LoadRecordStep, LoadDoneStep, RemoveOldStep, RenameStep DEF Gc
<1>4. CASE Recover
    BY <1>4, RecoverStep
<1>5. CASE Relink
  <2>1. CASE AbortGc
    BY <2>1, EndsStep DEF AbortGc, disk
  <2>2. ~RelinkMissed
    <3>1. ASSUME RelinkMissed
          PROVE  FALSE
      <4>1. pc = "relink" /\ at \in DOMAIN lst /\ durable[IdOf(lst[at].n)] = 0
        BY <3>1 DEF RelinkMissed
      <4>2. lst[at].n \in Owed /\ up
        BY <4>1 DEF InvGc, Loaded, InvPhase
      <4> QED
        BY <4>1, <4>2, IdIsNumber DEF InvTracked
    <3> QED
      BY <3>1
  <2> QED
    BY <1>5, <2>1, <2>2, CheckGcStep, RelinkFoundStep, RelinkDoneStep DEF Relink
<1>6. CASE Insert
  <2>1. ~InsertBodyFails /\ ~InsertHeaderFails
    BY <1>1 DEF InsertBodyFails, InsertHeaderFails
  <2>2. ~InsertRejected
    BY DEF InsertRejected, Attempt, InvPhase
  <2> QED
    BY <1>1, <1>6, <2>1, <2>2, InsertTransientStep, InsertHeaderStep, InsertBodyStep DEF Insert
<1>7. CASE Front
    BY <1>7, FrontStep
<1>8. CASE Ack
    BY <1>1, <1>8, AckTransientStep, AckDurableStep DEF Ack
<1>9. CASE Clear
    BY <1>9, EndsStep DEF Clear
<1>10. CASE Crash
    BY <1>1, <1>10, EndsStep DEF Crash, disk
<1>11. CASE UNCHANGED vars
  <2>1. UNCHANGED <<pc, up, file, exists, tmp, obj, msgs, durable, waitAck, lst, at,
                    pub, accepted, acked, handed>>
    BY <1>11 DEF vars, disk, memory, loop, history
  <2>2. LastNow' = LastNow /\ Owed' = Owed /\ OnDisk' = OnDisk /\ Loaded' = Loaded /\ Held' = Held
    BY <2>1 DEF LastNow, Owed, IsDurable, OnDisk, Loaded, Held, InMsgs, InWaitAck, NumberOf
  <2>3. InvHistory' /\ InvPhase'
    BY <2>1, <2>2 DEF InvHistory, InvPhase
  <2>4. InvFile' /\ InvDisk' /\ InvOffsets' /\ InvGc'
    <3>1. InvFile /\ InvDisk /\ InvOffsets /\ InvGc
      OBVIOUS
    <3>2. InvFile'
      BY ONLY <2>1, <3>1 DEF InvFile, Increasing, IsDurable
    <3>3. InvDisk' /\ InvOffsets'
      BY ONLY <2>1, <2>2, <3>1 DEF InvDisk, InvOffsets
    <3>4. InvGc'
      BY ONLY <2>1, <2>2, <3>1 DEF InvGc, Increasing, Holds
    <3> QED
      BY <3>2, <3>3, <3>4
  <2>5. InvObjects' /\ InvTracked'
    BY <2>1, <2>2 DEF InvObjects, InvTracked, Increasing, NumberOf, NoResurrection, DeliveryInOrder
  <2> QED
    BY <2>3, <2>4, <2>5 DEF Inductive
<1>12. ~StartWithoutFile /\ ~ClearFails
    BY <1>1 DEF StartWithoutFile, ClearFails
<1> QED
    BY <1>2, <1>3, <1>4, <1>5, <1>6, <1>7, <1>8, <1>9, <1>10, <1>11, <1>12 DEF Next

\* What the invariant says of a usable queue.
LEMMA InvariantImplies ==
    ASSUME IInv
    PROVE  NothingLost /\ NoResurrection /\ DeliveryInOrder
<1> USE Unfold
<1>1. NothingLost
    BY DEF NothingLost, InvPhase, InvTracked
<1> QED
    BY <1>1 DEF InvTracked

\* When publishers use an id once, the file system reports no failure and the process
\* does not die where the disk is incomplete: no accepted durable message is lost, none
\* comes back, and messages leave in order, through every restart and every garbage
\* collection (queue_message and message_mapper).
THEOREM QueueSafety ==
    ASSUME SafeFaults
    PROVE  Spec => [](NothingLost /\ NoResurrection /\ DeliveryInOrder)
<1>1. Init => IInv
    BY InitInductive, InitType DEF IInv
<1>2. IInv /\ [Next]_vars => IInv'
    BY StepInductive, StepType, QueueMessageAssumption DEF IInv
<1>3. IInv => NothingLost /\ NoResurrection /\ DeliveryInOrder
    BY InvariantImplies
<1> QED
    BY <1>1, <1>2, <1>3, PTL DEF Spec

\* Under the same conditions a message that was acknowledged, or whose queue was deleted,
\* is never handed out again: not from the file after a restart, nor from the list gc()
\* loaded (queue_message::remove, recovery, the "missed" branch of gc).
THEOREM NeverResurrected ==
    ASSUME SafeFaults
    PROVE  Spec => []NoResurrection
BY QueueSafety, PTL

\* Under the same conditions messages wait in the order they were accepted, and what has
\* been handed out precedes all of them (front, recovery and gc all touch __msgs).
THEOREM OrderedDelivery ==
    ASSUME SafeFaults
    PROVE  Spec => []DeliveryInOrder
BY QueueSafety, PTL
=============================================================================
