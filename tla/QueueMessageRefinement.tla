----------------------- MODULE QueueMessageRefinement -----------------------
(* Two more results about one message queue that rest on its inductive invariant: the
   counters gc_check() works with are right, so that gc()'s assertion holds and garbage
   is bounded; and the queue, with its file and its crashes, is a MessageQueue. *)
EXTENDS QueueMessageProofs, FiniteSetTheorems

-----------------------------------------------------------------------------
(* What each operation does to the messages the queue owes and holds. *)

LEMMA TypeFacts ==
    ASSUME IInv
    PROVE  /\ valid_count \in Nat /\ total_count \in Nat /\ up \in BOOLEAN
           /\ Owed \subseteq 1..Len(pub)
           /\ IsFiniteSet(Owed) /\ Cardinality(Owed) \in Nat
<1>1. /\ valid_count \in Nat /\ total_count \in Nat /\ up \in BOOLEAN
  BY DEF IInv, TypeInv, TypeOK
<1>2. Owed \subseteq 1..Len(pub) /\ Len(pub) \in Nat
  BY IdIsNumber, Unfold
<1>3. IsFiniteSet(1..Len(pub))
  BY <1>2, FS_Interval
<1>4. IsFiniteSet(Owed)
  BY <1>2, <1>3, FS_Subset
<1> QED
  BY <1>1, <1>2, <1>4, FS_CardinalityType

LEMMA SameLength ==
    ASSUME NEW S, NEW T, NEW s \in Seq(S), NEW t \in Seq(T), DOMAIN s = DOMAIN t
    PROVE  Len(s) = Len(t)
<1> DEFINE a == Len(s)
           b == Len(t)
<1>1. a \in Nat /\ b \in Nat /\ 1..a = 1..b
  BY ElementFacts
<1> HIDE DEF a, b
<1>2. (a > 0 => a \in 1..b) /\ (b > 0 => b \in 1..a)
  BY ONLY <1>1
<1>3. a = b
  BY ONLY <1>1, <1>2
<1> QED
  BY <1>3 DEF a, b

\* A list in ascending order is as long as the set of its messages is large.
LEMMA CountIncreasing ==
    ASSUME NEW T, NEW s \in Seq(T), Increasing(s), \A i \in DOMAIN s : s[i].n \in Nat
    PROVE  Cardinality({s[i].n : i \in DOMAIN s}) = Len(s)
<1> DEFINE N == {s[i].n : i \in DOMAIN s}
           f == [i \in 1..Len(s) |-> s[i].n]
<1>1. Len(s) \in Nat /\ DOMAIN s = 1..Len(s)
  BY ElementFacts
<1>2. f \in [1..Len(s) -> N]
  BY <1>1
<1>3. IsInjective(f)
  <2>1. SUFFICES ASSUME NEW i \in 1..Len(s), NEW j \in 1..Len(s), f[i] = f[j]
                 PROVE  i = j
    BY <1>1 DEF IsInjective
  <2>2. s[i].n = s[j].n /\ s[i].n \in Nat /\ i \in Nat /\ j \in Nat
    BY <1>1, <2>1
  <2>3. ~(i < j) /\ ~(j < i)
    <3>1. i < j => s[i].n < s[j].n
      BY <1>1 DEF Increasing
    <3>2. j < i => s[j].n < s[i].n
      BY <1>1 DEF Increasing
    <3> QED
      BY <2>2, <3>1, <3>2
  <2> QED
    BY <2>2, <2>3
<1>4. \A n \in N : \E i \in 1..Len(s) : f[i] = n
  BY <1>1
<1>5. f \in Bijection(1..Len(s), N)
  BY <1>2, <1>3, <1>4 DEF Bijection, Injection, Surjection
<1>6. IsFiniteSet(1..Len(s)) /\ Cardinality(1..Len(s)) = Len(s)
  BY <1>1, FS_Interval
<1>7. ExistsBijection(1..Len(s), N)
  BY <1>5 DEF ExistsBijection
<1> HIDE DEF N, f
<1>8. Cardinality(N) = Cardinality(1..Len(s))
  BY <1>6, <1>7, FS_Bijection
<1> QED
  BY <1>6, <1>8 DEF N

\* The list gc() has loaded, once it is complete.
LEMMA LoadedCount ==
    ASSUME IInv, pc \in {"swap", "removed", "loaded", "relink"}
    PROVE  Len(lst) = Cardinality(Owed)
<1> USE Unfold
<1>1. Increasing(lst) /\ Loaded = Owed
  BY DEF InvGc
<1>2. \A i \in DOMAIN lst : lst[i].n \in Nat
  <2>1. \A i \in DOMAIN lst : lst[i] \in Object
    BY ElementFacts
  <2> QED
    BY <2>1 DEF Object, Msg
<1>3. Cardinality({lst[i].n : i \in DOMAIN lst}) = Len(lst)
  BY <1>1, <1>2, CountIncreasing
<1> QED
  BY <1>1, <1>3 DEF Loaded

\* Steps that accept and acknowledge nothing.
LEMMA OwedFrame ==
    ASSUME UNCHANGED <<pub, accepted, acked>>
    PROVE  Owed' = Owed
BY DEF Owed, IsDurable

LEMMA InsertTransientEffect ==
    ASSUME IInv, UniqueIds, InsertTransient
    PROVE  /\ pc = "idle" /\ up /\ up' /\ pc' = "idle" /\ LastNow' = LastNow + 1
           /\ InMsgs' = InMsgs \union {LastNow + 1} /\ InWaitAck' = InWaitAck
           /\ Owed' = Owed /\ \A n \in 1..LastNow : IsDurable(n)' = IsDurable(n)
           /\ ~pub'[LastNow + 1].durable /\ LastNow \in Nat
<1> USE Unfold
<1>1. /\ \E id \in NewIds : Attempt(id, FALSE)
      /\ Enqueue(NextMsg, 0)
      /\ UNCHANGED <<pc, up, waitAck, acked, handed>>
  BY DEF InsertTransient
<1>2. /\ pc = "idle" /\ up /\ LastNow = Len(pub)
      /\ NextMsg = Len(pub) + 1 /\ NextMsg \in Nat /\ handed < NextMsg
      /\ NextMsg \notin accepted
      /\ \A k \in accepted : k < NextMsg
      /\ Len(pub') = NextMsg
      /\ \A k \in DOMAIN pub : k \in DOMAIN pub' /\ pub'[k] = pub[k]
      /\ pub'[NextMsg] = [id |-> NextMsg, durable |-> FALSE]
  BY <1>1, AttemptFacts
<1>3. accepted' = accepted \union {NextMsg} /\ InMsgs' = InMsgs \union {NextMsg} /\ InWaitAck' = InWaitAck
  BY <1>1, <1>2, EnqueueStep
<1>4. \A k \in accepted : k \in DOMAIN pub
  BY AcceptedFacts
<1>5. Owed' = Owed
  BY ONLY <1>1, <1>2, <1>3, <1>4 DEF Owed, IsDurable
<1>6. LastNow' = LastNow + 1 /\ LastNow \in Nat
  BY <1>1, <1>2 DEF LastNow
<1>7. (\A n \in 1..LastNow : IsDurable(n)' = IsDurable(n)) /\ ~pub'[LastNow + 1].durable
  <2>1. DOMAIN pub = 1..LastNow /\ NextMsg = LastNow + 1
    BY <1>2
  <2> QED
    BY ONLY <1>2, <2>1 DEF IsDurable
<1> QED
  BY <1>1, <1>2, <1>3, <1>5, <1>6, <1>7

LEMMA InsertHeaderEffect ==
    ASSUME IInv, UniqueIds, InsertHeader
    PROVE  /\ pc = "idle" /\ up /\ up' /\ pc' = "body" /\ LastNow' = LastNow /\ LastNow \in Nat
           /\ InMsgs' = InMsgs /\ InWaitAck' = InWaitAck
           /\ Owed' = Owed /\ \A n \in 1..LastNow : IsDurable(n)' = IsDurable(n)
           /\ Len(file') = Len(file) + 1
<1> USE Unfold
<1>1. /\ \E id \in NewIds : Attempt(id, TRUE)
      /\ file' = Append(file, [n |-> NextMsg, st |-> "torn"]) /\ pc' = "body"
      /\ UNCHANGED <<up, obj, msgs, waitAck, accepted, acked>>
  BY DEF InsertHeader, memory
<1>2. /\ pc = "idle" /\ up /\ LastNow = Len(pub)
      /\ NextMsg = Len(pub) + 1
      /\ Len(pub') = NextMsg
      /\ \A k \in DOMAIN pub : k \in DOMAIN pub' /\ pub'[k] = pub[k]
  BY <1>1, AttemptFacts
<1>3. \A k \in accepted : k \in DOMAIN pub
  BY AcceptedFacts
<1>4. Owed' = Owed
  BY ONLY <1>1, <1>2, <1>3 DEF Owed, IsDurable
<1>5. LastNow' = LastNow /\ LastNow \in Nat
  BY <1>1, <1>2 DEF LastNow
<1>6. \A n \in 1..LastNow : IsDurable(n)' = IsDurable(n)
  BY <1>2 DEF IsDurable
<1>7. InMsgs' = InMsgs /\ InWaitAck' = InWaitAck
  BY <1>1 DEF InMsgs, InWaitAck, NumberOf
<1>8. Len(file') = Len(file) + 1
  BY <1>1, AppendFacts
<1> QED
  BY <1>1, <1>2, <1>4, <1>5, <1>6, <1>7, <1>8

\* When nothing fails, no action of a failing file system is enabled.
LEMMA NothingFails ==
    ASSUME SafeFaults, IInv
    PROVE  /\ ~LoadThrows /\ ~LoadDamaged /\ ~StartWithoutFile
           /\ ~InsertHeaderFails /\ ~ClearFails
<1>1. IOFails = {} /\ InvFile /\ file \in Seq(Record)
  BY Unfold DEF SafeFaults
<1>2. ~LoadThrows /\ ~LoadDamaged
  BY <1>1, NeverLost DEF LoadThrows, LoadDamaged, Misreads
<1> QED
  BY <1>1, <1>2 DEF StartWithoutFile, InsertHeaderFails, ClearFails

LEMMA InsertBodyEffect ==
    ASSUME IInv, IOFails = {}, InsertBody
    PROVE  /\ pc = "body" /\ up /\ up' /\ pc' = "idle" /\ LastNow' = LastNow + 1 /\ LastNow \in Nat
           /\ InMsgs' = InMsgs \union {LastNow + 1} /\ InWaitAck' = InWaitAck
           /\ Owed' = Owed \union {LastNow + 1} /\ LastNow + 1 \notin Owed
           /\ \A n \in 1..(LastNow + 1) : pub'[n] = pub[n]
           /\ pub'[LastNow + 1].durable
           /\ Len(file') = Len(file)
<1> USE Unfold
<1> DEFINE n == Len(pub)
           k == Len(file)
<1>1. /\ pc = "body" /\ pc' = "idle" /\ file' = [file EXCEPT ![k].st = "valid"]
      /\ Enqueue(n, k)
      /\ UNCHANGED <<up, waitAck, pub, acked, handed>>
  <2>1. PICK short \in MaybeShort({k}) :
           file' = [file EXCEPT ![k].st = IF short = {} THEN "valid" ELSE "torn"]
    BY DEF InsertBody
  <2>2. short = {}
    BY <2>1, NoneShort
  <2>3. file' = [file EXCEPT ![k].st = "valid"]
    BY <2>1, <2>2
  <2> QED
    BY <2>3 DEF InsertBody
<1>2. up /\ pub /= <<>> /\ file /= <<>> /\ file[k].n = n
  BY <1>1 DEF InvPhase, InvFile
<1>3. n \in DOMAIN pub /\ n \in Nat /\ k \in DOMAIN file /\ IsDurable(n)
  <2>1. n \in DOMAIN pub /\ k \in DOMAIN file
    BY <1>2, LastFacts
  <2> QED
    BY <1>2, <2>1 DEF InvFile
<1>4. LastNow = n - 1 /\ LastNow' = n /\ LastNow \in Nat /\ LastNow + 1 = n
  <2>1. LastNow = n - 1 /\ LastNow' = n
    BY <1>1 DEF LastNow
  <2>2. n \in Nat /\ n > 0
    BY <1>3
  <2> HIDE DEF n
  <2> QED
    BY ONLY <2>1, <2>2
<1>5. handed < n /\ n \notin acked /\ n \notin accepted /\ \A a \in accepted : a < n
  <2>1. handed <= LastNow /\ accepted \subseteq 1..LastNow /\ acked \subseteq 1..LastNow /\ handed \in Nat
    BY DEF InvHistory
  <2> HIDE DEF n
  <2> QED
    BY ONLY <1>3, <1>4, <2>1
<1>6. accepted' = accepted \union {n} /\ InMsgs' = InMsgs \union {n} /\ InWaitAck' = InWaitAck
  <2>1. n \in Nat /\ Enqueue(n, k) /\ handed' = handed /\ waitAck' = waitAck
    BY <1>1, <1>3
  <2> HIDE DEF n, k
  <2> QED
    BY <1>5, <2>1, EnqueueStep
<1>7. Owed' = Owed \union {n} /\ n \notin Owed
  <2> HIDE DEF n
  <2> QED
    BY ONLY <1>1, <1>3, <1>5, <1>6 DEF Owed, IsDurable
<1>8. Len(file') = Len(file)
  <2>1. \A r \in Record : [r EXCEPT !.st = "valid"] \in Record
    BY DEF Record
  <2>2. file' \in Seq(Record) /\ DOMAIN file' = DOMAIN file
    <3>1. file[k] \in Record
      BY <1>3, ElementFacts
    <3>2. [file[k] EXCEPT !.st = "valid"] \in Record
      BY <2>1, <3>1
    <3> QED
      BY <1>1, <1>3, <3>2
  <2> QED
    BY <2>2, SameLength
<1>9. pub' = pub /\ pub[n].durable
  BY <1>1, <1>3 DEF IsDurable
<1> HIDE DEF n, k
<1> QED
  BY <1>1, <1>2, <1>4, <1>6, <1>7, <1>8, <1>9

LEMMA AckEffect ==
    ASSUME IInv, NEW id \in Msg, AckTransient(id) \/ AckDurable(id)
    PROVE  /\ pc = "idle" /\ up /\ up' /\ pc' \in {"idle", "load"}
           /\ LastNow' = LastNow /\ pub' = pub
           /\ InMsgs' = InMsgs /\ InWaitAck' = InWaitAck \ {id} /\ id \in InWaitAck
           /\ AckTransient(id) => Owed' = Owed /\ pc' = "idle"
           /\ AckDurable(id) => Owed' = Owed \ {id} /\ id \in Owed
           /\ Len(file') = Len(file)
<1> USE Unfold
<1>1. /\ Forget(id) /\ UNCHANGED <<pub, up, obj, msgs, accepted, handed>>
      /\ AckTransient(id) => pc' = pc /\ ~pub[obj[waitAck[id]].n].durable /\ file' = file
      /\ AckDurable(id) => /\ pub[obj[waitAck[id]].n].durable /\ Invalidate(waitAck[id])
                           /\ pc' \in {pc, "load"}
  BY DEF AckTransient, AckDurable, BeginGc, disk
<1>2. pc = "idle" /\ pc' \in {"idle", "load"}
  BY <1>1 DEF Forget
<1>3. /\ up /\ waitAck[id] \in DOMAIN obj /\ obj[waitAck[id]].n = id
      /\ id \in accepted /\ id \notin acked /\ acked' = acked \union {id}
      /\ InWaitAck' = InWaitAck \ {id} /\ id \in InWaitAck /\ InMsgs' = InMsgs
      /\ LastNow' = LastNow
  BY <1>1, <1>2, ForgetFacts
<1>4. AckTransient(id) => Owed' = Owed
  BY ONLY <1>1, <1>3 DEF Owed, IsDurable
<1>5. AckDurable(id) => Owed' = Owed \ {id} /\ id \in Owed
  BY ONLY <1>1, <1>3 DEF Owed, IsDurable
<1>6. Len(file') = Len(file)
  <2>1. CASE AckTransient(id)
    BY <1>1, <2>1
  <2>2. CASE AckDurable(id)
    <3>1. waitAck[id] \in DOMAIN obj /\ obj[waitAck[id]] \in Object
      BY <1>3, ElementFacts
    <3> QED
      BY <1>1, <2>2, <3>1, InvalidateType
  <2> QED
    BY <2>1, <2>2
<1> QED
  BY <1>1, <1>2, <1>3, <1>4, <1>5, <1>6

-----------------------------------------------------------------------------
(* The counters of gc_check() *)

\* Steps that leave the counters and what is owed alone, and do not end an operation.
LEMMA CountsFrame ==
    ASSUME InvCounts, UNCHANGED <<valid_count, pub, accepted, acked>>, up' => up,
           pc' \notin {"idle", "body"}
    PROVE  InvCounts'
<1>1. Owed' = Owed
  BY OwedFrame
<1> QED
  BY <1>1 DEF InvCounts

\* recovery() and queue_message::gc() set both counters to the length of the list.
LEMMA CountsReset ==
    ASSUME IInv, pc \in {"loaded", "relink"}, UNCHANGED <<file, pub, accepted, acked>>,
           pc' = "idle", valid_count' = Len(lst), total_count' = Len(lst)
    PROVE  InvCounts'
<1>1. Owed' = Owed /\ Len(lst) = Cardinality(Owed) /\ Cardinality(Owed) \in Nat
  BY OwedFrame, LoadedCount, TypeFacts
<1>2. Len(file) = Len(lst)
  BY Unfold DEF InvGc, Holds
<1>3. GCMin \in Nat
  BY QueueMessageAssumption DEF QueueMessageAssumption
<1>4. Len(lst) <= GCMin + 2 * Len(lst)
  BY <1>1, <1>3
<1> QED
  BY <1>1, <1>2, <1>4 DEF InvCounts

LEMMA CountsInsert ==
    ASSUME IInv, InvCounts, SafeFaults, Insert
    PROVE  InvCounts'
<1> USE DEF InvCounts
<1>1. CASE InsertTransient
  <2>1. UNCHANGED <<file, valid_count, total_count>>
    BY <1>1 DEF InsertTransient, disk
  <2> QED
    BY <1>1, <2>1, InsertTransientEffect DEF SafeFaults
<1>2. CASE InsertHeader
  <2>1. UNCHANGED <<valid_count, total_count>>
    BY <1>2 DEF InsertHeader, memory
  <2>2. total_count \in Nat /\ Len(file) \in Nat
    BY TypeFacts, Unfold
  <2> QED
    BY <1>2, <2>1, <2>2, InsertHeaderEffect DEF SafeFaults
<1>3. CASE InsertBody
  <2>1. valid_count' = valid_count + 1 /\ total_count' = total_count + 1
    BY <1>3 DEF InsertBody
  <2>6. IOFails = {}
    BY DEF SafeFaults
  <2>2. Cardinality(Owed') = Cardinality(Owed) + 1
    BY <1>3, <2>6, InsertBodyEffect, TypeFacts, FS_AddElement
  <2>3. valid_count \in Nat /\ total_count \in Nat /\ GCMin \in Nat
    BY TypeFacts, QueueMessageAssumption DEF QueueMessageAssumption
  <2>4. pc = "body" /\ pc' = "idle" /\ up /\ Len(file') = Len(file)
    BY <1>3, <2>6, InsertBodyEffect
  <2>5. /\ valid_count = Cardinality(Owed) /\ total_count + 1 = Len(file)
        /\ total_count <= GCMin + 2 * valid_count
    BY <2>4
  <2> QED
    BY ONLY <2>1, <2>2, <2>3, <2>4, <2>5 DEF InvCounts
<1>4. ~InsertBodyFails /\ ~InsertRejected
  BY Unfold DEF InsertBodyFails, InsertRejected, SafeFaults, Attempt, InvPhase
<1> QED
  BY <1>1, <1>2, <1>3, <1>4, NothingFails DEF Insert

LEMMA CountsAck ==
    ASSUME IInv, InvCounts, NEW id \in Msg, AckTransient(id) \/ AckDurable(id)
    PROVE  InvCounts'
<1> USE DEF InvCounts
<1>1. /\ pc = "idle" /\ up /\ up' /\ pc' \in {"idle", "load"} /\ Len(file') = Len(file)
      /\ total_count' = total_count
  BY AckEffect DEF AckTransient, AckDurable
<1>2. valid_count \in Nat /\ total_count \in Nat /\ GCMin \in Nat
  BY TypeFacts, QueueMessageAssumption DEF QueueMessageAssumption
<1>3. CASE AckTransient(id)
  BY <1>1, <1>3, AckEffect DEF AckTransient
<1>4. CASE AckDurable(id)
  <2>1. Owed' = Owed \ {id} /\ id \in Owed
    BY <1>4, AckEffect
  <2>2. Cardinality(Owed') = Cardinality(Owed) - 1
    BY <2>1, TypeFacts, FS_RemoveElement
  <2>3. Cardinality(Owed) /= 0
    BY <2>1, TypeFacts, FS_EmptySet
  <2>4. valid_count = Cardinality(Owed) /\ valid_count' = valid_count - 1
    BY <1>1, <1>4, <2>3 DEF AckDurable, Decrement
  <2>5. pc' = "idle" => ~GcDue(valid_count', total_count)
    BY <1>4 DEF AckDurable, BeginGc
  <2>6. pc' = "idle" => total_count <= GCMin + 2 * valid_count'
    BY <1>2, <2>3, <2>4, <2>5 DEF GcDue
  <2>7. total_count = Len(file)
    BY <1>1
  <2> QED
    BY ONLY <1>1, <2>2, <2>4, <2>6, <2>7 DEF InvCounts
<1> QED
  BY <1>3, <1>4

LEMMA CountsStep ==
    ASSUME SafeFaults, IInv, InvCounts, [Next]_vars
    PROVE  InvCounts'
<1>1. CASE UNCHANGED vars
  <2>1. UNCHANGED <<pc, up, file, valid_count, total_count, pub, accepted, acked>>
    BY <1>1 DEF vars, disk, memory, history
  <2>2. Owed' = Owed
    BY <2>1, OwedFrame
  <2> QED
    BY <2>1, <2>2 DEF InvCounts
<1>2. CASE Start \/ Gc \/ CheckGc \/ RelinkFound \/ RelinkMissed
  <2>1. /\ UNCHANGED <<up, valid_count, pub, accepted, acked>>
        /\ pc' \in {"load", "swap", "removed", "loaded", "relink"}
    <3>1. CASE Start \/ LoadRecord \/ LoadFails \/ LoadDone \/ TmpWriteFails
      BY <3>1 DEF Start, BeginGc, LoadRecord, LoadFails, LoadDone, TmpWriteFails, memory, history
    <3>2. CASE RemoveOld \/ RemoveFails \/ Rename \/ RenameFails
      BY <3>2 DEF RemoveOld, RemoveFails, Rename, RenameFails, memory, history
    <3>3. CASE CheckGc \/ RelinkFound \/ RelinkMissed
      BY <3>3 DEF CheckGc, RelinkFound, RelinkMissed, memory, history
    <3> QED
      BY <1>2, <3>1, <3>2, <3>3, NothingFails DEF Gc
  <2> QED
    BY <2>1, CountsFrame
<1>3. CASE Recover \/ RelinkDone
  <2>1. /\ pc \in {"loaded", "relink"} /\ UNCHANGED <<file, pub, accepted, acked>>
        /\ pc' = "idle" /\ valid_count' = Len(lst) /\ total_count' = Len(lst)
    BY <1>3 DEF Recover, RelinkDone, disk, history
  <2> QED
    BY <2>1, CountsReset
<1>4. CASE Insert
  BY <1>4, CountsInsert
<1>5. CASE Ack
  BY <1>5, CountsAck DEF Ack
<1>6. CASE Front
  <2>1. UNCHANGED <<pc, up, file, valid_count, total_count, pub, accepted, acked>>
    BY <1>6 DEF Front, disk
  <2>2. Owed' = Owed
    BY <2>1, OwedFrame
  <2> QED
    BY <2>1, <2>2 DEF InvCounts
<1>7. CASE Clear \/ Crash \/ AbortGc
  <2>1. ~up' /\ pc' = "down"
    BY <1>7 DEF Clear, Crash, AbortGc, ProcessEnds
  <2> QED
    BY <2>1 DEF InvCounts
<1> QED
  BY <1>1, <1>2, <1>3, <1>4, <1>5, <1>6, <1>7, NothingFails DEF Next, Relink

LEMMA CountsImply ==
    ASSUME IInv, InvCounts
    PROVE  GcAssertion /\ GarbageBounded
<1>1. GcAssertion
  BY LoadedCount DEF GcAssertion, InvCounts
<1>2. ASSUME pc = "idle"
      PROVE  Len(file) <= GCMin + 2 * Cardinality(OnDisk)
  <2>1. up /\ OnDisk = Owed
    BY <1>2, Unfold DEF InvPhase, InvDisk
  <2> QED
    BY <1>2, <2>1 DEF InvCounts
<1> QED
  BY <1>1, <1>2 DEF GarbageBounded

LEMMA IInvInvariant ==
    ASSUME SafeFaults
    PROVE  Spec => [](IInv /\ InvCounts)
<1>1. Init => IInv /\ InvCounts
  BY InitInductive, InitType DEF IInv, Init, InvCounts
<1>2. IInv /\ InvCounts /\ [Next]_vars => IInv' /\ InvCounts'
  BY StepInductive, StepType, QueueMessageAssumption, CountsStep DEF IInv
<1> QED
  BY <1>1, <1>2, PTL DEF Spec

\* Under the same conditions as QueueSafety, the list gc() loads has as many messages as
\* __valid_count says, so that its assertion never aborts the broker (message.hpp:295).
THEOREM AssertionHolds ==
    ASSUME SafeFaults
    PROVE  Spec => []GcAssertion
<1>1. IInv /\ InvCounts => GcAssertion
  BY CountsImply
<1> QED
  BY <1>1, IInvInvariant, PTL

\* Under the same conditions the file holds at most GCMin records beyond twice the valid
\* ones between two operations, for any number of insertions and acknowledgements
\* (gc_check, message.hpp:283-287).
THEOREM GarbageCollected ==
    ASSUME SafeFaults
    PROVE  Spec => []GarbageBounded
<1>1. IInv /\ InvCounts => GarbageBounded
  BY CountsImply
<1> QED
  BY <1>1, IInvInvariant, PTL

-----------------------------------------------------------------------------
(* The refinement of MessageQueue, action by action.  Persistent is what the mapping
   substitutes for the variable persistent. *)

Persistent == {n \in 1..LastNow : IsDurable(n)}

LEMMA LastFactsNow ==
    ASSUME IInv
    PROVE  LastNow \in Nat /\ Held \subseteq 1..LastNow /\ Owed \subseteq 1..LastNow
<1> USE Unfold
<1>1. LastNow \in Nat
  <2>1. CASE pc = "body"
    <3>1. Len(pub) > 0
      BY <2>1, LastFacts DEF InvFile
    <3> QED
      BY <2>1, <3>1 DEF LastNow
  <2>2. CASE pc /= "body"
    BY <2>2 DEF LastNow
  <2> QED
    BY <2>1, <2>2
<1>2. accepted \subseteq 1..LastNow
  BY DEF InvHistory
<1>3. Held \subseteq accepted
  BY DEF InvTracked, NoResurrection
<1> QED
  BY <1>1, <1>2, <1>3 DEF Owed

\* A step that shows nothing to the user of the queue.
LEMMA Stutters ==
    ASSUME ReadyNow' = ReadyNow, InWaitAck' = InWaitAck, LastNow' = LastNow,
           \A n \in 1..LastNow : pub'[n] = pub[n]
    PROVE  UNCHANGED Promise!vars
<1>1. Persistent' = Persistent
  BY DEF Persistent, IsDurable
<1> QED
  BY <1>1 DEF Promise!vars, Persistent

\* Before recovery() has completed there is nothing in memory.
LEMMA NothingInMemory ==
    ASSUME IInv, ~up
    PROVE  InMsgs = {} /\ InWaitAck = {}
<1>1. msgs = <<>> /\ waitAck = Empty
  BY Unfold DEF InvPhase
<1>2. InMsgs = {}
  BY <1>1, EmptySeqFacts DEF InMsgs
<1>3. InWaitAck = {}
  BY <1>1 DEF InWaitAck, Empty
<1> QED
  BY <1>2, <1>3

\* gc() keeps the records it copies, so the messages on the disk stay the same while the
\* old file is read, removed and replaced.
LEMMA GcStutters ==
    ASSUME SafeFaults, IInv, Start \/ Gc
    PROVE  UNCHANGED Promise!vars
<1> USE Unfold
<1>1. /\ UNCHANGED <<up, obj, msgs, waitAck, pub>> /\ pc' /= "body" /\ pc /= "body"
      /\ pc \in {"down", "load", "swap", "removed"}
  <2>1. CASE Start \/ LoadRecord \/ LoadFails \/ LoadDone \/ TmpWriteFails
    BY <2>1 DEF Start, BeginGc, LoadRecord, LoadFails, LoadDone, TmpWriteFails, memory, history
  <2>2. CASE RemoveOld \/ RemoveFails \/ Rename \/ RenameFails
    BY <2>2 DEF RemoveOld, RemoveFails, Rename, RenameFails, memory, history
  <2> QED
    BY <2>1, <2>2, NothingFails DEF Gc
<1>2. InMsgs' = InMsgs /\ InWaitAck' = InWaitAck /\ LastNow' = LastNow
  BY <1>1 DEF InMsgs, InWaitAck, NumberOf, LastNow
<1>3. ReadyNow' = ReadyNow
  <2>1. CASE Start \/ LoadRecord \/ LoadFails \/ LoadDone \/ TmpWriteFails \/ RemoveFails
    <3>1. file' = file /\ pc /= "removed" /\ pc' /= "removed"
      BY <2>1 DEF Start, BeginGc, LoadRecord, LoadFails, LoadDone, TmpWriteFails, RemoveFails, disk
    <3>2. OnDisk' = OnDisk
      BY <3>1 DEF OnDisk
    <3> QED
      BY <1>1, <1>2, <3>1, <3>2 DEF ReadyNow
  <2>2. CASE RemoveOld
    <3>1. pc = "swap" /\ pc' = "removed" /\ tmp' = tmp
      BY <2>2 DEF RemoveOld
    <3>2. Holds(tmp) /\ Loaded = Owed /\ OnDisk = Owed
      BY <3>1 DEF InvGc, InvDisk
    <3>3. {tmp[i].n : i \in DOMAIN tmp} = Loaded
      <4>1. DOMAIN tmp = DOMAIN lst /\ \A i \in DOMAIN lst : tmp[i].n = lst[i].n
        BY <3>2 DEF Holds
      <4> QED
        BY ONLY <4>1 DEF Loaded
    <3> QED
      BY <1>1, <1>2, <3>1, <3>2, <3>3 DEF ReadyNow
  <2>3. CASE Rename
    <3>1. pc = "removed" /\ pc' = "loaded" /\ file' = tmp
      BY <2>3 DEF Rename
    <3>2. \A i \in DOMAIN tmp : tmp[i].st = "valid"
      BY <3>1 DEF InvGc, Holds
    <3>3. OnDisk' = {tmp[i].n : i \in DOMAIN tmp}
      BY <3>1, <3>2 DEF OnDisk
    <3> QED
      BY <1>1, <1>2, <3>1, <3>3 DEF ReadyNow
  <2>4. CASE RenameFails
    BY <2>4 DEF RenameFails, SafeFaults
  <2> QED
    BY <1>1, <2>1, <2>2, <2>3, <2>4, NothingFails DEF Gc
<1> QED
  BY <1>1, <1>2, <1>3, Stutters

\* recovery() makes ready what is on the disk, and nothing else.
LEMMA RecoverStutters ==
    ASSUME IInv, Recover
    PROVE  UNCHANGED Promise!vars
<1> USE Unfold
<1>1. /\ pc = "loaded" /\ ~up /\ pc' = "idle" /\ up' = TRUE /\ obj' = lst
      /\ msgs' = [i \in DOMAIN lst |-> i] /\ waitAck' = waitAck /\ pub' = pub
  BY DEF Recover, history
<1>2. InMsgs = {} /\ InWaitAck = {} /\ waitAck = Empty
  BY <1>1, NothingInMemory DEF InvPhase
<1>3. InWaitAck' = {}
  BY <1>1, <1>2 DEF InWaitAck, Empty
<1>4. InMsgs' = Owed
  <2>1. DOMAIN msgs' = DOMAIN lst /\ \A i \in DOMAIN lst : msgs'[i] = i
    BY ONLY <1>1
  <2>2. InMsgs' = {obj'[msgs'[i]].n : i \in DOMAIN msgs'}
    BY DEF InMsgs, NumberOf
  <2>3. {obj'[msgs'[i]].n : i \in DOMAIN msgs'} = {lst[i].n : i \in DOMAIN lst}
    BY ONLY <1>1, <2>1
  <2>4. Loaded = Owed
    BY <1>1 DEF InvGc
  <2> QED
    BY ONLY <2>2, <2>3, <2>4 DEF Loaded
<1>5. OnDisk = Owed /\ LastNow' = LastNow
  BY <1>1 DEF InvDisk, LastNow
<1>6. ReadyNow' = ReadyNow
  BY ONLY <1>1, <1>4, <1>5 DEF ReadyNow
<1> QED
  BY <1>1, <1>2, <1>3, <1>5, <1>6, Stutters

\* The loop of queue_message::gc() moves no message.
LEMMA RelinkStutters ==
    ASSUME IInv, CheckGc \/ RelinkFound \/ RelinkMissed \/ RelinkDone
    PROVE  UNCHANGED Promise!vars
<1> USE Unfold
<1>1. ~RelinkMissed
  <2>1. SUFFICES ASSUME RelinkMissed PROVE FALSE
    OBVIOUS
  <2>2. pc = "relink" /\ at \in DOMAIN lst /\ durable[IdOf(lst[at].n)] = 0
    BY <2>1 DEF RelinkMissed
  <2>3. lst[at].n \in Owed /\ up
    BY <2>2 DEF InvGc, Loaded, InvPhase
  <2>4. IdOf(lst[at].n) = lst[at].n /\ lst[at].n \in Msg
    BY <2>3, IdIsNumber
  <2> QED
    BY <2>2, <2>3, <2>4 DEF InvTracked
<1>2. /\ UNCHANGED <<up, msgs, waitAck, pub>> /\ up /\ pc' /= "body" /\ pc /= "body"
      /\ DOMAIN obj' = DOMAIN obj /\ \A o \in DOMAIN obj : obj'[o].n = obj[o].n
  <2>1. CASE CheckGc \/ RelinkDone
    BY <2>1 DEF CheckGc, RelinkDone, memory, history, InvPhase
  <2>2. CASE RelinkFound
    <3>1. /\ pc = "relink" /\ pc' = pc /\ UNCHANGED <<up, msgs, waitAck, pub>> /\ at \in DOMAIN lst
      BY <2>2 DEF RelinkFound, history
    <3>2. PICK o : obj' = [obj EXCEPT ![o].off = lst[at].off]
      BY <2>2 DEF RelinkFound
    <3>3. \A p \in DOMAIN obj : obj[p] \in Object
      BY ElementFacts
    <3>4. DOMAIN obj' = DOMAIN obj /\ \A p \in DOMAIN obj : obj'[p].n = obj[p].n
      BY ONLY <3>2, <3>3 DEF Object
    <3> QED
      BY <3>1, <3>4 DEF InvPhase
  <2> QED
    BY <1>1, <2>1, <2>2
<1>3. InMsgs' = InMsgs
  BY <1>2, AcceptedFacts DEF InMsgs, NumberOf
<1>4. InWaitAck' = InWaitAck
  BY <1>2, AcceptedFacts DEF InWaitAck, NumberOf
<1>5. ReadyNow' = ReadyNow /\ LastNow' = LastNow
  BY <1>2, <1>3 DEF ReadyNow, LastNow
<1> QED
  BY <1>2, <1>4, <1>5, Stutters

\* insert() publishes when it returns true.
LEMMA InsertPublishes ==
    ASSUME SafeFaults, IInv, Insert
    PROVE  [Promise!Next]_Promise!vars
<1>1. CASE InsertTransient
  <2>1. Persistent' = Persistent
    BY <1>1, InsertTransientEffect DEF SafeFaults, Persistent, IsDurable
  <2>2. Promise!Publish(FALSE)
    BY <1>1, <2>1, InsertTransientEffect DEF SafeFaults, Promise!Publish, Persistent, ReadyNow
  <2> QED
    BY <2>2 DEF Promise!Next
<1>2. CASE InsertHeader
  <2>1. ReadyNow' = ReadyNow /\ InWaitAck' = InWaitAck /\ LastNow' = LastNow
    BY <1>2, InsertHeaderEffect DEF SafeFaults, ReadyNow
  <2>2. Persistent' = Persistent
    BY <1>2, <2>1, InsertHeaderEffect DEF SafeFaults, Persistent
  <2> QED
    BY <2>1, <2>2 DEF Promise!vars, Persistent
<1>3. CASE InsertBody
  <2>3. IOFails = {}
    BY DEF SafeFaults
  <2>1. Persistent' = Persistent \union {LastNow + 1}
    <3>1. 1..LastNow' = (1..LastNow) \union {LastNow + 1}
      BY <1>3, <2>3, InsertBodyEffect
    <3>2. \A n \in 1..LastNow' : pub'[n] = pub[n]
      BY <1>3, <2>3, InsertBodyEffect
    <3>3. LastNow + 1 \in 1..LastNow' /\ pub'[LastNow + 1].durable
      BY <1>3, <2>3, InsertBodyEffect
    <3> QED
      BY ONLY <3>1, <3>2, <3>3 DEF Persistent, IsDurable
  <2>2. Promise!Publish(TRUE)
    BY <1>3, <2>1, <2>3, InsertBodyEffect DEF Promise!Publish, Persistent, ReadyNow
  <2> QED
    BY <2>2 DEF Promise!Next
<1>4. ~InsertBodyFails /\ ~InsertRejected
  BY Unfold DEF InsertBodyFails, InsertRejected, SafeFaults, Attempt, InvPhase
<1> QED
  BY <1>1, <1>2, <1>3, <1>4, NothingFails DEF Insert

\* remove() acknowledges.
LEMMA AckAcknowledges ==
    ASSUME IInv, NEW id \in Msg, AckTransient(id) \/ AckDurable(id)
    PROVE  Promise!Next
<1>1. Persistent' = Persistent /\ ReadyNow' = ReadyNow
  BY AckEffect DEF Persistent, IsDurable, ReadyNow
<1>2. Promise!Acknowledge(id)
  BY <1>1, AckEffect DEF Promise!Acknowledge, Persistent
<1> QED
  BY <1>2, AckEffect DEF Promise!Next

\* The process ends: what is on the disk is what was persistent and not acknowledged.
LEMMA EndRestarts ==
    ASSUME IInv, ProcessEnds, pc \notin {"body", "removed"},
           UNCHANGED <<file, pub, accepted, acked>>
    PROVE  Promise!Restart
<1> USE Unfold
<1>1. pc' = "down" /\ ~up' /\ waitAck' = Empty /\ LastNow' = LastNow
  BY DEF ProcessEnds, LastNow
<1>2. InWaitAck' = {}
  BY <1>1 DEF InWaitAck, Empty
<1>3. ReadyNow' = Owed
  <2>1. OnDisk' = OnDisk /\ OnDisk = Owed
    BY DEF OnDisk, InvDisk
  <2> QED
    BY <1>1, <2>1 DEF ReadyNow
<1>4. Persistent' = Persistent
  BY <1>1 DEF Persistent, IsDurable
<1>5. Owed = (ReadyNow \union InWaitAck) \intersect Persistent
  <2>1. Owed \subseteq Persistent
    BY LastFactsNow DEF Owed, Persistent
  <2>2. CASE up
    <3>1. ReadyNow \union InWaitAck = Held
      BY <2>2 DEF ReadyNow, Held
    <3>2. Owed \subseteq Held /\ Held \subseteq accepted \ acked
      BY <2>2 DEF InvTracked, NoResurrection
    <3>3. Held \intersect Persistent \subseteq Owed
      BY <3>2 DEF Owed, Persistent
    <3> QED
      BY <2>1, <3>1, <3>2, <3>3
  <2>3. CASE ~up
    <3>1. ReadyNow = Owed /\ InWaitAck = {}
      BY <2>3, NothingInMemory DEF ReadyNow, InvDisk
    <3> QED
      BY <2>1, <3>1
  <2> QED
    BY <2>2, <2>3
<1> QED
  BY <1>1, <1>2, <1>3, <1>4, <1>5 DEF Promise!Restart, Persistent

\* The queue is deleted with both files.
LEMMA ClearPurges ==
    ASSUME IInv, Clear
    PROVE  Promise!Purge
<1>1. /\ pc = "idle" /\ pc' = "down" /\ ~up' /\ waitAck' = Empty /\ LastNow' = LastNow
      /\ file' = <<>> /\ pub' = pub
  BY DEF Clear, ProcessEnds, LastNow
<1>2. InWaitAck' = {}
  BY <1>1 DEF InWaitAck, Empty
<1>3. ReadyNow' = {}
  BY <1>1, EmptySeqFacts DEF ReadyNow, OnDisk
<1>4. Persistent' = Persistent
  BY <1>1 DEF Persistent, IsDurable
<1> QED
  BY <1>1, <1>2, <1>3, <1>4 DEF Promise!Purge, Persistent

\* front() hands out the oldest message that is ready.
LEMMA FrontDelivers ==
    ASSUME IInv, Front
    PROVE  Promise!Next
<1> USE Unfold
<1> DEFINE o == Head(msgs)
           m == obj[o].n
<1>1. /\ pc = "idle" /\ msgs /= <<>> /\ waitAck' = Put(waitAck, IdOf(m), o)
      /\ msgs' = Tail(msgs) /\ UNCHANGED <<pc, up, obj, pub>>
  BY DEF Front
<1>2. /\ o = msgs[1] /\ 1 \in DOMAIN msgs
      /\ DOMAIN msgs' = 1..(Len(msgs) - 1) /\ DOMAIN msgs = 1..Len(msgs)
      /\ \A i \in 1..(Len(msgs) - 1) : msgs'[i] = msgs[i + 1]
  BY <1>1, TailFacts
<1>3. Len(msgs) \in Nat /\ up
  BY <1>1 DEF InvPhase
<1>4. /\ \A i \in DOMAIN msgs' : i + 1 \in DOMAIN msgs /\ msgs'[i] = msgs[i + 1]
      /\ \A i \in DOMAIN msgs : i = 1 \/ (i - 1 \in DOMAIN msgs' /\ msgs'[i - 1] = msgs[i] /\ 1 < i)
      /\ \A i \in DOMAIN msgs' : 1 < i + 1
  BY ONLY <1>2, <1>3
<1>5. o \in DOMAIN obj /\ m \in Msg /\ m \in DOMAIN pub /\ m \in Nat /\ o /= 0
  <2>1. o \in DOMAIN obj
    BY <1>2, AcceptedFacts
  <2>2. m \in accepted
    BY <2>1, AcceptedFacts
  <2> HIDE DEF m
  <2>3. m \in Msg /\ m \in DOMAIN pub /\ m \in Nat
    BY <2>2, AcceptedFacts
  <2>4. o /= 0
    BY <2>1
  <2> QED
    BY <2>1, <2>3, <2>4
<1>6. /\ \A i, j \in DOMAIN msgs : i < j => obj[msgs[i]].n < obj[msgs[j]].n
      /\ handed < m /\ handed \in Nat
      /\ \A i \in DOMAIN msgs : obj[msgs[i]].n \in Nat
  <2>1. DeliveryInOrder
    BY DEF InvTracked
  <2>2. \A i \in DOMAIN msgs : obj[msgs[i]].n \in Nat
    BY AcceptedFacts
  <2> QED
    BY <1>2, <2>1, <2>2 DEF DeliveryInOrder, NumberOf
<1>7. waitAck[m] = 0 /\ IdOf(m) = m
  <2>1. \A n \in Msg : waitAck[n] /= 0 => n <= handed
    BY DEF InvTracked
  <2>2. \A n \in DOMAIN pub : IdOf(n) = n
    BY IdIsNumber
  <2> HIDE DEF m
  <2> QED
    BY ONLY <1>5, <1>6, <2>1, <2>2
<1> HIDE DEF o
<1>8. waitAck' = [waitAck EXCEPT ![m] = o]
  BY <1>1, <1>7 DEF Put
<1>9. \A i \in DOMAIN msgs' : m < obj[msgs'[i]].n
  BY ONLY <1>2, <1>4, <1>6
<1>10. m \in InMsgs /\ \A k \in InMsgs : m <= k
  <2>1. \A i \in DOMAIN msgs : m <= obj[msgs[i]].n
    <3>1. ASSUME NEW i \in DOMAIN msgs
          PROVE  m <= obj[msgs[i]].n
      <4>1. CASE i = 1
        BY <1>2, <1>5, <4>1
      <4>2. CASE i /= 1
        <5>1. m < obj[msgs[i]].n /\ obj[msgs[i]].n \in Nat
          BY ONLY <1>4, <1>6, <1>9, <3>1, <4>2
        <5> QED
          BY ONLY <1>5, <5>1
      <4> QED
        BY <4>1, <4>2
    <3> QED
      BY <3>1
  <2> QED
    BY <1>2, <2>1 DEF InMsgs, NumberOf
<1>11. InMsgs' = InMsgs \ {m}
  <2>1. InMsgs' = {obj[msgs'[i]].n : i \in DOMAIN msgs'}
    BY <1>1 DEF InMsgs, NumberOf
  <2>2. InMsgs = {obj[msgs[i]].n : i \in DOMAIN msgs}
    BY DEF InMsgs, NumberOf
  <2>3. \A i \in DOMAIN msgs' : obj[msgs'[i]].n \in InMsgs
    BY ONLY <1>4, <2>2
  <2>4. m \notin InMsgs'
    <3>1. \A i \in DOMAIN msgs' : m /= obj[msgs'[i]].n
      BY ONLY <1>4, <1>5, <1>6, <1>9
    <3> HIDE DEF m
    <3> QED
      BY ONLY <2>1, <3>1
  <2>5. \A i \in DOMAIN msgs : obj[msgs[i]].n = m \/ obj[msgs[i]].n \in InMsgs'
    BY ONLY <1>2, <1>4, <2>1
  <2> HIDE DEF m
  <2> QED
    BY ONLY <2>1, <2>2, <2>3, <2>4, <2>5
<1>12. InWaitAck' = InWaitAck \union {m}
  <2>1. waitAck'[m] = o /\ \A n \in Msg : n /= m => waitAck'[n] = waitAck[n]
    BY <1>5, <1>8
  <2>2. InWaitAck' = {obj[waitAck'[k]].n : k \in {j \in Msg : waitAck'[j] /= 0}}
    BY ONLY <1>1 DEF InWaitAck, NumberOf
  <2>3. InWaitAck = {obj[waitAck[k]].n : k \in {j \in Msg : waitAck[j] /= 0}}
    BY DEF InWaitAck, NumberOf
  <2>4. obj[waitAck'[m]].n = m
    BY ONLY <2>1
  <2> HIDE DEF m
  <2>5. {obj[waitAck'[k]].n : k \in {j \in Msg : waitAck'[j] /= 0}}
          = {obj[waitAck[k]].n : k \in {j \in Msg : waitAck[j] /= 0}} \union {m}
    BY ONLY <1>5, <1>7, <2>1, <2>4
  <2> QED
    BY ONLY <2>2, <2>3, <2>5
<1>13. LastNow' = LastNow /\ Persistent' = Persistent
  BY <1>1 DEF LastNow, Persistent, IsDurable
<1> HIDE DEF m
<1>14. ReadyNow = InMsgs /\ ReadyNow' = InMsgs'
  BY <1>1, <1>3 DEF ReadyNow
<1>15. Promise!Deliver(m)
  BY <1>10, <1>11, <1>12, <1>13, <1>14 DEF Promise!Deliver, Persistent
<1> QED
  BY <1>10, <1>14, <1>15 DEF Promise!Next

LEMMA PromiseStep ==
    ASSUME SafeFaults, IInv, InvCounts, [Next]_vars
    PROVE  [Promise!Next]_Promise!vars
<1>1. CASE UNCHANGED vars
  <2>1. UNCHANGED <<pc, up, file, tmp, obj, msgs, waitAck, pub>>
    BY <1>1 DEF vars, disk, memory, history
  <2>2. ReadyNow' = ReadyNow /\ InWaitAck' = InWaitAck /\ LastNow' = LastNow
    BY <2>1 DEF ReadyNow, InMsgs, OnDisk, InWaitAck, NumberOf, LastNow
  <2> QED
    BY <2>1, <2>2, Stutters
<1>2. CASE Start \/ Gc
  BY <1>2, GcStutters
<1>3. CASE Recover
  BY <1>3, RecoverStutters
<1>4. CASE CheckGc \/ RelinkFound \/ RelinkMissed \/ RelinkDone
  BY <1>4, RelinkStutters
<1>5. CASE Insert
  BY <1>5, InsertPublishes
<1>6. CASE Front
  BY <1>6, FrontDelivers
<1>7. CASE Ack
  BY <1>7, AckAcknowledges DEF Ack
<1>8. CASE Clear
  BY <1>8, ClearPurges DEF Promise!Next
<1>9. CASE Crash
  <2>1. /\ ProcessEnds /\ pc \notin {"body", "removed"}
        /\ UNCHANGED <<file, pub, accepted, acked>>
    BY <1>9 DEF Crash, SafeFaults, disk
  <2> QED
    BY <2>1, EndRestarts DEF Promise!Next
<1>10. ~AbortGc
  BY CountsImply DEF GcAssertion, AbortGc
<1> QED
  BY <1>1, <1>2, <1>3, <1>4, <1>5, <1>6, <1>7, <1>8, <1>9, <1>10, NothingFails DEF Next, Relink

LEMMA PromiseInit ==
    ASSUME Init
    PROVE  Promise!Init
<1>1. InMsgs = {} /\ OnDisk = {}
  BY EmptySeqFacts DEF Init, InMsgs, OnDisk
<1>2. InWaitAck = {}
  BY DEF Init, InWaitAck, Empty
<1>3. LastNow = 0
  BY EmptySeqFacts DEF Init, LastNow
<1>4. ReadyNow = {} /\ {n \in 1..LastNow : IsDurable(n)} = {}
  BY <1>1, <1>3 DEF Init, ReadyNow
<1> QED
  BY <1>2, <1>3, <1>4 DEF Promise!Init

\* Under the same conditions queue_message over message_mapper is a MessageQueue: through
\* garbage collections, crashes inside them and recoveries, the only thing a user of the
\* queue can see is messages accepted at the back, the oldest handed out, those handed
\* out acknowledged, and a restart that brings back what was persistent and not
\* acknowledged (message.hpp, all operations).
THEOREM QueueImplementsPromise ==
    ASSUME SafeFaults
    PROVE  Spec => KeepsPromise
<1>1. Init => Promise!Init
  BY PromiseInit
<1>2. IInv /\ InvCounts /\ [Next]_vars => [Promise!Next]_Promise!vars
  BY PromiseStep
<1> QED
  BY <1>1, <1>2, IInvInvariant, PTL DEF Spec, KeepsPromise, Promise!Spec

-----------------------------------------------------------------------------
(* What holds whatever fails and wherever the process dies, as long as a publisher uses
   an id once. *)

LEMMA Types ==
    ASSUME TypeInv
    PROVE  /\ file \in Seq(Record) /\ tmp \in Seq(Record) /\ lst \in Seq(Object) /\ obj \in Seq(Object)
           /\ msgs \in Seq(1..Len(obj)) /\ pub \in Seq([id : Msg, durable : BOOLEAN])
           /\ durable \in [Msg -> 0..Len(obj)] /\ waitAck \in [Msg -> 0..Len(obj)]
           /\ DOMAIN file = 1..Len(file) /\ DOMAIN tmp = 1..Len(tmp) /\ DOMAIN lst = 1..Len(lst)
           /\ DOMAIN obj = 1..Len(obj) /\ DOMAIN pub = 1..Len(pub) /\ DOMAIN msgs = 1..Len(msgs)
           /\ Len(file) \in Nat /\ Len(tmp) \in Nat /\ Len(lst) \in Nat
           /\ Len(obj) \in Nat /\ Len(pub) \in Nat /\ Len(msgs) \in Nat
           /\ \A i \in DOMAIN msgs : msgs[i] \in DOMAIN obj
           /\ \A id \in Msg : waitAck[id] /= 0 => waitAck[id] \in DOMAIN obj
           /\ \A i \in DOMAIN file : file[i] \in Record
           /\ \A i \in DOMAIN lst : lst[i] \in Object
           /\ \A i \in DOMAIN obj : obj[i] \in Object
           /\ at \in Nat
<1>1. TypeOK
  BY DEF TypeInv
<1>2. /\ file \in Seq(Record) /\ tmp \in Seq(Record) /\ lst \in Seq(Object) /\ obj \in Seq(Object)
      /\ msgs \in Seq(1..Len(obj)) /\ pub \in Seq([id : Msg, durable : BOOLEAN])
      /\ durable \in [Msg -> 0..Len(obj)] /\ waitAck \in [Msg -> 0..Len(obj)] /\ at \in Nat
  BY <1>1 DEF TypeOK
<1>3. /\ DOMAIN file = 1..Len(file) /\ DOMAIN tmp = 1..Len(tmp) /\ DOMAIN lst = 1..Len(lst)
      /\ DOMAIN obj = 1..Len(obj) /\ DOMAIN pub = 1..Len(pub) /\ DOMAIN msgs = 1..Len(msgs)
      /\ Len(file) \in Nat /\ Len(tmp) \in Nat /\ Len(lst) \in Nat
      /\ Len(obj) \in Nat /\ Len(pub) \in Nat /\ Len(msgs) \in Nat
      /\ \A i \in DOMAIN msgs : msgs[i] \in 1..Len(obj)
      /\ \A i \in DOMAIN file : file[i] \in Record
      /\ \A i \in DOMAIN lst : lst[i] \in Object
      /\ \A i \in DOMAIN obj : obj[i] \in Object
  BY ONLY <1>2, ElementFacts
<1>4. \A id \in Msg : waitAck[id] /= 0 => waitAck[id] \in 1..Len(obj)
  BY ONLY <1>2, <1>3
<1> QED
  BY ONLY <1>2, <1>3, <1>4

\* message_mapper::gc() moves messages between the files and the list.
LEMMA IdentityGc ==
    ASSUME TypeInv, InvIdentity, Start \/ StartWithoutFile \/ Gc, ~LoadThrows, ~LoadDamaged
    PROVE  InvIdentity'
<1> USE Types DEF InvIdentity
<1>1. UNCHANGED <<up, obj, msgs, waitAck, pub>>
  BY DEF Start, StartWithoutFile, Gc, LoadRecord, LoadFails, LoadDone, TmpWriteFails,
         RemoveOld, RemoveFails, Rename, RenameFails, memory, history
<1>2. /\ \A i \in DOMAIN file' : file'[i].n \in DOMAIN pub
      /\ \A i \in DOMAIN tmp' : tmp'[i].n \in DOMAIN pub
      /\ \A i \in DOMAIN lst' : lst'[i].n \in DOMAIN pub
  <2>1. CASE Start \/ StartWithoutFile
    BY <2>1, EmptySeqFacts DEF Start, StartWithoutFile, BeginGc, disk
  <2>2. CASE LoadRecord
    <3>1. /\ UNCHANGED <<file, tmp>> /\ at \in DOMAIN file
          /\ lst' = lst \/ lst' = Append(lst, [n |-> file[at].n, off |-> 0])
      BY <2>2 DEF LoadRecord, disk
    <3>2. CASE lst' = lst
      BY <3>1, <3>2
    <3>3. CASE lst' = Append(lst, [n |-> file[at].n, off |-> 0])
      <4>1. /\ DOMAIN lst' = 1..(Len(lst) + 1)
            /\ \A i \in 1..Len(lst) : lst'[i] = lst[i]
            /\ lst'[Len(lst) + 1].n = file[at].n
        BY <3>3, AppendFacts
      <4>2. \A i \in DOMAIN lst' : i \in DOMAIN lst \/ i = Len(lst) + 1
        BY <4>1
      <4> QED
        BY <3>1, <4>1, <4>2
    <3> QED
      BY <3>1, <3>2, <3>3
  <2>3. CASE LoadFails \/ RemoveFails \/ RenameFails
    BY <2>3 DEF LoadFails, RemoveFails, RenameFails, disk, loop
  <2>4. CASE LoadDone \/ TmpWriteFails
    <3>1. file' = file /\ \E k \in 0..Len(lst) : CopyToTmp(k)
      <4>1. CASE LoadDone
        BY <4>1 DEF LoadDone
      <4>2. CASE TmpWriteFails
        <5>1. PICK k \in DOMAIN lst : CopyToTmp(k - 1)
          BY <4>2 DEF TmpWriteFails
        <5>2. k - 1 \in 0..Len(lst)
          OBVIOUS
        <5> QED
          BY <4>2, <5>1, <5>2 DEF TmpWriteFails
      <4> QED
        BY <2>4, <4>1, <4>2
    <3>2. PICK k \in 0..Len(lst) : CopyToTmp(k)
      BY <3>1
    <3>3. /\ DOMAIN tmp' = 1..k /\ \A i \in 1..k : tmp'[i].n = lst[i].n
          /\ DOMAIN lst' = DOMAIN lst /\ \A i \in DOMAIN lst : lst'[i].n = lst[i].n
      BY <3>2, CopyType, QueueMessageAssumption
    <3>4. \A i \in 1..k : i \in DOMAIN lst
      OBVIOUS
    <3> QED
      BY <3>1, <3>3, <3>4
  <2>5. CASE RemoveOld
    BY <2>5, EmptySeqFacts DEF RemoveOld, loop
  <2>6. CASE Rename
    BY <2>6, EmptySeqFacts DEF Rename, loop
  <2> QED
    BY <2>1, <2>2, <2>3, <2>4, <2>5, <2>6 DEF Gc
<1> QED
  BY <1>1, <1>2 DEF NumberOf

\* __load() misreads the file: what it finds has the number of a message that was
\* inserted, or the next one.
LEMMA IdentityDamaged ==
    ASSUME UniqueIds, TypeInv, InvIdentity, LoadDamaged
    PROVE  InvIdentity'
<1> USE Types
<1>1. UNCHANGED <<pc, up, file, tmp, obj, msgs, waitAck>> /\ at \in DOMAIN file
  BY DEF LoadDamaged, Misreads, disk, memory
<1>2. PICK i \in at..Len(file) :
         \/ UNCHANGED <<lst, pub>>
         \/ lst' = Append(lst, [n |-> file[i].n, off |-> 0]) /\ UNCHANGED pub
         \/ \E id \in NewIds, isDurable \in BOOLEAN :
               /\ Len(pub) < MaxMsgs
               /\ pub' = Append(pub, [id |-> id, durable |-> isDurable])
               /\ lst' = Append(lst, [n |-> NextMsg, off |-> 0])
  BY DEF LoadDamaged
<1>3. i \in DOMAIN file
  BY <1>1
<1>4. CASE UNCHANGED <<lst, pub>>
  BY <1>1, <1>4 DEF InvIdentity, NumberOf
<1>5. ASSUME NEW n \in DOMAIN pub', DOMAIN pub \subseteq DOMAIN pub',
             \A k \in DOMAIN pub' : pub'[k].id = k,
             lst' = Append(lst, [n |-> n, off |-> 0])
      PROVE  InvIdentity'
  <2>1. /\ DOMAIN lst' = 1..(Len(lst) + 1)
        /\ \A k \in 1..Len(lst) : lst'[k] = lst[k]
        /\ lst'[Len(lst) + 1].n = n
    BY <1>5, AppendFacts
  <2>2. \A k \in DOMAIN lst' : k \in DOMAIN lst \/ k = Len(lst) + 1
    BY <2>1
  <2>3. \A k \in DOMAIN lst' : lst'[k].n \in DOMAIN pub'
    BY <1>5, <2>1, <2>2 DEF InvIdentity
  <2> QED
    BY <1>1, <1>5, <2>3 DEF InvIdentity, NumberOf
<1>6. CASE lst' = Append(lst, [n |-> file[i].n, off |-> 0]) /\ UNCHANGED pub
  <2>1. file[i].n \in DOMAIN pub /\ \A k \in DOMAIN pub : pub[k].id = k
    BY <1>3 DEF InvIdentity
  <2> QED
    BY <1>5, <1>6, <2>1
<1>7. ASSUME NEW id \in NewIds, NEW isDurable \in BOOLEAN,
             pub' = Append(pub, [id |-> id, durable |-> isDurable]),
             lst' = Append(lst, [n |-> NextMsg, off |-> 0])
      PROVE  InvIdentity'
  <2>1. id = NextMsg
    BY <1>7 DEF NewIds
  <2>2. /\ DOMAIN pub' = 1..(Len(pub) + 1) /\ DOMAIN pub = 1..Len(pub) /\ Len(pub) \in Nat
        /\ \A k \in 1..Len(pub) : pub'[k] = pub[k]
        /\ pub'[Len(pub) + 1].id = Len(pub) + 1
    BY <1>7, <2>1, AppendFacts DEF NextMsg
  <2>3. \A k \in DOMAIN pub' : k \in DOMAIN pub \/ k = Len(pub) + 1
    BY ONLY <2>2
  <2>4. \A k \in DOMAIN pub' : pub'[k].id = k
    BY <2>2, <2>3 DEF InvIdentity
  <2>5. NextMsg \in DOMAIN pub' /\ DOMAIN pub \subseteq DOMAIN pub'
    BY <2>2 DEF NextMsg
  <2> QED
    BY <1>5, <1>7, <2>4, <2>5
<1> QED
  BY <1>2, <1>4, <1>6, <1>7

\* A new object at the end of the heap, for a message that was inserted.
LEMMA HeapGrows ==
    ASSUME TypeInv, InvIdentity, NEW r, obj' = Append(obj, r), r.n \in DOMAIN pub',
           DOMAIN pub \subseteq DOMAIN pub', waitAck' = waitAck
    PROVE  /\ \A o \in DOMAIN obj : o \in DOMAIN obj' /\ obj'[o] = obj[o]
           /\ \A o \in DOMAIN obj' : obj'[o].n \in DOMAIN pub'
           /\ \A id \in Msg : waitAck'[id] /= 0 => obj'[waitAck'[id]].n = id
<1> USE Types
<1>1. /\ DOMAIN obj' = 1..(Len(obj) + 1)
      /\ \A o \in 1..Len(obj) : obj'[o] = obj[o]
      /\ obj'[Len(obj) + 1] = r
  BY AppendFacts
<1>2. /\ \A o \in DOMAIN obj : o \in DOMAIN obj' /\ obj'[o] = obj[o]
      /\ \A o \in DOMAIN obj' : o \in DOMAIN obj \/ o = Len(obj) + 1
  BY <1>1
<1>3. /\ \A o \in DOMAIN obj : obj[o].n \in DOMAIN pub
      /\ \A id \in Msg : waitAck[id] /= 0 => obj[waitAck[id]].n = id
  BY DEF InvIdentity, NumberOf
<1>4. \A o \in DOMAIN obj' : obj'[o].n \in DOMAIN pub'
  BY ONLY <1>1, <1>2, <1>3, r.n \in DOMAIN pub', DOMAIN pub \subseteq DOMAIN pub'
<1>5. \A id \in Msg : waitAck[id] /= 0 => waitAck[id] \in DOMAIN obj
  BY DEF InvIdentity, NumberOf
<1> QED
  BY <1>2, <1>3, <1>4, <1>5

LEMMA IdentityMemory ==
    ASSUME UniqueIds, TypeInv, InvIdentity, Recover \/ Relink
    PROVE  InvIdentity'
<1> USE Types
<1>1. CASE Recover
  BY <1>1, EmptySeqFacts DEF Recover, disk, history, InvIdentity, NumberOf, TypeInv, Empty
<1>2. CASE CheckGc
  BY <1>2 DEF CheckGc, disk, memory, history, InvIdentity, NumberOf
<1>3. CASE AbortGc
  BY <1>3, EmptySeqFacts DEF AbortGc, ProcessEnds, disk, InvIdentity, Empty
<1>4. CASE RelinkFound
  <2>1. UNCHANGED <<up, file, tmp, msgs, waitAck, lst, pub>>
    BY <1>4 DEF RelinkFound, disk, history
  <2>2. DOMAIN obj' = DOMAIN obj /\ \A o \in DOMAIN obj : obj'[o].n = obj[o].n
    BY <1>4 DEF RelinkFound, Object
  <2> QED
    BY <2>1, <2>2 DEF InvIdentity, NumberOf
<1>5. CASE RelinkMissed
  <2>1. /\ UNCHANGED <<up, file, tmp, waitAck, lst, pub>> /\ up
        /\ obj' = Append(obj, lst[at]) /\ at \in DOMAIN lst
    BY <1>5 DEF RelinkMissed, disk, history, TypeInv
  <2>2. /\ \A o \in DOMAIN obj' : obj'[o].n \in DOMAIN pub'
        /\ \A id \in Msg : waitAck'[id] /= 0 => obj'[waitAck'[id]].n = id
    BY <2>1, HeapGrows DEF InvIdentity
  <2> QED
    BY <2>1, <2>2 DEF InvIdentity, NumberOf
<1>6. CASE RelinkDone
  BY <1>6, EmptySeqFacts DEF RelinkDone, disk, history, InvIdentity, NumberOf
<1> QED
  BY <1>1, <1>2, <1>3, <1>4, <1>5, <1>6 DEF Relink

\* Another attempt: its id is its number.
LEMMA NewAttempt ==
    ASSUME UniqueIds, TypeInv, InvIdentity, NEW b, \E id \in NewIds : Attempt(id, b)
    PROVE  /\ pc = "idle" /\ up /\ NextMsg \in DOMAIN pub'
           /\ DOMAIN pub \subseteq DOMAIN pub'
           /\ \A i \in DOMAIN pub' : pub'[i].id = i
<1>1. pc = "idle" /\ pub' = Append(pub, [id |-> NextMsg, durable |-> b])
  BY DEF NewIds, Attempt
<1>2. /\ DOMAIN pub' = 1..(Len(pub) + 1) /\ DOMAIN pub = 1..Len(pub) /\ Len(pub) \in Nat
      /\ \A i \in 1..Len(pub) : pub'[i] = pub[i]
      /\ pub'[Len(pub) + 1].id = Len(pub) + 1
  BY <1>1, AppendFacts, Types DEF NextMsg
<1>3. \A i \in DOMAIN pub' : i \in DOMAIN pub \/ i = Len(pub) + 1
  BY <1>2
<1> QED
  BY <1>1, <1>2, <1>3 DEF TypeInv, InvIdentity, NextMsg

LEMMA IdentityInsert ==
    ASSUME UniqueIds, TypeInv, InvIdentity, Insert
    PROVE  InvIdentity'
<1> USE Types
<1>1. CASE InsertTransient
  <2>1. /\ UNCHANGED <<up, file, tmp, waitAck, lst>>
        /\ obj' = Append(obj, [n |-> NextMsg, off |-> 0]) /\ \E id \in NewIds : Attempt(id, FALSE)
    BY <1>1 DEF InsertTransient, Enqueue, disk, loop
  <2>2. /\ up /\ NextMsg \in DOMAIN pub' /\ DOMAIN pub \subseteq DOMAIN pub'
        /\ \A i \in DOMAIN pub' : pub'[i].id = i
    BY <2>1, NewAttempt
  <2>3. /\ \A o \in DOMAIN obj' : obj'[o].n \in DOMAIN pub'
        /\ \A id \in Msg : waitAck'[id] /= 0 => obj'[waitAck'[id]].n = id
    BY <2>1, <2>2, HeapGrows
  <2> QED
    BY <2>1, <2>2, <2>3 DEF InvIdentity, NumberOf
<1>2. CASE InsertHeader
  <2>1. /\ UNCHANGED <<up, tmp, obj, msgs, waitAck, lst>>
        /\ file' = Append(file, [n |-> NextMsg, st |-> "torn"]) /\ \E id \in NewIds : Attempt(id, TRUE)
    BY <1>2 DEF InsertHeader, memory, loop
  <2>2. /\ up /\ NextMsg \in DOMAIN pub' /\ DOMAIN pub \subseteq DOMAIN pub'
        /\ \A i \in DOMAIN pub' : pub'[i].id = i
    BY <2>1, NewAttempt
  <2>3. \A i \in DOMAIN file' : file'[i].n \in DOMAIN pub'
    <3>1. /\ DOMAIN file' = 1..(Len(file) + 1)
          /\ \A i \in 1..Len(file) : file'[i] = file[i]
          /\ file'[Len(file) + 1].n = NextMsg
      BY <2>1, AppendFacts
    <3>2. \A i \in DOMAIN file' : i \in DOMAIN file \/ i = Len(file) + 1
      <4>1. DOMAIN file = 1..Len(file) /\ Len(file) \in Nat
        OBVIOUS
      <4> QED
        BY ONLY <3>1, <4>1
    <3> QED
      BY <2>2, <3>1, <3>2 DEF InvIdentity
  <2> QED
    BY <2>1, <2>2, <2>3 DEF InvIdentity, NumberOf
<1>3. CASE InsertBody
  <2>1. /\ UNCHANGED <<up, tmp, waitAck, lst, pub>> /\ pc = "body"
        /\ \E st \in {"valid", "torn"} : file' = [file EXCEPT ![Len(file)].st = st]
        /\ obj' = Append(obj, [n |-> Len(pub), off |-> Len(file)])
    BY <1>3 DEF InsertBody, Enqueue, loop
  <2>2. Len(pub) \in DOMAIN pub /\ up
    BY <2>1, LastFacts DEF TypeInv
  <2>3. DOMAIN file' = DOMAIN file /\ \A i \in DOMAIN file : file'[i].n = file[i].n
    BY <2>1, MarkType
  <2>4. /\ \A o \in DOMAIN obj' : obj'[o].n \in DOMAIN pub'
        /\ \A id \in Msg : waitAck'[id] /= 0 => obj'[waitAck'[id]].n = id
    BY <2>1, <2>2, HeapGrows
  <2> QED
    BY <2>1, <2>2, <2>3, <2>4 DEF InvIdentity, NumberOf
<1>4. CASE InsertBodyFails
  BY <1>4 DEF InsertBodyFails, disk, memory, loop, history, InvIdentity, NumberOf
<1>5. CASE InsertRejected
  <2>1. /\ UNCHANGED <<up, file, tmp, obj, msgs, waitAck, lst>> /\ \E id \in NewIds : Attempt(id, TRUE)
    BY <1>5 DEF InsertRejected, disk, memory, loop
  <2>2. DOMAIN pub \subseteq DOMAIN pub' /\ \A i \in DOMAIN pub' : pub'[i].id = i
    BY <2>1, NewAttempt
  <2> QED
    BY <2>1, <2>2 DEF InvIdentity, NumberOf
<1>6. CASE InsertHeaderFails
  <2>1. /\ UNCHANGED <<up, tmp, obj, msgs, waitAck, lst>>
        /\ file' = file \/ file' = Append(file, [n |-> NextMsg, st |-> "torn"])
        /\ \E id \in NewIds : Attempt(id, TRUE)
    BY <1>6 DEF InsertHeaderFails, memory, loop
  <2>2. /\ up /\ NextMsg \in DOMAIN pub' /\ DOMAIN pub \subseteq DOMAIN pub'
        /\ \A i \in DOMAIN pub' : pub'[i].id = i
    BY <2>1, NewAttempt
  <2>3. \A i \in DOMAIN file' : file'[i].n \in DOMAIN pub'
    <3>1. CASE file' = file
      BY <2>2, <3>1 DEF InvIdentity
    <3>2. CASE file' = Append(file, [n |-> NextMsg, st |-> "torn"])
      <4>1. /\ DOMAIN file' = 1..(Len(file) + 1)
            /\ \A i \in 1..Len(file) : file'[i] = file[i]
            /\ file'[Len(file) + 1].n = NextMsg
        BY <3>2, AppendFacts
      <4>2. \A i \in DOMAIN file' : i \in DOMAIN file \/ i = Len(file) + 1
        <5>1. DOMAIN file = 1..Len(file) /\ Len(file) \in Nat
          OBVIOUS
        <5> QED
          BY ONLY <4>1, <5>1
      <4> QED
        BY <2>2, <4>1, <4>2 DEF InvIdentity
    <3> QED
      BY <2>1, <3>1, <3>2
  <2> QED
    BY <2>1, <2>2, <2>3 DEF InvIdentity, NumberOf
<1> QED
  BY <1>1, <1>2, <1>3, <1>4, <1>5, <1>6 DEF Insert

LEMMA IdentityStep ==
    ASSUME UniqueIds, TypeInv, InvIdentity, [Next]_vars
    PROVE  InvIdentity'
<1> USE Types
<1>1. CASE UNCHANGED vars
  BY <1>1 DEF vars, disk, memory, loop, history, InvIdentity, NumberOf
<1>2. CASE Start \/ StartWithoutFile \/ Gc
  <2>1. CASE LoadThrows
    BY <2>1, EmptySeqFacts DEF LoadThrows, ProcessEnds, disk, InvIdentity, Empty
  <2>2. CASE LoadDamaged
    BY <2>2, IdentityDamaged
  <2> QED
    BY <1>2, <2>1, <2>2, IdentityGc
<1>3. CASE Recover \/ Relink
  BY <1>3, IdentityMemory
<1>4. CASE Insert
  BY <1>4, IdentityInsert
<1>5. CASE Front
  <2>1. /\ msgs /= <<>> /\ UNCHANGED <<up, file, tmp, obj, lst, pub>> /\ pc = "idle"
        /\ waitAck' = Put(waitAck, IdOf(obj[Head(msgs)].n), Head(msgs))
    BY <1>5 DEF Front, disk, loop
  <2>2. Head(msgs) \in DOMAIN obj
    BY <2>1, TailFacts
  <2>3. obj[Head(msgs)].n \in DOMAIN pub /\ IdOf(obj[Head(msgs)].n) = obj[Head(msgs)].n /\ up
    BY <2>1, <2>2 DEF InvIdentity, IdOf, TypeInv
  <2>4. \A id \in Msg : waitAck'[id] = waitAck[id] \/ (waitAck'[id] = Head(msgs) /\ obj[Head(msgs)].n = id)
    BY <2>1, <2>3 DEF Put
  <2> QED
    BY <2>1, <2>3, <2>4 DEF InvIdentity, NumberOf
<1>6. CASE Ack
  <2>1. PICK id \in Msg : AckTransient(id) \/ AckDurable(id)
    BY <1>6 DEF Ack
  <2>2. /\ UNCHANGED <<up, tmp, obj, msgs, pub>> /\ up
        /\ waitAck' = [waitAck EXCEPT ![id] = 0]
        /\ lst' = lst \/ lst' = <<>>
        /\ file' = file \/ Invalidate(waitAck[id])
        /\ waitAck[id] /= 0
    BY <2>1 DEF AckTransient, AckDurable, Forget, BeginGc, disk, loop, TypeInv
  <2>3. \A i \in DOMAIN file' : file'[i].n \in DOMAIN pub
    <3>1. obj[waitAck[id]].n \in DOMAIN pub
      BY <2>2 DEF InvIdentity
    <3>2. CASE file' = file
      BY <3>2 DEF InvIdentity
    <3>3. CASE Invalidate(waitAck[id])
      <4>1. obj[waitAck[id]] \in Object
        BY <2>2
      <4>2. /\ DOMAIN file' = DOMAIN file
            /\ \A i \in DOMAIN file : file'[i].n \in {file[i].n, obj[waitAck[id]].n}
        BY <3>3, <4>1, InvalidateType
      <4> QED
        BY <3>1, <4>2 DEF InvIdentity
    <3> QED
      BY <2>2, <3>2, <3>3
  <2>4. \A i \in DOMAIN lst' : lst'[i].n \in DOMAIN pub
    BY <2>2, EmptySeqFacts DEF InvIdentity
  <2> QED
    BY <2>2, <2>3, <2>4 DEF InvIdentity, NumberOf
<1>7. CASE Clear \/ ClearFails \/ Crash
  BY <1>7, EmptySeqFacts DEF Clear, ClearFails, Crash, ProcessEnds, disk, InvIdentity, Empty
<1> QED
  BY <1>1, <1>2, <1>3, <1>4, <1>5, <1>6, <1>7 DEF Next

\* Messages in memory stay there while objects are only added or keep their numbers.
LEMMA HeldStays ==
    ASSUME TypeInv, waitAck' = waitAck,
           \A o \in DOMAIN obj : obj'[o].n = obj[o].n,
           \A i \in DOMAIN msgs : i \in DOMAIN msgs' /\ msgs'[i] = msgs[i]
    PROVE  Held \subseteq Held'
<1>1. InMsgs \subseteq InMsgs'
  BY Types DEF InMsgs, NumberOf
<1>2. InWaitAck \subseteq InWaitAck'
  BY Types DEF InWaitAck, NumberOf
<1> QED
  BY <1>1, <1>2 DEF Held

LEMMA HeldFront ==
    ASSUME UniqueIds, TypeInv, InvIdentity, Front
    PROVE  Held \subseteq Held'
<1> USE Types
<1> DEFINE o == Head(msgs)
           m == obj[o].n
<1>1. /\ msgs /= <<>> /\ obj' = obj /\ msgs' = Tail(msgs)
      /\ waitAck' = Put(waitAck, IdOf(m), o)
  BY DEF Front
<1>2. /\ o = msgs[1] /\ 1 \in DOMAIN msgs /\ o \in DOMAIN obj
      /\ DOMAIN msgs' = 1..(Len(msgs) - 1) /\ DOMAIN msgs = 1..Len(msgs) /\ Len(msgs) \in Nat
      /\ \A i \in 1..(Len(msgs) - 1) : msgs'[i] = msgs[i + 1]
  BY <1>1, TailFacts
<1>3. \A i \in DOMAIN msgs : i = 1 \/ (i - 1 \in DOMAIN msgs' /\ msgs'[i - 1] = msgs[i])
  BY ONLY <1>2
<1> HIDE DEF o
<1>4. m \in DOMAIN pub /\ IdOf(m) = m /\ m \in Msg /\ o /= 0
  <2>1. m \in DOMAIN pub /\ \A i \in DOMAIN pub : pub[i].id = i
    BY <1>2 DEF InvIdentity
  <2>2. obj[o] \in Object /\ o /= 0
    BY <1>2
  <2> QED
    BY ONLY <2>1, <2>2 DEF IdOf, Object
<1>5. \A id \in Msg : waitAck[id] /= 0 => waitAck'[id] = waitAck[id]
  BY <1>1, <1>4 DEF Put
<1>6. waitAck'[m] /= 0 /\ obj[waitAck'[m]].n = m
  BY <1>1, <1>4 DEF Put, InvIdentity, NumberOf
<1>7. InWaitAck \subseteq InWaitAck'
  BY ONLY <1>1, <1>5 DEF InWaitAck, NumberOf
<1>8. m \in InWaitAck'
  BY ONLY <1>1, <1>4, <1>6 DEF InWaitAck, NumberOf
<1>9. \A i \in DOMAIN msgs : obj[msgs[i]].n = m \/ obj[msgs[i]].n \in InMsgs'
  BY ONLY <1>1, <1>2, <1>3 DEF InMsgs, NumberOf
<1>10. InMsgs \subseteq InMsgs' \union {m}
  BY ONLY <1>9 DEF InMsgs, NumberOf
<1> QED
  BY ONLY <1>7, <1>8, <1>10 DEF Held

LEMMA HeldAck ==
    ASSUME TypeInv, InvIdentity, NEW id \in Msg, AckTransient(id) \/ AckDurable(id)
    PROVE  Held \subseteq Held' \union acked'
<1> USE Types
<1>1. /\ obj' = obj /\ msgs' = msgs /\ waitAck' = [waitAck EXCEPT ![id] = 0]
      /\ acked' = acked \union {obj[waitAck[id]].n}
  BY DEF AckTransient, AckDurable, Forget
<1>2. InMsgs' = InMsgs
  BY <1>1 DEF InMsgs, NumberOf
<1>3. \A k \in Msg : k = id \/ waitAck'[k] = waitAck[k]
  BY <1>1
<1>4. \A k \in Msg : waitAck[k] /= 0 => obj[waitAck[k]].n \in InWaitAck' \union acked'
  BY ONLY <1>1, <1>3 DEF InWaitAck, NumberOf
<1>5. InWaitAck \subseteq InWaitAck' \union acked'
  BY ONLY <1>4 DEF InWaitAck, NumberOf
<1> QED
  BY <1>2, <1>5 DEF Held

LEMMA HeldStep ==
    ASSUME UniqueIds, TypeInv, InvIdentity, [Next]_vars
    PROVE  Held \subseteq Held' \union acked' \/ pc' = "down"
<1> USE Types
<1>1. CASE \/ UNCHANGED vars \/ Start \/ StartWithoutFile \/ (Gc /\ ~LoadThrows)
          \/ CheckGc \/ RelinkDone
          \/ InsertHeader \/ InsertHeaderFails \/ InsertBodyFails \/ InsertRejected
  <2>1. UNCHANGED <<obj, msgs, waitAck>>
    <3>1. CASE \/ UNCHANGED vars \/ CheckGc \/ RelinkDone
              \/ InsertHeader \/ InsertHeaderFails \/ InsertBodyFails \/ InsertRejected
      BY <3>1 DEF vars, CheckGc, RelinkDone, InsertHeader, InsertHeaderFails, InsertBodyFails,
                  InsertRejected, memory
    <3>2. CASE Start \/ StartWithoutFile \/ (Gc /\ ~LoadThrows)
      BY <3>2 DEF Start, StartWithoutFile, Gc, LoadRecord, LoadFails, LoadDamaged, LoadDone, TmpWriteFails,
                  RemoveOld, RemoveFails, Rename, RenameFails, memory
    <3> QED
      BY <1>1, <3>1, <3>2
  <2> QED
    BY <2>1, HeldStays
<1>2. CASE RelinkFound
  <2>1. UNCHANGED <<msgs, waitAck>> /\ \A o \in DOMAIN obj : obj'[o].n = obj[o].n
    BY <1>2 DEF RelinkFound, Object
  <2> QED
    BY <2>1, HeldStays
<1>3. CASE RelinkMissed \/ InsertTransient \/ InsertBody
  <2>1. PICK r, o : obj' = Append(obj, r) /\ msgs' = Append(msgs, o) /\ waitAck' = waitAck
    <3>1. CASE RelinkMissed
      BY <3>1 DEF RelinkMissed
    <3>2. CASE InsertTransient \/ InsertBody
      BY <3>2 DEF InsertTransient, InsertBody, Enqueue
    <3> QED
      BY <1>3, <3>1, <3>2
  <2>2. \A k \in DOMAIN obj : obj'[k] = obj[k]
    BY <2>1, AppendFacts
  <2>3. \A i \in DOMAIN msgs : i \in DOMAIN msgs' /\ msgs'[i] = msgs[i]
    BY <2>1, AppendFacts
  <2> QED
    BY <2>1, <2>2, <2>3, HeldStays
<1>4. CASE Recover
  <2>1. msgs = <<>> /\ waitAck = Empty
    BY <1>4 DEF Recover, InvIdentity, TypeInv
  <2>2. InMsgs = {}
    BY <2>1, EmptySeqFacts DEF InMsgs
  <2>3. InWaitAck = {}
    BY <2>1 DEF InWaitAck, Empty
  <2> QED
    BY <2>2, <2>3 DEF Held
<1>5. CASE Front
  BY <1>5, HeldFront
<1>6. CASE Ack
  BY <1>6, HeldAck DEF Ack
<1>7. CASE Clear \/ ClearFails \/ Crash \/ AbortGc \/ LoadThrows
  BY <1>7 DEF Clear, ClearFails, Crash, AbortGc, LoadThrows, ProcessEnds
<1> QED
  BY <1>1, <1>2, <1>3, <1>4, <1>5, <1>6, <1>7 DEF Next, Relink, Insert

\* As long as a publisher uses an id once, a message leaves the memory of a living queue
\* by an acknowledgement only, whichever of the operations on its files fails or is
\* carried out in part, wherever the process died before, and also when __load() misreads
\* what an earlier failure left in the file (queue_message::front, remove, gc, recovery).
THEOREM MessagesLeaveByAck ==
    ASSUME UniqueIds
    PROVE  Spec => LeavesOnlyByAck
<1>1. Init => TypeInv /\ InvIdentity
  <2>1. ASSUME Init PROVE InvIdentity
    BY <2>1, EmptySeqFacts DEF Init, InvIdentity, Empty
  <2> QED
    BY <2>1, InitType
<1>2. TypeInv /\ InvIdentity /\ [Next]_vars => TypeInv' /\ InvIdentity'
  BY StepType, IdentityStep, QueueMessageAssumption
<1>3. TypeInv /\ InvIdentity /\ [Next]_vars =>
        [\A n \in Held : n \in Held' \/ n \in acked' \/ pc' = "down"]_vars
  BY HeldStep
<1> QED
  BY <1>1, <1>2, <1>3, PTL DEF Spec, LeavesOnlyByAck
=============================================================================
