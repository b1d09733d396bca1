---------------------------- MODULE QueueMessage ----------------------------
(***************************************************************************)
(* One message queue of the broker: queue_message (the queue in memory)    *)
(* over message_mapper (its file on disk), from mqserver/message.hpp.      *)
(*                                                                         *)
(* Every public operation runs under the queue's mutex, so operations do   *)
(* not interleave with each other; they are nevertheless split at each     *)
(* change of the disk, because the process can die there and each call to  *)
(* the file system can fail there.                                         *)
(*                                                                         *)
(* Message n is the n-th message a publisher tried to insert.  Payloads    *)
(* all have the same length, so an offset in the file is the index of a    *)
(* record and 0 stands for "offset and length were never set".             *)
(***************************************************************************)
EXTENDS Naturals, Sequences, FiniteSets

CONSTANTS
    MaxMsgs,    \* bound: insertions attempted in a behaviour
    GCMin,      \* records a file may hold before it is collected (2000 in the code)
    SizeMax,    \* largest size_t
    UniqueIds,  \* whether publishers give each message an id of its own
    CrashAt,    \* values of pc at which the process may die
    IOFails     \* file operations that may report a failure

ASSUME QueueMessageAssumption ==
    /\ MaxMsgs \in Nat
    /\ GCMin \in Nat
    /\ SizeMax \in Nat
    /\ UniqueIds \in BOOLEAN

VARIABLES
    pc,           \* where the operation that holds the mutex is; "idle" if none, "down" if the process is dead
    up,           \* recovery() has completed in this life of the process
    file, exists, \* the data file: its records, and whether it is in the directory
    tmp,          \* records of the temporary file
    obj,          \* heap: the Message objects of this life, shared by the containers below
    msgs,         \* __msgs: references of the objects to be pushed
    durable,      \* __durable_msgs: id -> reference, 0 if there is no entry
    waitAck,      \* __wait_ack_msgs: id -> reference, 0 if there is no entry
    valid_count, total_count,
    lst,          \* result_lst, the messages message_mapper::gc() has loaded
    at,           \* index of the loop that is running
    \* history, not part of the program
    pub,          \* the n-th insertion: its id and whether it is durable
    accepted,     \* messages whose insert() returned true, until their queue is deleted
    acked,        \* messages acknowledged
    handed        \* number of the message front() returned last in this life

disk == <<file, exists, tmp>>
memory == <<obj, msgs, durable, waitAck, valid_count, total_count>>
loop == <<lst, at>>
history == <<pub, accepted, acked, handed>>
vars == <<pc, up, disk, memory, loop, history>>

Msg == 1..MaxMsgs
Record == [n : Msg, st : {"valid", "invalid", "torn"}]
Object == [n : Msg, off : Nat]
Empty == [id \in Msg |-> 0]

IdOf(n) == pub[n].id
NextMsg == Len(pub) + 1

\* The ids a publisher can give to its next message.
NewIds == IF UniqueIds THEN {NextMsg} ELSE 1..NextMsg

\* unordered_map::insert leaves the map as it is when the key is there.
Put(map, id, o) == IF map[id] = 0 THEN [map EXCEPT ![id] = o] ELSE map

\* Record i is at or behind one that is not whole: what __load() takes for its length and
\* its body are bytes of other records.
Lost(i) == \E j \in 1..i : file[j].st = "torn"

\* Fault: collection waits until a quarter of the records are valid.
GcDueLate(valid, total) == total > GCMin /\ 4 * valid < total

\* gc_check(): more than GCMin records, and less than half of them valid.
GcDue(valid, total) == total > GCMin /\ 2 * valid < total

\* size_t arithmetic: 0 - 1 wraps.
Decrement(count) == IF count = 0 THEN SizeMax ELSE count - 1

Init ==
    /\ pc = "down" /\ up = FALSE
    /\ file = <<>> /\ exists = FALSE /\ tmp = <<>>
    /\ obj = <<>> /\ msgs = <<>> /\ durable = Empty /\ waitAck = Empty
    /\ valid_count = 0 /\ total_count = 0
    /\ lst = <<>> /\ at = 1
    /\ pub = <<>> /\ accepted = {} /\ acked = {} /\ handed = 0

-----------------------------------------------------------------------------
(* The end of the process, at any point the configuration allows. *)

\* What is left when the process ends: the disk.
ProcessEnds ==
    /\ pc' = "down" /\ up' = FALSE
    /\ obj' = <<>> /\ msgs' = <<>> /\ durable' = Empty /\ waitAck' = Empty
    /\ valid_count' = 0 /\ total_count' = 0
    /\ lst' = <<>> /\ at' = 1 /\ handed' = 0

Crash ==
    /\ pc \in CrashAt \ {"down"}
    /\ ProcessEnds
    /\ UNCHANGED <<disk, pub, accepted, acked>>

\* Fault: the files of a deleted queue are not removed.
ClearKeepsFile ==
    /\ pc = "idle"
    /\ ProcessEnds
    /\ accepted' = {}
    /\ UNCHANGED <<disk, pub, acked>>

\* The removal of the data file fails, which nobody looks at.
ClearFails ==
    /\ pc = "idle"
    /\ "unlink" \in IOFails
    /\ ProcessEnds
    /\ accepted' = {}
    /\ UNCHANGED <<disk, pub, acked>>

\* delete_queue: destroy_queue_msg() drops the queue and clear() removes both files.
Clear ==
    /\ pc = "idle"
    /\ ProcessEnds
    /\ file' = <<>> /\ exists' = FALSE /\ tmp' = <<>>
    /\ accepted' = {}
    /\ UNCHANGED <<pub, acked>>

-----------------------------------------------------------------------------
(* message_mapper::gc(), for recovery() when ~up and for an ack when up. *)

BeginGc == pc' = "load" /\ lst' = <<>> /\ at' = 1

\* The constructor, create_msg_file() and the start of recovery().
Start ==
    /\ pc = "down"
    /\ exists' = TRUE
    /\ BeginGc
    /\ UNCHANGED <<up, file, tmp, memory, history>>

\* The constructor cannot create the file; the queue comes up without one.
StartWithoutFile ==
    /\ pc = "down"
    /\ ~exists
    /\ "create" \in IOFails
    /\ BeginGc
    /\ UNCHANGED <<up, disk, memory, history>>

\* __load(): one record is read; only valid ones are kept.
LoadRecord ==
    /\ pc = "load"
    /\ at \in DOMAIN file
    /\ ~Lost(at)
    /\ lst' = IF file[at].st = "valid"
              THEN Append(lst, [n |-> file[at].n, off |-> 0])
              ELSE lst
    /\ at' = at + 1
    /\ UNCHANGED <<pc, up, disk, memory, history>>

\* A short read ends __load(), and gc() returns what was read before it.
LoadFails ==
    /\ pc = "load"
    /\ at \in DOMAIN file
    /\ Lost(at) \/ "read" \in IOFails
    /\ pc' = "loaded"
    /\ UNCHANGED <<up, disk, memory, loop, history>>

\* __load() reads bytes of one record as if they were another's: there are some behind
\* the record that is not whole, or its length was never written and reads as 0.
Misreads ==
    /\ pc = "load"
    /\ at \in DOMAIN file
    /\ Lost(at)
    /\ at < Len(file) \/ "close" \in IOFails

\* No string has the length that was read: the exception ends the process.
LoadThrows ==
    /\ Misreads
    /\ ProcessEnds
    /\ UNCHANGED <<disk, pub, accepted, acked>>

\* The bytes up to the end of record i are passed over, or taken for its message, or for
\* one that nobody published.
LoadDamaged ==
    /\ Misreads
    /\ \E i \in at..Len(file) :
          /\ \/ UNCHANGED <<lst, pub>>
             \/ /\ lst' = Append(lst, [n |-> file[i].n, off |-> 0])
                /\ UNCHANGED pub
             \/ \E id \in NewIds, isDurable \in BOOLEAN :
                   /\ Len(pub) < MaxMsgs
                   /\ pub' = Append(pub, [id |-> id, durable |-> isDurable])
                   /\ lst' = Append(lst, [n |-> NextMsg, off |-> 0])
          /\ at' = i + 1
    /\ UNCHANGED <<pc, up, disk, memory, accepted, acked, handed>>

\* Fault: the loop that copies stops one short.
CopyAllButOne(k) ==
    /\ tmp' = [i \in 1..(k - 1) |-> [n |-> lst[i].n, st |-> "valid"]]
    /\ lst' = [i \in DOMAIN lst |->
                 IF i <= k THEN [lst[i] EXCEPT !.off = i] ELSE lst[i]]

\* Records of which a part may be missing though write() said true: it looks at the
\* stream before close(), which is when the bytes of a short write reach the disk.
\* Bound: at most one of them at a time.
MaybeShort(records) ==
    {{}} \union (IF "close" \in IOFails THEN {{r} : r \in records} ELSE {})

\* The first k messages of lst are written to the temporary file, each __insert()
\* setting the offset of its message.
CopyToTmp(k) ==
    /\ \E short \in MaybeShort(1..k) :
          tmp' = [i \in 1..k |->
                    [n |-> lst[i].n, st |-> IF i \in short THEN "torn" ELSE "valid"]]
    /\ lst' = [i \in DOMAIN lst |->
                 IF i <= k THEN [lst[i] EXCEPT !.off = i] ELSE lst[i]]

LoadDone ==
    /\ pc = "load"
    /\ at = Len(file) + 1
    /\ CopyToTmp(Len(lst))
    /\ pc' = "swap"
    /\ UNCHANGED <<up, file, exists, memory, at, history>>

TmpWriteFails ==
    /\ pc = "load"
    /\ at = Len(file) + 1
    /\ "tmp" \in IOFails
    /\ \E k \in DOMAIN lst : CopyToTmp(k - 1)
    /\ pc' = "loaded"
    /\ UNCHANGED <<up, file, exists, memory, at, history>>

RemoveOld ==
    /\ pc = "swap"
    /\ exists
    /\ file' = <<>> /\ exists' = FALSE
    /\ pc' = "removed"
    /\ UNCHANGED <<up, tmp, memory, loop, history>>

RemoveFails ==
    /\ pc = "swap"
    /\ ~exists \/ "remove" \in IOFails
    /\ pc' = "loaded"
    /\ UNCHANGED <<up, disk, memory, loop, history>>

Rename ==
    /\ pc = "removed"
    /\ file' = tmp /\ exists' = TRUE /\ tmp' = <<>>
    /\ pc' = "loaded"
    /\ UNCHANGED <<up, memory, loop, history>>

RenameFails ==
    /\ pc = "removed"
    /\ "rename" \in IOFails
    /\ pc' = "loaded"
    /\ UNCHANGED <<up, disk, memory, loop, history>>

-----------------------------------------------------------------------------
(* What queue_message does with the list gc() returned. *)

\* The first object of lst with each id, as insertion into a map keeps it.
FirstWithId ==
    [id \in Msg |->
        LET first == {i \in DOMAIN lst :
                        /\ IdOf(lst[i].n) = id
                        /\ \A j \in 1..(i - 1) : IdOf(lst[j].n) /= id}
        IN IF first = {} THEN 0 ELSE CHOOSE i \in first : TRUE]

\* The end of recovery().
Recover ==
    /\ pc = "loaded" /\ ~up
    /\ obj' = lst
    /\ msgs' = [i \in DOMAIN lst |-> i]
    /\ durable' = FirstWithId
    /\ valid_count' = Len(lst) /\ total_count' = Len(lst)
    /\ pc' = "idle" /\ up' = TRUE
    /\ lst' = <<>> /\ at' = 1
    /\ UNCHANGED <<disk, waitAck, history>>

\* queue_message::gc(): its assertion holds and the loop over the messages begins.
CheckGc ==
    /\ pc = "loaded" /\ up
    /\ Len(lst) = valid_count
    /\ pc' = "relink" /\ at' = 1
    /\ UNCHANGED <<up, disk, memory, lst, history>>

\* The assertion fails and the process aborts.
AbortGc ==
    /\ pc = "loaded" /\ up
    /\ Len(lst) /= valid_count
    /\ ProcessEnds
    /\ UNCHANGED <<disk, pub, accepted, acked>>

\* A loaded message is found in __durable_msgs: its object learns the new offset.
RelinkFound ==
    /\ pc = "relink"
    /\ at \in DOMAIN lst
    /\ LET o == durable[IdOf(lst[at].n)]
       IN /\ o /= 0
          /\ obj' = [obj EXCEPT ![o].off = lst[at].off]
    /\ at' = at + 1
    /\ UNCHANGED <<pc, up, disk, msgs, durable, waitAck, valid_count, total_count, lst, history>>

\* It is not: the loaded object itself joins the queue.
RelinkMissed ==
    /\ pc = "relink"
    /\ at \in DOMAIN lst
    /\ LET id == IdOf(lst[at].n)
           o == Len(obj) + 1
       IN /\ durable[id] = 0
          /\ obj' = Append(obj, lst[at])
          /\ msgs' = Append(msgs, o)
          /\ durable' = [durable EXCEPT ![id] = o]
    /\ at' = at + 1
    /\ UNCHANGED <<pc, up, disk, waitAck, valid_count, total_count, lst, history>>

RelinkDone ==
    /\ pc = "relink"
    /\ at = Len(lst) + 1
    /\ valid_count' = Len(lst) /\ total_count' = Len(lst)
    /\ pc' = "idle"
    /\ lst' = <<>> /\ at' = 1
    /\ UNCHANGED <<up, disk, obj, msgs, durable, waitAck, history>>

-----------------------------------------------------------------------------
(* insert() *)

\* Fault: the queue refers to the object after the new one.
EnqueueOffByOne(n, offset) ==
    /\ obj' = Append(obj, [n |-> n, off |-> offset])
    /\ msgs' = Append(msgs, Len(obj) + 2)
    /\ accepted' = accepted \union {n}

\* Fault: push_front instead of push_back.
EnqueueInFront(n, offset) ==
    /\ obj' = Append(obj, [n |-> n, off |-> offset])
    /\ msgs' = <<Len(obj) + 1>> \o msgs
    /\ accepted' = accepted \union {n}

\* The message object of insertion n enters the queue.
Enqueue(n, offset) ==
    /\ obj' = Append(obj, [n |-> n, off |-> offset])
    /\ msgs' = Append(msgs, Len(obj) + 1)
    /\ accepted' = accepted \union {n}

Attempt(id, isDurable) ==
    /\ pc = "idle"
    /\ Len(pub) < MaxMsgs
    /\ pub' = Append(pub, [id |-> id, durable |-> isDurable])

\* The queue is not durable, or the publisher asked for UNDURABLE.
InsertTransient ==
    /\ \E id \in NewIds : Attempt(id, FALSE)
    /\ Enqueue(NextMsg, 0)
    /\ UNCHANGED <<pc, up, disk, durable, waitAck, valid_count, total_count, loop, acked, handed>>

\* __insert() writes the length of the record at the end of the file.
InsertHeader ==
    /\ \E id \in NewIds : Attempt(id, TRUE)
    /\ exists
    /\ file' = Append(file, [n |-> NextMsg, st |-> "torn"])
    /\ pc' = "body"
    /\ UNCHANGED <<up, exists, tmp, memory, loop, accepted, acked, handed>>

\* The length cannot be written: insert() returns false, and a part of it may stay.
InsertHeaderFails ==
    /\ \E id \in NewIds : Attempt(id, TRUE)
    /\ exists
    /\ "header" \in IOFails
    /\ file' \in {file, Append(file, [n |-> NextMsg, st |-> "torn"])}
    /\ UNCHANGED <<pc, up, exists, tmp, memory, loop, accepted, acked, handed>>

\* It writes the body, and the message enters the queue.
InsertBody ==
    /\ pc = "body"
    /\ LET n == Len(pub)
           o == Len(obj) + 1
       IN /\ \E short \in MaybeShort({Len(file)}) :
                file' = [file EXCEPT ![Len(file)].st = IF short = {} THEN "valid" ELSE "torn"]
          /\ Enqueue(n, Len(file))
          /\ durable' = Put(durable, IdOf(n), o)
    /\ valid_count' = valid_count + 1 /\ total_count' = total_count + 1
    /\ pc' = "idle"
    /\ UNCHANGED <<up, exists, tmp, waitAck, loop, pub, acked, handed>>

\* The body cannot be written: insert() returns false and the length stays in the file.
InsertBodyFails ==
    /\ pc = "body"
    /\ "body" \in IOFails
    /\ pc' = "idle"
    /\ UNCHANGED <<up, disk, memory, loop, history>>

\* There is no data file to open: insert() returns false.
InsertRejected ==
    /\ \E id \in NewIds : Attempt(id, TRUE)
    /\ ~exists
    /\ UNCHANGED <<pc, up, disk, memory, loop, accepted, acked, handed>>

-----------------------------------------------------------------------------
(* front() and remove() *)

\* Fault: the message handed out does not join those that wait for an acknowledgement.
FrontForgets ==
    /\ pc = "idle"
    /\ msgs /= <<>>
    /\ LET o == Head(msgs)
       IN /\ waitAck' = waitAck
          /\ handed' = obj[o].n
    /\ msgs' = Tail(msgs)
    /\ UNCHANGED <<pc, up, disk, obj, durable, valid_count, total_count, loop, pub, accepted, acked>>

Front ==
    /\ pc = "idle"
    /\ msgs /= <<>>
    /\ LET o == Head(msgs)
       IN /\ waitAck' = Put(waitAck, IdOf(obj[o].n), o)
          /\ handed' = obj[o].n
    /\ msgs' = Tail(msgs)
    /\ UNCHANGED <<pc, up, disk, obj, durable, valid_count, total_count, loop, pub, accepted, acked>>

\* The part of remove() common to both delivery modes.  __wait_ack_msgs.erase() comes
\* after gc() in the code; nothing in between reads that map.  An id that is not in
\* __wait_ack_msgs is ignored.
Forget(id) ==
    /\ pc = "idle"
    /\ waitAck[id] /= 0
    /\ waitAck' = [waitAck EXCEPT ![id] = 0]
    /\ acked' = acked \union {obj[waitAck[id]].n}

AckTransient(id) ==
    /\ Forget(id)
    /\ ~pub[obj[waitAck[id]].n].durable
    /\ UNCHANGED <<pc, up, disk, obj, msgs, durable, valid_count, total_count, loop, pub, accepted, handed>>

\* Fault: the invalidated record is not written back.
InvalidateNothing(o) ==
    IF ~exists \/ obj[o].off \notin DOMAIN file THEN file' = file ELSE file' = file

\* The file with the payload of o written over what is at its offset.  A record that was
\* not whole becomes whole at the expense of the next one.
Overwritten(o) ==
    LET off == obj[o].off
    IN [i \in DOMAIN file |->
          IF i = off THEN [n |-> obj[o].n, st |-> "invalid"]
          ELSE IF i = off + 1 /\ file[off].st = "torn" THEN [file[i] EXCEPT !.st = "torn"]
          ELSE file[i]]

\* message_mapper::remove() refuses an object without a length and fails without a
\* file.  It also refuses a damaged message, to which "valid" would add a field.  A write
\* that fails leaves the record as it is, or neither the old one nor the new one.
Invalidate(o) ==
    IF ~exists \/ obj[o].off \notin DOMAIN file THEN file' = file
    ELSE \/ file' = Overwritten(o)
         \/ obj[o].n \notin accepted /\ file' = file
         \/ /\ "overwrite" \in IOFails
            /\ file' \in {file, [file EXCEPT ![obj[o].off].st = "torn"]}

AckDurable(id) ==
    /\ Forget(id)
    /\ pub[obj[waitAck[id]].n].durable
    /\ Invalidate(waitAck[id])
    /\ durable' = [durable EXCEPT ![id] = 0]
    /\ valid_count' = Decrement(valid_count)
    /\ IF GcDue(valid_count', total_count)
       THEN BeginGc
       ELSE UNCHANGED <<pc, loop>>
    /\ UNCHANGED <<up, exists, tmp, obj, msgs, total_count, pub, accepted, handed>>

-----------------------------------------------------------------------------

Gc == \/ LoadRecord \/ LoadFails \/ LoadThrows \/ LoadDamaged
      \/ LoadDone \/ TmpWriteFails \/ RemoveOld \/ RemoveFails \/ Rename \/ RenameFails

Relink == \/ CheckGc \/ AbortGc \/ RelinkFound \/ RelinkMissed \/ RelinkDone

Insert == \/ InsertTransient \/ InsertHeader \/ InsertHeaderFails \/ InsertBody \/ InsertBodyFails
          \/ InsertRejected

Ack == \E id \in Msg : AckTransient(id) \/ AckDurable(id)

Next == \/ Start \/ StartWithoutFile \/ Gc \/ Recover \/ Relink
        \/ Insert \/ Front \/ Ack \/ Clear \/ ClearFails \/ Crash

Spec == Init /\ [][Next]_vars
=============================================================================
