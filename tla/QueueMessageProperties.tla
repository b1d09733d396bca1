----------------------- MODULE QueueMessageProperties -----------------------
(* What must be true of one message queue, and the promise it refines. *)
EXTENDS QueueMessage

\* Type correctness of queue_message and message_mapper: the containers hold
\* references of objects that exist, and message numbers that were given.
TypeOK ==
    /\ pc \in {"down", "idle", "body", "load", "swap", "removed", "loaded", "relink"}
    /\ up \in BOOLEAN
    /\ file \in Seq(Record) /\ exists \in BOOLEAN /\ tmp \in Seq(Record)
    /\ obj \in Seq(Object)
    /\ msgs \in Seq(1..Len(obj))
    /\ durable \in [Msg -> 0..Len(obj)]
    /\ waitAck \in [Msg -> 0..Len(obj)]
    /\ valid_count \in Nat /\ total_count \in Nat
    /\ lst \in Seq(Object) /\ at \in Nat \ {0}
    /\ pub \in Seq([id : Msg, durable : BOOLEAN]) /\ Len(pub) <= MaxMsgs
    /\ accepted \in SUBSET Msg /\ acked \in SUBSET Msg
    /\ handed \in {0} \union Msg

\* The message a reference stands for.
NumberOf(o) == obj[o].n

InMsgs == {NumberOf(msgs[i]) : i \in DOMAIN msgs}
InWaitAck == {NumberOf(waitAck[id]) : id \in {k \in Msg : waitAck[k] /= 0}}
Held == InMsgs \union InWaitAck

IsDurable(n) == pub[n].durable

\* Durable messages whose insert() returned true and that nobody acknowledged.
Owed == {n \in accepted \ acked : IsDurable(n)}

\* Durable messages a restart would bring back.
OnDisk == {file[i].n : i \in {k \in DOMAIN file : file[k].st = "valid"}}

-----------------------------------------------------------------------------
(* Invariants *)

\* README "Durability": a durable message that was accepted and not acknowledged is in
\* the queue whenever the queue can be used, through any number of restarts and
\* garbage collections (message_mapper::gc, recovery).
NothingLost == pc = "idle" => Owed \subseteq Held

\* A message that was acknowledged, or whose queue was deleted, or whose insert()
\* returned false, never comes back, neither from the file after a restart nor from the
\* list gc() loaded (queue_message::remove, recovery, the "missed" branch of gc).
NoResurrection == Held \subseteq accepted \ acked

\* Messages leave in the order they were accepted, and none leaves twice in one life of
\* the process (front, recovery and gc all add to __msgs).
DeliveryInOrder ==
    /\ \A i, j \in DOMAIN msgs : i < j => NumberOf(msgs[i]) < NumberOf(msgs[j])
    /\ \A i \in DOMAIN msgs : handed < NumberOf(msgs[i])

\* The assertion of queue_message::gc() (message.hpp:295).
GcAssertion == pc = "loaded" /\ up => Len(lst) = valid_count

\* Garbage is collected in time: the file never holds more than GCMin records beyond
\* twice the valid ones, though gc_check() runs on acknowledgements only.
GarbageBounded ==
    pc = "idle" => Len(file) <= GCMin + 2 * Cardinality(OnDisk)

\* The comment at message.hpp:300: every message gc() loads is in __durable_msgs.
NeverMissed ==
    pc = "relink" /\ at \in DOMAIN lst => durable[IdOf(lst[at].n)] /= 0

-----------------------------------------------------------------------------
(* Actions *)

\* While the process lives, a message leaves the queue's memory only by an
\* acknowledgement, whatever file operation fails (front, remove, gc).
LeavesOnlyByAck ==
    [][\A n \in Held : n \in Held' \/ n \in acked' \/ pc' = "down"]_vars

-----------------------------------------------------------------------------
(* The inductive invariant.  It holds when publishers use an id once, the file system
   reports no failure, and the process does not die where the disk is incomplete. *)

SafeFaults ==
    /\ UniqueIds
    /\ IOFails = {}
    /\ CrashAt \intersect {"body", "removed"} = {}

\* Messages that have been given an answer, that is all but the one being written.
LastNow == IF pc = "body" THEN Len(pub) - 1 ELSE Len(pub)

Increasing(s) == \A i, j \in DOMAIN s : i < j => s[i].n < s[j].n

Loaded == {lst[i].n : i \in DOMAIN lst}

\* The records of f are the messages of lst, whose offsets are their places in f.
Holds(f) ==
    /\ Len(f) = Len(lst)
    /\ \A i \in DOMAIN lst : lst[i].off = i /\ f[i] = [n |-> lst[i].n, st |-> "valid"]

InvHistory ==
    /\ \A i \in DOMAIN pub : pub[i].id = i
    /\ accepted \subseteq 1..LastNow
    /\ acked \subseteq 1..LastNow
    /\ handed <= LastNow

\* Which values of pc and up go together, and that a dead process holds nothing.
InvPhase ==
    /\ pc \in {"idle", "body", "relink"} => up
    /\ pc = "down" => ~up
    /\ ~up => obj = <<>> /\ msgs = <<>> /\ durable = Empty /\ waitAck = Empty /\ handed = 0
    /\ exists = (pc /= "removed") \/ pc = "down"
    /\ ~exists => file = <<>>

InvFile ==
    /\ Increasing(file)
    /\ \A i \in DOMAIN file :
          /\ file[i].n \in DOMAIN pub
          /\ IsDurable(file[i].n)
          /\ file[i].st = "torn" <=> pc = "body" /\ i = Len(file)
    /\ pc = "body" => pub /= <<>> /\ file /= <<>> /\ file[Len(file)].n = Len(pub)

\* The valid records are the messages the queue owes.
InvDisk == pc /= "removed" => OnDisk = Owed

InvObjects ==
    /\ Increasing(obj)
    /\ \A o \in DOMAIN obj : obj[o].n \in accepted
    /\ \A n \in Msg : durable[n] /= 0 => NumberOf(durable[n]) = n
    /\ \A n \in Msg : waitAck[n] /= 0 => NumberOf(waitAck[n]) = n

InvTracked ==
    /\ up => \A n \in Msg : durable[n] /= 0 <=> n \in Owed
    /\ up => Owed \subseteq Held
    /\ NoResurrection
    /\ \A n \in Msg : waitAck[n] /= 0 => n <= handed
    /\ DeliveryInOrder

\* Outside gc(), the object of an owed message knows where its record is.
InvOffsets ==
    pc \in {"idle", "body"} =>
        \A n \in Owed : LET off == obj[durable[n]].off
                        IN off \in DOMAIN file /\ file[off].n = n

InvGc ==
    /\ Increasing(lst)
    /\ pc = "load" =>
          /\ at <= Len(file) + 1
          /\ Loaded = {file[i].n : i \in {k \in DOMAIN file : k < at /\ file[k].st = "valid"}}
    /\ pc \in {"swap", "removed", "loaded", "relink"} => Loaded = Owed
    /\ pc \in {"swap", "removed"} => Holds(tmp)
    /\ pc \in {"loaded", "relink"} => Holds(file)
    /\ pc = "relink" =>
          /\ at <= Len(lst) + 1
          /\ \A i \in DOMAIN lst : i < at => obj[durable[lst[i].n]].off = i

\* The strengthening of NothingLost, NoResurrection and DeliveryInOrder that every step
\* of the queue preserves (message.hpp, all operations of queue_message).
Inductive ==
    /\ InvHistory /\ InvPhase /\ InvFile /\ InvDisk
    /\ InvObjects /\ InvTracked /\ InvOffsets /\ InvGc

\* What GcAssertion and GarbageBounded need beyond Inductive: once the queue is up,
\* __valid_count counts the messages it owes, and between two operations __total_count
\* counts the records of the file and gc_check() has not been missed.
InvCounts ==
    /\ up => valid_count = Cardinality(Owed)
    /\ pc = "idle" => total_count = Len(file)
    /\ pc = "body" => total_count + 1 = Len(file)
    /\ pc \in {"idle", "body"} => total_count <= GCMin + 2 * valid_count

\* What LeavesOnlyByAck needs when publishers use an id once, whatever fails: every
\* record and object is of a message that was inserted, an entry of __wait_ack_msgs is
\* of the message its id names, and before recovery() nothing is ready.
InvIdentity ==
    /\ \A i \in DOMAIN pub : pub[i].id = i
    /\ \A i \in DOMAIN file : file[i].n \in DOMAIN pub
    /\ \A i \in DOMAIN tmp : tmp[i].n \in DOMAIN pub
    /\ \A i \in DOMAIN lst : lst[i].n \in DOMAIN pub
    /\ \A o \in DOMAIN obj : obj[o].n \in DOMAIN pub
    /\ \A id \in Msg : waitAck[id] /= 0 => NumberOf(waitAck[id]) = id
    /\ ~up => msgs = <<>>

-----------------------------------------------------------------------------
(* Refinement of MessageQueue: while the queue is down or recovering, its ready
   messages are those on the disk. *)

ReadyNow ==
    IF up THEN InMsgs
    ELSE IF pc = "removed" THEN {tmp[i].n : i \in DOMAIN tmp}
    ELSE OnDisk

Promise == INSTANCE MessageQueue WITH
    ready <- ReadyNow,
    unacked <- InWaitAck,
    persistent <- {n \in 1..LastNow : IsDurable(n)},
    last <- LastNow

\* The queue with its file, its crashes and its garbage collection is a MessageQueue.
KeepsPromise == Promise!Spec
=============================================================================
