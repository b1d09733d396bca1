----------------------------- MODULE ThreadPool -----------------------------
(***************************************************************************)
(* thread_pool of mqcommon/thread_pool.hpp: a queue of tasks, a mutex, a   *)
(* condition variable and an atomic stop flag.  The broker runs            *)
(* channel::consume on a pool of one thread, the client the callbacks of   *)
(* its subscriptions on another.                                           *)
(*                                                                         *)
(* Tasks are numbered in the order they were pushed.                       *)
(***************************************************************************)
EXTENDS Naturals, Sequences, FiniteSets

CONSTANTS
    Workers,    \* the threads of the pool
    MaxTasks,   \* bound: tasks pushed
    MaxSpurious \* bound: times a thread wakes up without a notification

ASSUME ThreadPoolAssumption ==
    /\ IsFiniteSet(Workers) /\ Workers /= {}
    /\ MaxTasks \in Nat /\ MaxSpurious \in Nat

VARIABLES
    stop_signal,
    task_queue,
    mutex,     \* the thread that holds __mtx_lock, {} if none does
    pc,        \* where each thread is in entry()
    tmp,       \* the tasks each thread has taken
    stopper,   \* where stop() is
    \* history
    last,      \* the number of the last task pushed
    ran,       \* the tasks each thread has started, in order
    spurious

vars == <<stop_signal, task_queue, mutex, pc, tmp, stopper, last, ran, spurious>>

Init ==
    /\ stop_signal = FALSE /\ task_queue = <<>> /\ mutex = {}
    /\ pc = [w \in Workers |-> "loop"] /\ tmp = [w \in Workers |-> <<>>]
    /\ stopper = "idle"
    /\ last = 0 /\ ran = [w \in Workers |-> <<>>] /\ spurious = 0

Goto(w, place) == pc' = [pc EXCEPT ![w] = place]
Asleep == {w \in Workers : pc[w] = "asleep"}

-----------------------------------------------------------------------------
(* entry() *)

\* while (!__stop_signal)
Loop(w) ==
    /\ pc[w] = "loop"
    /\ Goto(w, IF stop_signal THEN "exited" ELSE "lock")
    /\ UNCHANGED <<stop_signal, task_queue, mutex, tmp, stopper, last, ran, spurious>>

\* The mutex is taken, the first time or after a wake-up.
Lock(w) ==
    /\ pc[w] = "lock"
    /\ mutex = {}
    /\ mutex' = {w}
    /\ Goto(w, "test")
    /\ UNCHANGED <<stop_signal, task_queue, tmp, stopper, last, ran, spurious>>

\* Fault: the queue is copied where it should be swapped.
TakeCopy(w) ==
    /\ pc[w] = "test"
    /\ stop_signal \/ task_queue /= <<>>
    /\ tmp' = [tmp EXCEPT ![w] = task_queue] /\ task_queue' = task_queue
    /\ mutex' = {}
    /\ Goto(w, "run")
    /\ UNCHANGED <<stop_signal, stopper, last, ran, spurious>>

\* The predicate of wait() is true: every task is taken at once.
Take(w) ==
    /\ pc[w] = "test"
    /\ stop_signal \/ task_queue /= <<>>
    /\ tmp' = [tmp EXCEPT ![w] = task_queue] /\ task_queue' = <<>>
    /\ mutex' = {}
    /\ Goto(w, "run")
    /\ UNCHANGED <<stop_signal, stopper, last, ran, spurious>>

\* It is false: the thread is about to sleep ...
Falsified(w) ==
    /\ pc[w] = "test"
    /\ ~stop_signal /\ task_queue = <<>>
    /\ Goto(w, "falsified")
    /\ UNCHANGED <<stop_signal, task_queue, mutex, tmp, stopper, last, ran, spurious>>

\* ... and does, which releases the mutex.
Sleep(w) ==
    /\ pc[w] = "falsified"
    /\ mutex' = {}
    /\ Goto(w, "asleep")
    /\ UNCHANGED <<stop_signal, task_queue, tmp, stopper, last, ran, spurious>>

SpuriousWakeup(w) ==
    /\ pc[w] = "asleep"
    /\ spurious < MaxSpurious
    /\ spurious' = spurious + 1
    /\ Goto(w, "lock")
    /\ UNCHANGED <<stop_signal, task_queue, mutex, tmp, stopper, last, ran>>

RunTask(w) ==
    /\ pc[w] = "run"
    /\ tmp[w] /= <<>>
    /\ ran' = [ran EXCEPT ![w] = Append(@, Head(tmp[w]))]
    /\ tmp' = [tmp EXCEPT ![w] = Tail(@)]
    /\ UNCHANGED <<stop_signal, task_queue, mutex, pc, stopper, last, spurious>>

BatchDone(w) ==
    /\ pc[w] = "run"
    /\ tmp[w] = <<>>
    /\ Goto(w, "loop")
    /\ UNCHANGED <<stop_signal, task_queue, mutex, tmp, stopper, last, ran, spurious>>

-----------------------------------------------------------------------------
(* push() and stop(), called by threads outside the pool *)

\* Fault: push() does not notify.
NotifyNone ==
    UNCHANGED pc

\* notify_one(): one sleeping thread goes for the mutex.
NotifyOne ==
    IF Asleep = {} THEN UNCHANGED pc ELSE \E w \in Asleep : Goto(w, "lock")

\* Fault: push_front instead of push_back.
PushInFront ==
    /\ last < MaxTasks
    /\ mutex = {}
    /\ last' = last + 1
    /\ task_queue' = <<last + 1>> \o task_queue
    /\ NotifyOne
    /\ UNCHANGED <<stop_signal, mutex, tmp, stopper, ran, spurious>>

\* push() appends and notifies with the mutex held.
Push ==
    /\ last < MaxTasks
    /\ mutex = {}
    /\ last' = last + 1
    /\ task_queue' = Append(task_queue, last + 1)
    /\ NotifyOne
    /\ UNCHANGED <<stop_signal, mutex, tmp, stopper, ran, spurious>>

\* stop() sets the flag without the mutex ...
StopSet ==
    /\ stopper = "idle"
    /\ ~stop_signal
    /\ stop_signal' = TRUE
    /\ stopper' = "notify"
    /\ UNCHANGED <<task_queue, mutex, pc, tmp, last, ran, spurious>>

\* ... notifies every sleeping thread ...
StopNotify ==
    /\ stopper = "notify"
    /\ pc' = [w \in Workers |-> IF w \in Asleep THEN "lock" ELSE pc[w]]
    /\ stopper' = "join"
    /\ UNCHANGED <<stop_signal, task_queue, mutex, tmp, last, ran, spurious>>

\* ... and returns when all of them have exited.
StopJoin ==
    /\ stopper = "join"
    /\ \A w \in Workers : pc[w] = "exited"
    /\ stopper' = "returned"
    /\ UNCHANGED <<stop_signal, task_queue, mutex, pc, tmp, last, ran, spurious>>

-----------------------------------------------------------------------------

Entry(w) == Loop(w) \/ Lock(w) \/ Take(w) \/ Falsified(w) \/ Sleep(w) \/ RunTask(w) \/ BatchDone(w)
Stop == StopNotify \/ StopJoin

Next ==
    \/ \E w \in Workers : Entry(w) \/ SpuriousWakeup(w)
    \/ Push
    \/ StopSet
    \/ Stop

Spec == Init /\ [][Next]_vars

\* The operating system runs every thread, and no thread waits forever for a mutex that
\* is released again and again.  Nobody has to push a task or to stop the pool.
Fairness == (\A w \in Workers : WF_vars(Entry(w)) /\ SF_vars(Lock(w))) /\ WF_vars(Stop)

FairSpec == Spec /\ Fairness

-----------------------------------------------------------------------------
(* Properties *)

\* push and entry: a notification is never lost between the test of the queue and the
\* sleep, so a task in the queue always has a thread that will look at the queue.
NoLostTask == task_queue /= <<>> => \E w \in Workers : pc[w] /= "asleep"

Numbers(s) == {s[i] : i \in DOMAIN s}

\* A thread runs tasks in the order of the pushes, whatever it had in its batch and is
\* still in the queue: a pool of one thread, as both programs have, keeps that order
\* (entry: swap() takes the whole queue).
InOrder ==
    \A w \in Workers : LET s == ran[w] \o tmp[w] \o task_queue
                       IN \A i, j \in DOMAIN s : i < j => s[i] < s[j]

\* Every task pushed is in one place, so that none is dropped and no two threads run the
\* same (entry swaps the queue under the mutex, push appends under it).
Accounted ==
    /\ 1..last = Numbers(task_queue) \union UNION {Numbers(ran[w] \o tmp[w]) : w \in Workers}
    /\ \A w \in Workers :
         Numbers(ran[w] \o tmp[w]) \intersect
             UNION ({Numbers(task_queue)} \union {Numbers(ran[v] \o tmp[v]) : v \in Workers \ {w}}) = {}

\* A pushed task is run, unless the pool is stopped (push, entry).
TasksRun ==
    \A n \in 1..MaxTasks :
        last >= n ~> stop_signal \/ \E w \in Workers : n \in Numbers(ran[w])

\* The comment at thread_pool.hpp:48: stop() waits for the threads, and they exit.
StopReturns == stopper = "join" ~> stopper = "returned"

-----------------------------------------------------------------------------
(* The inductive invariant behind NoLostTask, InOrder and Accounted. *)

Places == {"loop", "lock", "test", "falsified", "asleep", "run", "exited"}

TypeInv ==
    /\ stop_signal \in BOOLEAN
    /\ task_queue \in Seq(Nat)
    /\ mutex \in SUBSET Workers
    /\ pc \in [Workers -> Places]
    /\ tmp \in [Workers -> Seq(Nat)] /\ ran \in [Workers -> Seq(Nat)]
    /\ last \in Nat

\* A thread that tests the predicate, or has found it false, holds the mutex ...
Guarded == \A w \in Workers : pc[w] \in {"test", "falsified"} => mutex = {w}

\* ... so that nothing is pushed between its test of the queue and its sleep.
StillEmpty == (\E w \in Workers : pc[w] = "falsified") => task_queue = <<>>

\* A thread has finished its batch when it comes back for the next one.
BatchFinished == \A w \in Workers : pc[w] /= "run" => tmp[w] = <<>>

Inductive ==
    /\ TypeInv /\ Guarded /\ StillEmpty /\ BatchFinished
    /\ NoLostTask /\ InOrder /\ Accounted
=============================================================================
