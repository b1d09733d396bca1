-------------------------- MODULE ThreadPoolProofs --------------------------
(* Theorems about ThreadPool, for every set of threads, every number of tasks and every
   number of spurious wake-ups. *)
EXTENDS ThreadPool, SequenceTheorems, TLAPS

-----------------------------------------------------------------------------
(* Sequences of task numbers. *)

Ascending(s) == \A i, j \in DOMAIN s : i < j => s[i] < s[j]

\* What a thread has run and still has to run.
Taken(w) == ran[w] \o tmp[w]

LEMMA NumbersOfConcat ==
    ASSUME NEW s \in Seq(Nat), NEW t \in Seq(Nat)
    PROVE  Numbers(s \o t) = Numbers(s) \union Numbers(t)
<1>1. /\ s \o t \in Seq(Nat) /\ Len(s) \in Nat /\ Len(t) \in Nat
      /\ DOMAIN s = 1..Len(s) /\ DOMAIN t = 1..Len(t)
      /\ DOMAIN (s \o t) = 1..(Len(s) + Len(t))
      /\ \A i \in 1..(Len(s) + Len(t)) :
           (s \o t)[i] = IF i <= Len(s) THEN s[i] ELSE t[i - Len(s)]
    BY ConcatProperties, LenProperties
<1>2. ASSUME NEW n \in Numbers(s \o t) PROVE n \in Numbers(s) \union Numbers(t)
  <2>1. PICK i \in 1..(Len(s) + Len(t)) : (s \o t)[i] = n
    BY ONLY <1>1, <1>2 DEF Numbers
  <2>2. CASE i <= Len(s)
    BY ONLY <1>1, <2>1, <2>2 DEF Numbers
  <2>3. CASE ~(i <= Len(s))
    <3>1. i - Len(s) \in DOMAIN t /\ n = t[i - Len(s)]
      BY ONLY <1>1, <2>1, <2>3
    <3> QED
      BY ONLY <3>1 DEF Numbers
  <2> QED
    BY ONLY <2>2, <2>3
<1>3. ASSUME NEW n \in Numbers(s) PROVE n \in Numbers(s \o t)
  <2>1. PICK i \in 1..Len(s) : s[i] = n
    BY ONLY <1>1, <1>3 DEF Numbers
  <2>2. i \in DOMAIN (s \o t) /\ (s \o t)[i] = n
    BY ONLY <1>1, <2>1
  <2> QED
    BY ONLY <2>2 DEF Numbers
<1>4. ASSUME NEW n \in Numbers(t) PROVE n \in Numbers(s \o t)
  <2>1. PICK i \in 1..Len(t) : t[i] = n
    BY ONLY <1>1, <1>4 DEF Numbers
  <2>2. Len(s) + i \in DOMAIN (s \o t) /\ (s \o t)[Len(s) + i] = n
    BY ONLY <1>1, <2>1
  <2> QED
    BY ONLY <2>2 DEF Numbers
<1> QED
  BY ONLY <1>2, <1>3, <1>4

LEMMA NumbersOfAppend ==
    ASSUME NEW s \in Seq(Nat), NEW n \in Nat
    PROVE  Append(s, n) \in Seq(Nat) /\ Numbers(Append(s, n)) = Numbers(s) \union {n}
<1>1. Append(s, n) = s \o <<n>> /\ Append(s, n) \in Seq(Nat) /\ <<n>> \in Seq(Nat)
  BY AppendIsConcat, AppendProperties
<1>2. Numbers(<<n>>) = {n}
  BY DEF Numbers
<1> QED
  BY <1>1, <1>2, NumbersOfConcat

LEMMA NumbersOfNothing == Numbers(<<>>) = {}
BY DEF Numbers

LEMMA NumbersAreNaturals ==
    ASSUME NEW s \in Seq(Nat)
    PROVE  Numbers(s) \subseteq Nat
BY LenProperties, ElementOfSeq DEF Numbers

\* The first part of an ascending sequence is ascending.
LEMMA AscendingPart ==
    ASSUME NEW s \in Seq(Nat), NEW t \in Seq(Nat), Ascending(s \o t)
    PROVE  Ascending(s)
<1>1. /\ Len(s) \in Nat /\ Len(t) \in Nat /\ DOMAIN s = 1..Len(s)
      /\ DOMAIN (s \o t) = 1..(Len(s) + Len(t))
      /\ \A i \in 1..(Len(s) + Len(t)) :
           (s \o t)[i] = IF i <= Len(s) THEN s[i] ELSE t[i - Len(s)]
  BY ConcatProperties, LenProperties
<1>2. \A i \in DOMAIN s : i \in DOMAIN (s \o t) /\ (s \o t)[i] = s[i]
  BY ONLY <1>1
<1> QED
  BY ONLY <1>2, Ascending(s \o t) DEF Ascending

\* An ascending sequence goes on with a number above all of its own.
LEMMA AscendingAppend ==
    ASSUME NEW s \in Seq(Nat), NEW n \in Nat, Ascending(s), \A k \in Numbers(s) : k < n
    PROVE  Ascending(Append(s, n))
<1>1. /\ Len(s) \in Nat /\ DOMAIN s = 1..Len(s) /\ DOMAIN Append(s, n) = 1..(Len(s) + 1)
      /\ \A i \in 1..Len(s) : Append(s, n)[i] = s[i]
      /\ Append(s, n)[Len(s) + 1] = n
  BY AppendProperties, LenProperties
<1>2. \A i \in DOMAIN s : s[i] < n
  BY ONLY \A k \in Numbers(s) : k < n DEF Numbers
<1>3. SUFFICES ASSUME NEW i \in 1..(Len(s) + 1), NEW j \in 1..(Len(s) + 1), i < j
               PROVE  Append(s, n)[i] < Append(s, n)[j]
  BY <1>1 DEF Ascending
<1>4. i \in 1..Len(s) /\ (j \in 1..Len(s) \/ j = Len(s) + 1)
  BY ONLY <1>1, <1>3
<1> QED
  BY ONLY <1>1, <1>2, <1>3, <1>4, Ascending(s) DEF Ascending

\* One task moves from the end of the batch to what has been run: the whole is the same.
LEMMA RunIsTaken ==
    ASSUME NEW s \in Seq(Nat), NEW t \in Seq(Nat), t /= <<>>
    PROVE  /\ Append(s, Head(t)) \in Seq(Nat) /\ Tail(t) \in Seq(Nat)
           /\ Append(s, Head(t)) \o Tail(t) = s \o t
<1>1. /\ Head(t) \in Nat /\ Tail(t) \in Seq(Nat) /\ <<Head(t)>> \in Seq(Nat)
      /\ Append(s, Head(t)) \in Seq(Nat)
      /\ Append(s, Head(t)) = s \o <<Head(t)>>
  BY HeadTailProperties, AppendProperties, AppendIsConcat
<1>2. <<Head(t)>> \o Tail(t) = t
  OBVIOUS
<1>3. (s \o <<Head(t)>>) \o Tail(t) = s \o (<<Head(t)>> \o Tail(t))
  BY <1>1, ConcatAssociative
<1> QED
  BY <1>1, <1>2, <1>3

LEMMA ConcatAppend ==
    ASSUME NEW s \in Seq(Nat), NEW t \in Seq(Nat), NEW n \in Nat
    PROVE  s \o Append(t, n) = Append(s \o t, n)
<1>1. <<n>> \in Seq(Nat) /\ Append(t, n) = t \o <<n>> /\ s \o t \in Seq(Nat)
  BY AppendIsConcat, ConcatProperties
<1>2. Append(s \o t, n) = (s \o t) \o <<n>>
  BY <1>1, AppendIsConcat
<1> QED
  BY <1>1, <1>2, ConcatAssociative

-----------------------------------------------------------------------------
(* The invariant, part by part. *)

LEMMA InitInductive ==
    ASSUME Init
    PROVE  Inductive
<1>1. <<>> \in Seq(Nat) /\ Numbers(<<>>) = {} /\ <<>> \o <<>> = <<>> /\ DOMAIN <<>> = {}
  BY EmptySeq, NumbersOfNothing, ConcatEmptySeq, LenProperties
<1>2. TypeInv
  BY <1>1 DEF Init, TypeInv, Places
<1>3. Guarded /\ StillEmpty /\ BatchFinished /\ NoLostTask
  BY DEF Init, Guarded, StillEmpty, BatchFinished, NoLostTask
<1>4. InOrder
  BY <1>1 DEF Init, InOrder
<1>5. Accounted
  <2>1. \A w \in Workers : Numbers(ran[w] \o tmp[w]) = {}
    BY <1>1 DEF Init
  <2>2. Numbers(task_queue) = {} /\ 1..last = {}
    BY <1>1 DEF Init
  <2> QED
    BY <2>1, <2>2 DEF Accounted
<1> QED
  BY <1>2, <1>3, <1>4, <1>5 DEF Inductive

LEMMA StepType ==
    ASSUME TypeInv, [Next]_vars
    PROVE  TypeInv'
<1> USE DEF TypeInv, Places
<1>1. CASE UNCHANGED vars
  BY <1>1 DEF vars
<1>2. ASSUME NEW w \in Workers, Loop(w) \/ Lock(w) \/ Falsified(w) \/ Sleep(w) \/ BatchDone(w)
                                \/ SpuriousWakeup(w)
      PROVE  TypeInv'
  BY <1>2 DEF Loop, Lock, Falsified, Sleep, BatchDone, SpuriousWakeup, Goto
<1>3. ASSUME NEW w \in Workers, Take(w)
      PROVE  TypeInv'
  BY <1>3, EmptySeq DEF Take, Goto
<1>4. ASSUME NEW w \in Workers, RunTask(w)
      PROVE  TypeInv'
  <2>1. Append(ran[w], Head(tmp[w])) \in Seq(Nat) /\ Tail(tmp[w]) \in Seq(Nat)
    BY <1>4, RunIsTaken DEF RunTask
  <2> QED
    BY <1>4, <2>1 DEF RunTask
<1>5. CASE Push
  <2>1. Append(task_queue, last + 1) \in Seq(Nat) /\ last + 1 \in Nat
    BY AppendProperties
  <2>2. pc' \in [Workers -> Places]
    BY <1>5 DEF Push, NotifyOne, Goto, Asleep
  <2> QED
    BY <1>5, <2>1, <2>2 DEF Push
<1>6. CASE StopSet \/ StopNotify \/ StopJoin
  BY <1>6 DEF StopSet, StopNotify, StopJoin
<1> QED
  BY <1>1, <1>2, <1>3, <1>4, <1>5, <1>6 DEF Next, Entry, Stop

\* The mutex keeps a push out from the test of the queue to the sleep (entry, push).
LEMMA StepGuarded ==
    ASSUME TypeInv, Guarded, StillEmpty, BatchFinished, [Next]_vars
    PROVE  Guarded' /\ StillEmpty' /\ BatchFinished'
<1> USE DEF TypeInv, Places, Guarded, StillEmpty, BatchFinished
<1>1. CASE UNCHANGED vars
  BY <1>1 DEF vars
<1>2. ASSUME NEW w \in Workers, Loop(w) \/ BatchDone(w) \/ SpuriousWakeup(w)
      PROVE  Guarded' /\ StillEmpty' /\ BatchFinished'
  BY <1>2 DEF Loop, BatchDone, SpuriousWakeup, Goto
<1>3. ASSUME NEW w \in Workers, Lock(w)
      PROVE  Guarded' /\ StillEmpty' /\ BatchFinished'
  BY <1>3 DEF Lock, Goto
<1>4. ASSUME NEW w \in Workers, Falsified(w) \/ Sleep(w)
      PROVE  Guarded' /\ StillEmpty' /\ BatchFinished'
  BY <1>4 DEF Falsified, Sleep, Goto
<1>5. ASSUME NEW w \in Workers, Take(w)
      PROVE  Guarded' /\ StillEmpty' /\ BatchFinished'
  BY <1>5 DEF Take, Goto
<1>6. ASSUME NEW w \in Workers, RunTask(w)
      PROVE  Guarded' /\ StillEmpty' /\ BatchFinished'
  BY <1>6 DEF RunTask
<1>7. CASE Push
  <2>1. \A w \in Workers : pc[w] \notin {"test", "falsified"}
    BY <1>7 DEF Push
  <2>2. \A w \in Workers : pc'[w] = pc[w] \/ (pc[w] = "asleep" /\ pc'[w] = "lock")
    BY <1>7 DEF Push, NotifyOne, Goto, Asleep
  <2> QED
    BY <1>7, <2>1, <2>2 DEF Push
<1>8. CASE StopSet \/ StopNotify \/ StopJoin
  BY <1>8 DEF StopSet, StopNotify, StopJoin, Asleep
<1> QED
  BY <1>1, <1>2, <1>3, <1>4, <1>5, <1>6, <1>7, <1>8 DEF Next, Entry, Stop

\* A notification always leaves a thread awake (push, entry).
LEMMA StepNoLostTask ==
    ASSUME TypeInv, Guarded, StillEmpty, NoLostTask, [Next]_vars
    PROVE  NoLostTask'
<1> USE DEF TypeInv, Places, NoLostTask
<1>1. CASE UNCHANGED vars
  BY <1>1 DEF vars
<1>2. ASSUME NEW w \in Workers, Loop(w) \/ Lock(w) \/ Falsified(w) \/ BatchDone(w)
                                \/ SpuriousWakeup(w) \/ Take(w) \/ RunTask(w)
      PROVE  NoLostTask'
  <2>1. task_queue' = task_queue \/ task_queue' = <<>>
    BY <1>2 DEF Loop, Lock, Falsified, BatchDone, SpuriousWakeup, Take, RunTask
  <2>2. pc'[w] /= "asleep"
    BY <1>2 DEF Loop, Lock, Falsified, BatchDone, SpuriousWakeup, Take, RunTask, Goto
  <2> QED
    BY <2>2
<1>3. ASSUME NEW w \in Workers, Sleep(w)
      PROVE  NoLostTask'
  BY <1>3 DEF Sleep, StillEmpty
<1>4. CASE Push
  <2>1. CASE Asleep = {}
    BY <1>4, <2>1, ThreadPoolAssumption DEF Push, NotifyOne, Asleep
  <2>2. CASE Asleep /= {}
    <3>1. PICK w \in Asleep : Goto(w, "lock")
      BY <1>4, <2>2 DEF Push, NotifyOne
    <3> QED
      BY <3>1 DEF Goto, Asleep
  <2> QED
    BY <2>1, <2>2
<1>5. CASE StopSet \/ StopNotify \/ StopJoin
  BY <1>5 DEF StopSet, StopNotify, StopJoin, Asleep
<1> QED
  BY <1>1, <1>2, <1>3, <1>4, <1>5 DEF Next, Entry, Stop

\* The two invariants on task numbers, in terms of what each thread has taken.
LEMMA InOrderIs == InOrder <=> \A w \in Workers : Ascending(Taken(w) \o task_queue)
BY DEF InOrder, Ascending, Taken

LEMMA AccountedIs ==
    Accounted <=>
        /\ 1..last = Numbers(task_queue) \union UNION {Numbers(Taken(w)) : w \in Workers}
        /\ \A w \in Workers : Numbers(Taken(w)) \intersect Numbers(task_queue) = {}
        /\ \A v, w \in Workers : v /= w => Numbers(Taken(v)) \intersect Numbers(Taken(w)) = {}
<1> DEFINE Rest(w) == UNION ({Numbers(task_queue)} \union
                               {Numbers(ran[v] \o tmp[v]) : v \in Workers \ {w}})
<1>1. Accounted <=>
        /\ 1..last = Numbers(task_queue) \union UNION {Numbers(Taken(w)) : w \in Workers}
        /\ \A w \in Workers : Numbers(Taken(w)) \intersect Rest(w) = {}
  BY DEF Accounted, Taken
<1>2. \A w \in Workers :
        Rest(w) = Numbers(task_queue) \union UNION {Numbers(Taken(v)) : v \in Workers \ {w}}
  BY DEF Taken
<1>3. \A w \in Workers :
        Numbers(Taken(w)) \intersect Rest(w) = {} <=>
          /\ Numbers(Taken(w)) \intersect Numbers(task_queue) = {}
          /\ \A v \in Workers \ {w} : Numbers(Taken(w)) \intersect Numbers(Taken(v)) = {}
  BY <1>2
<1> HIDE DEF Rest
<1> QED
  BY <1>1, <1>3

\* Steps that move no task.
LEMMA TasksFrame ==
    ASSUME InOrder, Accounted, UNCHANGED <<task_queue, tmp, ran, last>>
    PROVE  InOrder' /\ Accounted'
<1>1. task_queue' = task_queue /\ tmp' = tmp /\ ran' = ran /\ last' = last
  OBVIOUS
<1>2. InOrder'
  BY ONLY <1>1, InOrder DEF InOrder
<1>3. Accounted'
  BY ONLY <1>1, Accounted DEF Accounted
<1> QED
  BY <1>2, <1>3

\* A thread takes the whole queue, having finished its batch.
LEMMA TakeTasks ==
    ASSUME TypeInv, BatchFinished, InOrder, Accounted, NEW w \in Workers, Take(w)
    PROVE  InOrder' /\ Accounted'
<1>1. /\ tmp[w] = <<>> /\ ran' = ran /\ last' = last /\ task_queue' = <<>>
      /\ tmp' = [tmp EXCEPT ![w] = task_queue]
  BY DEF Take, BatchFinished
<1>2. /\ ran[w] \in Seq(Nat) /\ task_queue \in Seq(Nat) /\ <<>> \in Seq(Nat)
      /\ \A v \in Workers : Taken(v) \in Seq(Nat) /\ ran[v] \in Seq(Nat) /\ tmp[v] \in Seq(Nat)
  BY EmptySeq, ConcatProperties DEF TypeInv, Taken
<1>3. Taken(w) = ran[w] /\ Taken(w)' = ran[w] \o task_queue
  BY <1>1, <1>2, ConcatEmptySeq DEF TypeInv, Taken
<1>4. \A v \in Workers \ {w} : Taken(v)' = Taken(v)
  BY <1>1 DEF TypeInv, Taken
<1>5. \A v \in Workers : Taken(v)' \in Seq(Nat) /\ Taken(v)' \o task_queue' = Taken(v)'
  <2>1. Taken(w)' \in Seq(Nat)
    BY <1>2, <1>3, ConcatProperties
  <2>2. \A v \in Workers : Taken(v)' \in Seq(Nat)
    BY <1>2, <1>4, <2>1
  <2> QED
    BY <1>1, <2>2, ConcatEmptySeq
<1>6. InOrder'
  <2>1. \A v \in Workers : Ascending(Taken(v) \o task_queue)
    BY InOrderIs
  <2>2. \A v \in Workers : Ascending(Taken(v)')
    BY <1>2, <1>3, <1>4, <2>1, AscendingPart
  <2>3. \A v \in Workers : Ascending(Taken(v)' \o task_queue')
    BY <1>5, <2>2
  <2>4. InOrder' <=> \A v \in Workers : Ascending(Taken(v)' \o task_queue')
    BY DEF InOrder, Ascending, Taken
  <2> QED
    BY <2>3, <2>4
<1>7. Accounted'
  <2>1. Numbers(Taken(w)') = Numbers(Taken(w)) \union Numbers(task_queue)
    BY <1>2, <1>3, NumbersOfConcat
  <2>2. Numbers(task_queue') = {}
    BY <1>1, NumbersOfNothing
  <2> DEFINE N(v) == Numbers(Taken(v))
             M(v) == Numbers(Taken(v)')
             Q == Numbers(task_queue)
  <2>3. /\ M(w) = N(w) \union Q
        /\ \A v \in Workers \ {w} : M(v) = N(v)
    BY <1>4, <2>1
  <2>4. /\ 1..last = Q \union UNION {N(v) : v \in Workers}
        /\ \A v \in Workers : N(v) \intersect Q = {}
        /\ \A u, v \in Workers : u /= v => N(u) \intersect N(v) = {}
    BY AccountedIs
  <2> HIDE DEF N, M, Q
  <2>5. UNION {M(v) : v \in Workers} = Q \union UNION {N(v) : v \in Workers}
    BY <2>3
  <2>6. \A u, v \in Workers : u /= v => M(u) \intersect M(v) = {}
    BY <2>3, <2>4
  <2> USE DEF N, M, Q
  <2>7. /\ 1..last' = Numbers(task_queue') \union UNION {Numbers(Taken(v)') : v \in Workers}
        /\ \A v \in Workers : Numbers(Taken(v)') \intersect Numbers(task_queue') = {}
        /\ \A u, v \in Workers : u /= v => Numbers(Taken(u)') \intersect Numbers(Taken(v)') = {}
    BY <1>1, <2>2, <2>4, <2>5, <2>6
  <2>8. Numbers(task_queue') = Numbers(task_queue)' /\ \A v \in Workers : Numbers(Taken(v)') = Numbers(Taken(v))'
    BY DEF Numbers
  <2>9. AccountedIs'
    BY ONLY AccountedIs, PTL
  <2> QED
    BY <2>7, <2>8, <2>9
<1> QED
  BY <1>6, <1>7

\* A task begins: what the thread has taken stays the same.
LEMMA RunTasks ==
    ASSUME TypeInv, InOrder, Accounted, NEW w \in Workers, RunTask(w)
    PROVE  InOrder' /\ Accounted'
<1>1. /\ task_queue' = task_queue /\ last' = last /\ tmp[w] /= <<>>
      /\ ran' = [ran EXCEPT ![w] = Append(ran[w], Head(tmp[w]))]
      /\ tmp' = [tmp EXCEPT ![w] = Tail(tmp[w])]
  BY DEF RunTask
<1>2. ran'[w] \o tmp'[w] = ran[w] \o tmp[w]
  BY <1>1, RunIsTaken DEF TypeInv
<1>3. \A v \in Workers : ran'[v] \o tmp'[v] = ran[v] \o tmp[v]
  BY <1>1, <1>2 DEF TypeInv
<1>4. InOrder'
  BY ONLY <1>1, <1>3, InOrder DEF InOrder
<1>5. Accounted'
  <2>1. \A v \in Workers : Numbers(Taken(v))' = Numbers(Taken(v))
    BY <1>3 DEF Taken, Numbers
  <2>2. Numbers(task_queue)' = Numbers(task_queue) /\ last' = last
    BY <1>1
  <2>3. AccountedIs'
    BY ONLY AccountedIs, PTL
  <2> QED
    BY <2>1, <2>2, <2>3, AccountedIs
<1> QED
  BY <1>4, <1>5

\* The pushed task is behind every other and has a number of its own.
LEMMA PushTasks ==
    ASSUME TypeInv, InOrder, Accounted, Push
    PROVE  InOrder' /\ Accounted'
<1>1. /\ ran' = ran /\ tmp' = tmp /\ last' = last + 1
      /\ task_queue' = Append(task_queue, last + 1)
  BY DEF Push
<1>2. /\ last \in Nat /\ last + 1 \in Nat /\ task_queue \in Seq(Nat)
      /\ \A v \in Workers : Taken(v) \in Seq(Nat) /\ Taken(v)' = Taken(v)
  BY <1>1, ConcatProperties DEF TypeInv, Taken
<1>3. /\ 1..last = Numbers(task_queue) \union UNION {Numbers(Taken(v)) : v \in Workers}
      /\ \A v \in Workers : Numbers(Taken(v)) \intersect Numbers(task_queue) = {}
      /\ \A u, v \in Workers : u /= v => Numbers(Taken(u)) \intersect Numbers(Taken(v)) = {}
  BY AccountedIs
<1>4. \A v \in Workers : Numbers(Taken(v)) \subseteq 1..last
  BY <1>3
<1>5. InOrder'
  <2>1. \A v \in Workers : Ascending(Taken(v) \o task_queue)
    BY InOrderIs
  <2>2. ASSUME NEW v \in Workers
        PROVE  Ascending(Taken(v) \o Append(task_queue, last + 1))
    <3>1. Taken(v) \o task_queue \in Seq(Nat)
      BY <1>2, ConcatProperties
    <3>2. Numbers(Taken(v) \o task_queue) \subseteq 1..last
      BY <1>2, <1>3, <1>4, NumbersOfConcat
    <3>3. \A k \in Numbers(Taken(v) \o task_queue) : k < last + 1
      BY <1>2, <3>2
    <3>4. Ascending(Append(Taken(v) \o task_queue, last + 1))
      BY <1>2, <2>1, <3>1, <3>3, AscendingAppend
    <3> QED
      BY <1>2, <3>4, ConcatAppend
  <2>3. InOrderIs'
    BY ONLY InOrderIs, PTL
  <2>4. \A v \in Workers : Ascending(Taken(v)' \o task_queue')
    BY <1>1, <1>2, <2>2
  <2>5. \A v \in Workers : Ascending(Taken(v) \o task_queue)'
    BY ONLY <2>4 DEF Ascending
  <2> QED
    BY <2>3, <2>5
<1>6. Accounted'
  <2>1. Numbers(task_queue') = Numbers(task_queue) \union {last + 1}
    BY <1>1, <1>2, NumbersOfAppend
  <2>2. 1..last' = (1..last) \union {last + 1}
    BY <1>1, <1>2
  <2>3. last + 1 \notin 1..last
    BY <1>2
  <2>4. \A v \in Workers : Numbers(Taken(v)') = Numbers(Taken(v))
    BY <1>2
  <2>5. 1..last' = Numbers(task_queue') \union UNION {Numbers(Taken(v)') : v \in Workers}
    BY <1>3, <2>1, <2>2, <2>4
  <2>6. \A v \in Workers : Numbers(Taken(v)') \intersect Numbers(task_queue') = {}
    BY <1>3, <1>4, <2>1, <2>3, <2>4
  <2>7. \A u, v \in Workers : u /= v => Numbers(Taken(u)') \intersect Numbers(Taken(v)') = {}
    BY <1>3, <2>4
  <2>8. Numbers(task_queue') = Numbers(task_queue)' /\ \A v \in Workers : Numbers(Taken(v)') = Numbers(Taken(v))'
    BY DEF Numbers
  <2>9. AccountedIs'
    BY ONLY AccountedIs, PTL
  <2> QED
    BY <2>5, <2>6, <2>7, <2>8, <2>9
<1> QED
  BY <1>5, <1>6

LEMMA StepInductive ==
    ASSUME Inductive, [Next]_vars
    PROVE  Inductive'
<1>1. TypeInv' /\ Guarded' /\ StillEmpty' /\ BatchFinished' /\ NoLostTask'
  BY StepType, StepGuarded, StepNoLostTask DEF Inductive
<1>2. ASSUME NEW w \in Workers, Take(w) \/ RunTask(w)
      PROVE  InOrder' /\ Accounted'
  BY <1>2, TakeTasks, RunTasks DEF Inductive
<1>3. ASSUME Push
      PROVE  InOrder' /\ Accounted'
  BY <1>3, PushTasks DEF Inductive
<1>4. ASSUME NEW w \in Workers, Loop(w) \/ Lock(w) \/ Falsified(w) \/ Sleep(w) \/ BatchDone(w)
                                \/ SpuriousWakeup(w)
      PROVE  InOrder' /\ Accounted'
  <2>1. UNCHANGED <<task_queue, tmp, ran, last>>
    BY <1>4 DEF Loop, Lock, Falsified, Sleep, BatchDone, SpuriousWakeup
  <2> QED
    BY <2>1, TasksFrame DEF Inductive
<1>5. ASSUME StopSet \/ StopNotify \/ StopJoin \/ UNCHANGED vars
      PROVE  InOrder' /\ Accounted'
  <2>1. UNCHANGED <<task_queue, tmp, ran, last>>
    BY <1>5 DEF StopSet, StopNotify, StopJoin, vars
  <2> QED
    BY <2>1, TasksFrame DEF Inductive
<1>6. InOrder' /\ Accounted'
  BY <1>2, <1>3, <1>4, <1>5 DEF Next, Entry, Stop
<1> QED
  BY <1>1, <1>6 DEF Inductive

LEMMA Invariant == Spec => []Inductive
BY InitInductive, StepInductive, PTL DEF Spec

-----------------------------------------------------------------------------

\* While there are tasks in the queue some thread is awake: push() cannot notify between
\* the test of the queue and the sleep of the last thread, whatever the number of
\* threads and of spurious wake-ups (thread_pool.hpp:60-68, 74-90).
THEOREM NotificationNeverLost == Spec => []NoLostTask
<1>1. Inductive => NoLostTask
  BY DEF Inductive
<1> QED
  BY <1>1, Invariant, PTL

\* A thread runs tasks in the order in which they were pushed, and those it has not
\* taken come after those it has: a pool of one thread keeps the order of the pushes
\* (thread_pool.hpp:74-90: swap() takes the whole queue).
THEOREM TasksInOrder == Spec => []InOrder
<1>1. Inductive => InOrder
  BY DEF Inductive
<1> QED
  BY <1>1, Invariant, PTL

\* No task that was pushed is dropped, and none is run by two threads, stop() or not.
THEOREM TasksRunOnce == Spec => []Accounted
<1>1. Inductive => Accounted
  BY DEF Inductive
<1> QED
  BY <1>1, Invariant, PTL
=============================================================================
