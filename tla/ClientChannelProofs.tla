------------------------ MODULE ClientChannelProofs ------------------------
(* Theorems about ClientChannel, for any number of requests, tags and messages, whether the
   caller closes the channel, the callback acknowledges and the connection is lost. *)
EXTENDS ClientChannel, SequenceTheorems, TLAPS

-----------------------------------------------------------------------------
(* The inductive invariant *)

Answer == [id : Nat, ok : BOOLEAN, of : {"common", "query", "none"}]
Chosen == [n : 1..MaxMsgs, tag : 1..MaxTags]
Task == [n : 1..MaxMsgs, tag : 1..MaxTags, known : BOOLEAN]
Pushed == [kind : {"answer"}, answer : Answer] \union [kind : {"message"}, n : 1..MaxMsgs, tag : 1..MaxTags]
Asked == [call : Calls \union {"ack"}, id : Nat, n : Nat]

\* The types of the variables, whatever their values have to do with each other.
Types ==
    /\ alive \in BOOLEAN /\ connected \in BOOLEAN /\ latch \in BOOLEAN /\ conn \in BOOLEAN
    /\ caller \in [pc : {"connecting", "ready", "waiting", "dropped"},
                   call : Calls \union {"none", "drop"}, id : Nat, n : Nat]
    /\ worker \in [pc : {"ready", "callback", "waiting"}, call : {"none"}, id : Nat, n : Nat]
    /\ sent \in Nat /\ sent <= MaxCalls + 1
    /\ registered \in BOOLEAN /\ consumer \in 0..MaxTags
    /\ answers \subseteq Answer /\ tasks \in Seq(Task)
    /\ toBroker \in Seq(Asked) /\ toClient \in Seq(Pushed)
    /\ opened \in BOOLEAN /\ subscribed \in 0..MaxTags /\ taken \in 0..MaxTags /\ pending \in Answer
    /\ outgoing \in Seq(Chosen)
    /\ last \in 0..MaxMsgs /\ ended \in 0..last /\ missed \subseteq 1..MaxMsgs
    /\ called \in Seq(1..MaxMsgs) /\ acked \in Seq(1..MaxMsgs)

IsAnswer(m) == m.kind = "answer"
IsMessage(m) == m.kind = "message"

\* Where requests and answers are between a send and the return of its thread.
RequestIds(s) == {s[i].id : i \in DOMAIN s}
AnswersIn(s) == {s[i].answer : i \in {k \in DOMAIN s : IsAnswer(s[k])}}
Coming == AnswersIn(toClient)
Owing == {pending} \ {NoAnswer}
Answers == answers \union Owing \union Coming

Awaits(id) ==
    \/ caller.pc = "waiting" /\ id = caller.id
    \/ worker.pc = "waiting" /\ id = worker.id

\* Nothing has happened on a channel that is not open.
Fresh ==
    caller.pc = "connecting" =>
        /\ sent = 0 /\ worker.pc = "ready" /\ consumer = 0 /\ subscribed = 0 /\ taken = 0
        /\ tasks = <<>> /\ outgoing = <<>> /\ toBroker = <<>> /\ toClient = <<>>
        /\ answers = {} /\ pending = NoAnswer

\* The threads that wait have ids of their own; the destructor's channel is not registered,
\* the one being opened is, and only who is not subscribed subscribes, with a tag.
Threads ==
    /\ caller.pc = "waiting" =>
         /\ caller.id \in 1..sent /\ caller.call /= "none"
         /\ caller.call = "drop" => ~registered
         /\ caller.call = "open" => registered
         /\ caller.call = "consume" => consumer = 0 /\ caller.n \in 1..MaxTags
    /\ caller.pc = "dropped" => ~registered
    /\ worker.pc = "waiting" => worker.id \in 1..sent
    /\ caller.pc = "waiting" /\ worker.pc = "waiting" => caller.id /= worker.id

\* What a call is on the wire.
WireCall(call) == IF call = "drop" THEN "cancel" ELSE call

\* A request on the wire is that of a thread that waits for its answer.
RequestsAwaited ==
    \A i \in DOMAIN toBroker :
        IF toBroker[i].call = "ack"
        THEN worker.pc = "waiting" /\ toBroker[i].id = worker.id /\ toBroker[i].n = worker.n
        ELSE caller.pc = "waiting" /\ toBroker[i].id = caller.id
                                  /\ toBroker[i].call = WireCall(caller.call) /\ toBroker[i].n = caller.n

OneRequestEach(s) == \A i, j \in DOMAIN s : s[i].id = s[j].id => i = j
OneAnswerEach(s) ==
    \A i, j \in DOMAIN s : IsAnswer(s[i]) /\ IsAnswer(s[j]) /\ s[i].answer.id = s[j].answer.id => i = j

\* An id is on its way to the broker, owed, on its way back or filed, but not twice.
OnePlace ==
    /\ OneRequestEach(toBroker) /\ OneAnswerEach(toClient)
    /\ \A a, b \in answers : a.id = b.id => a = b
    /\ \A a \in Answers : a.id \notin RequestIds(toBroker)
    /\ \A a \in Owing, b \in answers \union Coming : a.id /= b.id
    /\ \A a \in Coming, b \in answers : a.id /= b.id

AnswersKnown == \A a \in Answers : Awaits(a.id) /\ a.of \in {"common", "query"}

\* The consumer the client still has: the broker's, or the one that others have taken.
Says == IF subscribed /= 0 THEN subscribed ELSE taken

\* What the caller's answer says of the subscription, when it has been given and while
\* it is on its way.
Agreed ==
    connected /\ registered =>
        /\ caller.pc = "ready" => consumer = Says
        /\ caller.pc = "waiting" /\ caller.id \in RequestIds(toBroker) => consumer = Says
        /\ caller.pc = "waiting" =>
             \A a \in Answers : a.id = caller.id =>
                 /\ caller.call = "consume" => (IF a.ok THEN caller.n ELSE 0) = Says
                 /\ caller.call = "cancel" => Says = 0
                 /\ caller.call \in {"open", "declare", "delete", "query"} => consumer = Says

\* A channel that the broker has is known to the client, and the subscriptions of one that
\* it has not are over, with every message whose channel the client does not find.
Ended ==
    /\ opened => registered /\ connected
    /\ subscribed /= 0 => opened
    /\ ~opened => ended = last
    /\ ~connected => toBroker = <<>>
    /\ caller.pc = "waiting" /\ caller.call = "close" => \A a \in Answers : a.id = caller.id => ~opened
    /\ \A i \in DOMAIN tasks : ~tasks[i].known => tasks[i].n <= ended

\* The caller's request to an open channel is somewhere, and so is its answer; a message
\* of a subscription that has not ended has the tag of the consumer the client has.
Live ==
    /\ opened /\ caller.pc = "waiting" =>
          caller.id \in RequestIds(toBroker) \/ \E a \in Answers : a.id = caller.id
    /\ \A i \in DOMAIN tasks : tasks[i].n > ended => tasks[i].tag = Says
    /\ \A i \in DOMAIN toClient : IsMessage(toClient[i]) /\ toClient[i].n > ended => toClient[i].tag = Says
    /\ \A i \in DOMAIN outgoing : outgoing[i].n > ended => outgoing[i].tag = Says

Rising(s) == \A i, j \in DOMAIN s : i < j => s[i] < s[j]
Below(s, n) == \A i \in DOMAIN s : s[i] < n

\* The messages of a sequence of records.
Numbers(s) == [i \in 1..Len(s) |-> s[i].n]

\* Messages go through outgoing, toClient and the tasks to the callback in the order in
\* which they were chosen.
Ordered ==
    /\ Rising(called) /\ Rising(Numbers(tasks)) /\ Rising(Numbers(outgoing))
    /\ Below(called, last + 1) /\ Below(Numbers(tasks), last + 1) /\ Below(Numbers(outgoing), last + 1)
    /\ \A i \in DOMAIN tasks : Below(called, tasks[i].n)
    /\ \A i \in DOMAIN outgoing : Below(called, outgoing[i].n) /\ Below(Numbers(tasks), outgoing[i].n)
    /\ \A i \in DOMAIN toClient : IsMessage(toClient[i]) =>
         /\ toClient[i].n <= last
         /\ Below(called, toClient[i].n) /\ Below(Numbers(tasks), toClient[i].n)
         /\ \A j \in DOMAIN toClient : IsMessage(toClient[j]) /\ i < j => toClient[i].n < toClient[j].n
         /\ \A k \in DOMAIN outgoing : toClient[i].n < outgoing[k].n

\* The callback that runs is that of the last message, and its acknowledgement the last.
Acknowledged ==
    /\ Rising(acked)
    /\ \A i \in DOMAIN acked : Contains(called, acked[i])
    /\ worker.pc /= "ready" => Contains(called, worker.n)
    /\ worker.pc = "callback" => Below(acked, worker.n)
    /\ \A i \in DOMAIN toBroker : toBroker[i].call = "ack" => Below(acked, worker.n)

Inductive ==
    /\ Types /\ Fresh /\ Threads /\ RequestsAwaited /\ OnePlace /\ AnswersKnown
    /\ Agreed /\ Ended /\ Live /\ Ordered /\ Acknowledged

-----------------------------------------------------------------------------
(* What Append, Tail and a prefix do to requests and answers on the wire *)

\* A request that is sent is one more id on the wire.
LEMMA RequestSent ==
    ASSUME NEW s \in Seq(Asked), NEW m \in Asked
    PROVE  /\ RequestIds(Append(s, m)) = RequestIds(s) \union {m.id}
           /\ OneRequestEach(s) /\ m.id \notin RequestIds(s) => OneRequestEach(Append(s, m))
<1>1. /\ Append(s, m) \in Seq(Asked) /\ Len(Append(s, m)) = Len(s) + 1
      /\ \A i \in DOMAIN s : i \in DOMAIN Append(s, m) /\ Append(s, m)[i] = s[i]
      /\ Append(s, m)[Len(s) + 1] = m
      /\ \A i \in DOMAIN Append(s, m) : i \in DOMAIN s \/ i = Len(s) + 1
      /\ Len(s) + 1 \in DOMAIN Append(s, m)
  OBVIOUS
<1>2. RequestIds(Append(s, m)) = RequestIds(s) \union {m.id}
  BY <1>1 DEF RequestIds
<1>3. OneRequestEach(s) /\ m.id \notin RequestIds(s) => OneRequestEach(Append(s, m))
  BY <1>1 DEF RequestIds, OneRequestEach
<1> QED BY <1>2, <1>3

\* A request that is handled leaves the others on the wire.
LEMMA RequestHandled ==
    ASSUME NEW s \in Seq(Asked), s /= <<>>, OneRequestEach(s)
    PROVE  /\ Head(s) \in Asked /\ Tail(s) \in Seq(Asked)
           /\ 1 \in DOMAIN s /\ Head(s) = s[1]
           /\ Head(s).id \in RequestIds(s)
           /\ RequestIds(Tail(s)) = RequestIds(s) \ {Head(s).id}
           /\ OneRequestEach(Tail(s))
           /\ \A i \in DOMAIN Tail(s) : i + 1 \in DOMAIN s /\ Tail(s)[i] = s[i + 1]
<1>1. /\ Head(s) \in Asked /\ Tail(s) \in Seq(Asked) /\ Len(s) \in Nat /\ Len(s) > 0
      /\ 1 \in DOMAIN s /\ Head(s) = s[1]
      /\ \A i \in DOMAIN Tail(s) : i \in Nat /\ i + 1 \in DOMAIN s /\ Tail(s)[i] = s[i + 1] /\ i + 1 /= 1
      /\ \A i \in DOMAIN s : i = 1 \/ (i - 1 \in DOMAIN Tail(s) /\ Tail(s)[i - 1] = s[i])
  OBVIOUS
<1>2. Head(s).id \in RequestIds(s)
  BY <1>1 DEF RequestIds
<1>3. RequestIds(Tail(s)) = RequestIds(s) \ {Head(s).id}
  <2>1. ASSUME NEW x \in RequestIds(Tail(s)) PROVE x \in RequestIds(s) \ {Head(s).id}
    BY <1>1 DEF RequestIds, OneRequestEach
  <2>2. ASSUME NEW x \in RequestIds(s), x /= Head(s).id PROVE x \in RequestIds(Tail(s))
    <3>1. PICK i \in DOMAIN s : x = s[i].id
      BY DEF RequestIds
    <3>2. i - 1 \in DOMAIN Tail(s) /\ Tail(s)[i - 1].id = x
      BY <1>1, <2>2, <3>1
    <3> QED BY <3>2 DEF RequestIds
  <2> QED BY <2>1, <2>2
<1>4. OneRequestEach(Tail(s))
  BY <1>1 DEF OneRequestEach
<1> QED BY <1>1, <1>2, <1>3, <1>4

\* What the broker sends is behind everything on its way.
LEMMA Sending ==
    ASSUME NEW s \in Seq(Pushed), NEW m \in Pushed
    PROVE  /\ Append(s, m) \in Seq(Pushed)
           /\ \A i \in DOMAIN s : i \in DOMAIN Append(s, m) /\ Append(s, m)[i] = s[i] /\ i < Len(s) + 1
           /\ Append(s, m)[Len(s) + 1] = m
           /\ \A i \in DOMAIN Append(s, m) : i \in DOMAIN s \/ i = Len(s) + 1
           /\ AnswersIn(Append(s, m)) = AnswersIn(s) \union (IF IsAnswer(m) THEN {m.answer} ELSE {})
           /\ OneAnswerEach(s) /\ (IsAnswer(m) => \A a \in AnswersIn(s) : a.id /= m.answer.id)
                => OneAnswerEach(Append(s, m))
<1>1. /\ Append(s, m) \in Seq(Pushed) /\ Len(Append(s, m)) = Len(s) + 1 /\ Len(s) \in Nat
      /\ \A i \in DOMAIN s : i \in DOMAIN Append(s, m) /\ Append(s, m)[i] = s[i] /\ i < Len(s) + 1
      /\ Append(s, m)[Len(s) + 1] = m
      /\ \A i \in DOMAIN Append(s, m) : i \in DOMAIN s \/ i = Len(s) + 1
      /\ Len(s) + 1 \in DOMAIN Append(s, m)
  OBVIOUS
<1>2. AnswersIn(Append(s, m)) = AnswersIn(s) \union (IF IsAnswer(m) THEN {m.answer} ELSE {})
  BY <1>1 DEF AnswersIn
<1>3. OneAnswerEach(s) /\ (IsAnswer(m) => \A a \in AnswersIn(s) : a.id /= m.answer.id)
          => OneAnswerEach(Append(s, m))
  BY <1>1 DEF AnswersIn, OneAnswerEach
<1> QED BY <1>1, <1>2, <1>3

\* What the client reads was in front of everything on its way.
LEMMA Reading ==
    ASSUME NEW s \in Seq(Pushed), s /= <<>>, OneAnswerEach(s)
    PROVE  /\ Head(s) \in Pushed /\ Tail(s) \in Seq(Pushed)
           /\ 1 \in DOMAIN s /\ Head(s) = s[1]
           /\ \A i \in DOMAIN Tail(s) : i \in Nat /\ i + 1 \in DOMAIN s /\ Tail(s)[i] = s[i + 1] /\ 1 < i + 1
           /\ AnswersIn(s) = AnswersIn(Tail(s)) \union (IF IsAnswer(Head(s)) THEN {Head(s).answer} ELSE {})
           /\ IsAnswer(Head(s)) => \A a \in AnswersIn(Tail(s)) : a.id /= Head(s).answer.id
           /\ OneAnswerEach(Tail(s))
<1>1. /\ Head(s) \in Pushed /\ Tail(s) \in Seq(Pushed) /\ Len(s) \in Nat /\ Len(s) > 0
      /\ 1 \in DOMAIN s /\ Head(s) = s[1]
      /\ \A i \in DOMAIN Tail(s) : i \in Nat /\ i + 1 \in DOMAIN s /\ Tail(s)[i] = s[i + 1] /\ 1 < i + 1
      /\ \A i \in DOMAIN s : i = 1 \/ (i - 1 \in DOMAIN Tail(s) /\ Tail(s)[i - 1] = s[i])
  OBVIOUS
<1>2. AnswersIn(s) = AnswersIn(Tail(s)) \union (IF IsAnswer(Head(s)) THEN {Head(s).answer} ELSE {})
  BY <1>1 DEF AnswersIn
<1>3. IsAnswer(Head(s)) => \A a \in AnswersIn(Tail(s)) : a.id /= Head(s).answer.id
  BY <1>1 DEF AnswersIn, OneAnswerEach
<1>4. OneAnswerEach(Tail(s))
  BY <1>1 DEF OneAnswerEach
<1> QED BY <1>1, <1>2, <1>3, <1>4

\* Losing the connection leaves the front of what is on its way.
LEMMA LosingTheRest ==
    ASSUME NEW s \in Seq(Pushed), NEW n \in 0..Len(s)
    PROVE  /\ SubSeq(s, 1, n) \in Seq(Pushed)
           /\ \A i \in DOMAIN SubSeq(s, 1, n) : i \in DOMAIN s /\ SubSeq(s, 1, n)[i] = s[i]
           /\ AnswersIn(SubSeq(s, 1, n)) \subseteq AnswersIn(s)
           /\ OneAnswerEach(s) => OneAnswerEach(SubSeq(s, 1, n))
<1>1. /\ SubSeq(s, 1, n) \in Seq(Pushed)
      /\ \A i \in DOMAIN SubSeq(s, 1, n) : i \in DOMAIN s /\ SubSeq(s, 1, n)[i] = s[i]
  OBVIOUS
<1>2. AnswersIn(SubSeq(s, 1, n)) \subseteq AnswersIn(s)
  BY <1>1 DEF AnswersIn
<1>3. OneAnswerEach(s) => OneAnswerEach(SubSeq(s, 1, n))
  BY <1>1 DEF OneAnswerEach
<1> QED BY <1>1, <1>2, <1>3

LEMMA NumbersAreNat == \A s \in Seq(1..MaxMsgs) : s \in Seq(Nat)
<1>1. 1..MaxMsgs \subseteq Nat
  BY ClientAssumption
<1> QED BY <1>1, SeqMonotonic

\* The messages of tasks, or of what the pool has left to send.
LEMMA NumbersIn ==
    ASSUME NEW S, \A r \in S : r.n \in 1..MaxMsgs, NEW s \in Seq(S)
    PROVE  /\ Len(s) \in Nat /\ DOMAIN s = 1..Len(s) /\ \A i \in 1..Len(s) : s[i] \in S /\ s[i].n \in 1..MaxMsgs
           /\ Numbers(s) \in Seq(1..MaxMsgs) /\ Numbers(s) \in Seq(Nat)
           /\ Len(Numbers(s)) = Len(s) /\ DOMAIN Numbers(s) = DOMAIN s
           /\ \A i \in 1..Len(s) : Numbers(s)[i] = s[i].n
<1>1. Len(s) \in Nat /\ DOMAIN s = 1..Len(s) /\ \A i \in 1..Len(s) : s[i] \in S /\ s[i].n \in 1..MaxMsgs
  OBVIOUS
<1>2. Numbers(s) \in Seq(1..MaxMsgs) /\ Len(Numbers(s)) = Len(s) /\ \A i \in 1..Len(s) : Numbers(s)[i] = s[i].n
  BY <1>1 DEF Numbers
<1>3. Numbers(s) \in Seq(Nat) /\ DOMAIN Numbers(s) = DOMAIN s
  BY <1>1, <1>2, NumbersAreNat
<1> QED BY <1>1, <1>2, <1>3

LEMMA NumbersOf ==
    ASSUME NEW S, \A r \in S : r.n \in 1..MaxMsgs, NEW s \in Seq(S)
    PROVE  /\ Numbers(s) \in Seq(1..MaxMsgs) /\ Numbers(s) \in Seq(Nat)
           /\ DOMAIN Numbers(s) = DOMAIN s /\ \A i \in DOMAIN s : Numbers(s)[i] = s[i].n /\ s[i].n \in Nat
           /\ \A r \in S : Numbers(Append(s, r)) = Append(Numbers(s), r.n)
           /\ s /= <<>> => /\ Numbers(s) /= <<>> /\ Head(Numbers(s)) = Head(s).n
                           /\ Numbers(Tail(s)) = Tail(Numbers(s))
<1>1. Len(s) \in Nat /\ DOMAIN s = 1..Len(s) /\ \A i \in 1..Len(s) : s[i] \in S /\ s[i].n \in 1..MaxMsgs
  BY NumbersIn
<1>2. Numbers(s) \in Seq(1..MaxMsgs) /\ Len(Numbers(s)) = Len(s) /\ \A i \in 1..Len(s) : Numbers(s)[i] = s[i].n
  BY NumbersIn
<1>3. Numbers(s) \in Seq(Nat) /\ DOMAIN Numbers(s) = DOMAIN s
  BY NumbersIn
<1>4. ASSUME NEW r \in S PROVE Numbers(Append(s, r)) = Append(Numbers(s), r.n)
  <2>1. Append(s, r) \in Seq(S) /\ Len(Append(s, r)) = Len(s) + 1
        /\ \A i \in 1..(Len(s) + 1) : Append(s, r)[i] = IF i <= Len(s) THEN s[i] ELSE r
    BY <1>1
  <2>2. Append(Numbers(s), r.n) = [i \in 1..(Len(s) + 1) |-> IF i <= Len(s) THEN Numbers(s)[i] ELSE r.n]
    BY <1>1, <1>2
  <2> QED BY <1>1, <1>2, <2>1, <2>2 DEF Numbers
<1>5. ASSUME s /= <<>>
      PROVE  Numbers(s) /= <<>> /\ Head(Numbers(s)) = Head(s).n /\ Numbers(Tail(s)) = Tail(Numbers(s))
  <2>1. Len(s) > 0 /\ Head(s) = s[1]
    BY <1>1, <1>5
  <2>2. Len(Numbers(s)) > 0 /\ 1 \in 1..Len(s)
    BY <1>1, <1>2, <2>1
  <2>3. Numbers(s) /= <<>>
    BY <1>3, <2>2
  <2>4. Head(Numbers(s)) = Head(s).n
    <3>1. Head(Numbers(s)) = Numbers(s)[1]
      BY <1>3, <2>3
    <3> QED BY <1>2, <2>1, <2>2, <3>1
  <2>5. /\ Tail(s) \in Seq(S) /\ Len(Tail(s)) = Len(s) - 1
        /\ \A i \in 1..(Len(s) - 1) : Tail(s)[i] = s[i + 1]
    BY <1>5, HeadTailProperties
  <2>6. /\ Tail(Numbers(s)) \in Seq(Nat) /\ Len(Tail(Numbers(s))) = Len(s) - 1
        /\ \A i \in 1..(Len(s) - 1) : Tail(Numbers(s))[i] = Numbers(s)[i + 1]
    BY <1>2, <1>3, <2>3, HeadTailProperties
  <2>7. \A i \in 1..(Len(s) - 1) : i + 1 \in 1..Len(s)
    BY <1>1
  <2>8. /\ Numbers(Tail(s)) \in Seq(Nat) /\ Len(Numbers(Tail(s))) = Len(s) - 1
        /\ \A i \in 1..(Len(s) - 1) : Numbers(Tail(s))[i] = Tail(s)[i].n
    BY <2>5, NumbersIn
  <2>9. \A i \in 1..(Len(s) - 1) : Numbers(Tail(s))[i] = Tail(Numbers(s))[i]
    BY <1>2, <2>5, <2>6, <2>7, <2>8
  <2> QED BY <2>3, <2>4, <2>6, <2>8, <2>9, SeqEqual
<1> QED BY <1>1, <1>2, <1>3, <1>4, <1>5

\* What a sequence of messages that rises is when one larger comes last or the first goes.
LEMMA RisingGrows ==
    ASSUME NEW s \in Seq(Nat), NEW n \in Nat, Rising(s), Below(s, n)
    PROVE  /\ Rising(Append(s, n))
           /\ \A k \in Nat : n < k => Below(Append(s, n), k)
<1>1. /\ Len(s) \in Nat
      /\ \A i \in DOMAIN s : Append(s, n)[i] = s[i] /\ i \in 1..Len(s) /\ s[i] \in Nat
      /\ Append(s, n)[Len(s) + 1] = n
      /\ \A i \in DOMAIN Append(s, n) : i \in DOMAIN s \/ i = Len(s) + 1
  OBVIOUS
<1>2. Rising(Append(s, n))
  BY <1>1 DEF Rising, Below
<1>3. \A k \in Nat : n < k => Below(Append(s, n), k)
  BY <1>1 DEF Below
<1> QED BY <1>2, <1>3

LEMMA RisingShrinks ==
    ASSUME NEW s \in Seq(Nat), Rising(s), s /= <<>>
    PROVE  /\ Rising(Tail(s)) /\ \A i \in DOMAIN Tail(s) : Head(s) < Tail(s)[i]
           /\ \A k \in Nat : Below(s, k) => Below(Tail(s), k) /\ Head(s) < k
           /\ \A i \in DOMAIN Tail(s) : i + 1 \in DOMAIN s /\ Tail(s)[i] = s[i + 1]
           /\ Head(s) = s[1] /\ 1 \in DOMAIN s
<1>1. /\ Len(s) \in Nat /\ Len(s) > 0 /\ Head(s) = s[1] /\ 1 \in DOMAIN s
      /\ \A i \in DOMAIN Tail(s) : i \in Nat /\ i > 0 /\ i + 1 \in DOMAIN s /\ Tail(s)[i] = s[i + 1]
  OBVIOUS
<1> QED BY <1>1 DEF Rising, Below

LEMMA TasksAndOutgoing ==
    ASSUME Types
    PROVE  /\ tasks \in Seq(Task) /\ \A r \in Task : r.n \in 1..MaxMsgs
           /\ outgoing \in Seq(Chosen) /\ \A r \in Chosen : r.n \in 1..MaxMsgs
           /\ last \in Nat /\ ended \in Nat /\ ended <= last
BY ClientAssumption DEF Types, Task, Chosen

-----------------------------------------------------------------------------
(* Each step keeps the invariant *)

\* A message on its way to the client has a number.
LEMMA ComingNumbered ==
    ASSUME Types, NEW i \in DOMAIN toClient, IsMessage(toClient[i])
    PROVE  toClient[i].n \in Nat
<1>1. toClient[i] \in Pushed
  BY DEF Types
<1>2. toClient[i].kind /= "answer"
  BY DEF IsMessage
<1>3. toClient[i].n \in 1..MaxMsgs
  BY <1>1, <1>2 DEF Pushed
<1> QED BY <1>3, ClientAssumption

LEMMA InitiallyInductive == Init => Inductive
<1> SUFFICES ASSUME Init PROVE Inductive
  OBVIOUS
<1> USE DEF Init, Ready, NoAnswer
<1>1. Types
  <2>1. caller = [pc |-> "connecting", call |-> "none", id |-> 0, n |-> 0]
        /\ worker = [pc |-> "ready", call |-> "none", id |-> 0, n |-> 0]
    OBVIOUS
  <2>2. /\ caller \in [pc : {"connecting", "ready", "waiting", "dropped"},
                        call : Calls \union {"none", "drop"}, id : Nat, n : Nat]
        /\ worker \in [pc : {"ready", "callback", "waiting"}, call : {"none"}, id : Nat, n : Nat]
    BY <2>1
  <2>3. /\ pending \in Answer /\ last \in 0..MaxMsgs /\ ended \in 0..last /\ sent <= MaxCalls + 1
        /\ consumer \in 0..MaxTags /\ subscribed \in 0..MaxTags /\ taken \in 0..MaxTags
    BY ClientAssumption DEF Answer
  <2>4. /\ tasks \in Seq(Task) /\ outgoing \in Seq(Chosen) /\ called \in Seq(1..MaxMsgs) /\ acked \in Seq(1..MaxMsgs)
        /\ toBroker \in Seq(Asked) /\ toClient \in Seq(Pushed)
        /\ answers \subseteq Answer /\ missed \subseteq 1..MaxMsgs
    OBVIOUS
  <2>5. /\ alive \in BOOLEAN /\ connected \in BOOLEAN /\ latch \in BOOLEAN /\ conn \in BOOLEAN
        /\ registered \in BOOLEAN /\ sent \in Nat /\ opened \in BOOLEAN
    OBVIOUS
  <2> QED BY ONLY <2>2, <2>3, <2>4, <2>5 DEF Types
<1>2. Answers = {} /\ RequestIds(toBroker) = {}
  BY DEF Answers, Owing, Coming, AnswersIn, RequestIds
<1>3. Fresh /\ Threads /\ RequestsAwaited
  BY DEF Fresh, Threads, RequestsAwaited
<1>4. OnePlace /\ AnswersKnown /\ Agreed /\ Ended /\ Live
  BY <1>2 DEF OnePlace, AnswersKnown, Agreed, Says, Ended, Live, OneRequestEach, OneAnswerEach,
              Owing, Coming, AnswersIn
<1>5. Ordered /\ Acknowledged
  BY ClientAssumption DEF Ordered, Acknowledged, Rising, Below, Numbers
<1> QED BY <1>1, <1>3, <1>4, <1>5 DEF Inductive

\* Nothing the invariant is about, except that the process may die.
LEMMA QuietStep ==
    ASSUME Inductive, CountDown \/ SetConnection \/ ConsumeUnknown \/ CallbackFreed \/ UNCHANGED vars
    PROVE  Inductive'
<1>1. /\ UNCHANGED <<sent, registered, consumer, answers, tasks, caller, worker, wire, broker, called, missed, connected>>
      /\ alive' \in BOOLEAN /\ latch' \in BOOLEAN /\ conn' \in BOOLEAN
  BY DEF CountDown, SetConnection, ConsumeUnknown, CallbackFreed, client, vars, Inductive, Types
<1> USE <1>1 DEF wire, broker, Inductive
<1>2. Types'
  BY DEF Types
<1>3. Fresh' /\ Threads' /\ RequestsAwaited'
  BY DEF Fresh, Threads, RequestsAwaited
<1>4. OnePlace' /\ AnswersKnown'
  BY DEF OnePlace, AnswersKnown, Awaits, Answers, Owing, Coming
<1>5. Agreed' /\ Ended' /\ Live'
  BY DEF Agreed, Says, Ended, Live, Answers, Owing, Coming
<1>6. Ordered' /\ Acknowledged'
  BY DEF Ordered, Acknowledged
<1> QED BY <1>2, <1>3, <1>4, <1>5, <1>6

\* The next id is nobody's.
LEMMA NextIdIsNew ==
    ASSUME Inductive
    PROVE  /\ sent + 1 \notin RequestIds(toBroker)
           /\ \A a \in Answers : a.id /= sent + 1
           /\ caller.pc = "waiting" => caller.id /= sent + 1
           /\ worker.pc = "waiting" => worker.id /= sent + 1
<1>1. sent \in Nat /\ caller.id \in Nat /\ worker.id \in Nat
  BY DEF Inductive, Types
<1>2. /\ caller.pc = "waiting" => caller.id /= sent + 1
      /\ worker.pc = "waiting" => worker.id /= sent + 1
  BY <1>1 DEF Inductive, Threads
<1>3. \A a \in Answers : a.id /= sent + 1
  BY <1>2 DEF Inductive, AnswersKnown, Awaits
<1>4. sent + 1 \notin RequestIds(toBroker)
  BY <1>2 DEF Inductive, RequestsAwaited, RequestIds
<1> QED BY <1>2, <1>3, <1>4

\* A request with the next id goes behind the others, if it goes anywhere.
LEMMA RequestGoes ==
    ASSUME Inductive, NEW m \in Asked, m.id = sent + 1, toBroker' = Sent(m)
    PROVE  /\ toBroker' \in Seq(Asked) /\ OneRequestEach(toBroker')
           /\ RequestIds(toBroker') \subseteq RequestIds(toBroker) \union {sent + 1}
           /\ connected => RequestIds(toBroker') = RequestIds(toBroker) \union {sent + 1}
           /\ ~connected => toBroker' = toBroker
           /\ \A i \in DOMAIN toBroker' :
                 toBroker'[i] = m \/ (i \in DOMAIN toBroker /\ toBroker'[i] = toBroker[i])
<1>1. toBroker \in Seq(Asked) /\ OneRequestEach(toBroker) /\ sent + 1 \notin RequestIds(toBroker)
  BY NextIdIsNew DEF Inductive, Types, OnePlace
<1>2. CASE ~connected
  BY <1>1, <1>2 DEF Sent
<1>3. CASE connected
  <2>1. toBroker' = Append(toBroker, m)
    BY <1>3 DEF Sent
  <2>2. /\ toBroker' \in Seq(Asked)
        /\ \A i \in DOMAIN toBroker' :
              toBroker'[i] = m \/ (i \in DOMAIN toBroker /\ toBroker'[i] = toBroker[i])
    BY <1>1, <2>1
  <2>3. /\ RequestIds(Append(toBroker, m)) = RequestIds(toBroker) \union {m.id}
        /\ OneRequestEach(Append(toBroker, m))
    BY <1>1, RequestSent
  <2> QED BY <1>3, <2>1, <2>2, <2>3
<1> QED BY <1>2, <1>3

\* Sending a request leaves what the invariant says of answers and messages alone.
LEMMA AskingKeeps ==
    ASSUME Inductive, NEW m \in Asked, m.id = sent + 1, toBroker' = Sent(m),
           UNCHANGED <<answers, toClient, pending>>
    PROVE  OnePlace' /\ Answers' = Answers
<1>1. Answers' = Answers /\ Coming' = Coming /\ Owing' = Owing
  BY DEF Answers, Coming, Owing
<1>2. /\ OneRequestEach(toBroker')
      /\ \A a \in Answers : a.id \notin RequestIds(toBroker')
  BY RequestGoes, NextIdIsNew DEF Inductive, OnePlace
<1> QED BY <1>1, <1>2 DEF Inductive, OnePlace

LEMMA OpenChannelStep ==
    ASSUME Inductive, OpenChannel
    PROVE  Inductive'
<1> USE DEF OpenChannel, wire, broker
<1>1. CASE ~conn
  <2>1. UNCHANGED <<sent, toBroker, toClient, caller, worker, answers, pending, connected, latch, conn,
                    consumer, tasks, opened, subscribed, outgoing, taken, ended, last, acked, called, missed>>
        /\ caller.pc = "connecting" /\ alive' \in BOOLEAN /\ registered' = TRUE
    BY <1>1 DEF Inductive, Types
  <2> HIDE DEF OpenChannel
  <2>2. Types' /\ Fresh' /\ Threads' /\ RequestsAwaited'
    BY <2>1 DEF Inductive, Types, Fresh, Threads, RequestsAwaited
  <2>3. OnePlace' /\ AnswersKnown'
    BY <2>1 DEF Inductive, OnePlace, AnswersKnown, Awaits, Answers, Owing, Coming
  <2>4. Agreed' /\ Ended' /\ Live'
    BY <2>1 DEF Inductive, Agreed, Says, Ended, Live, Fresh, IsMessage
  <2>5. Ordered' /\ Acknowledged'
    BY <2>1 DEF Inductive, Ordered, Acknowledged
  <2> QED BY <2>2, <2>3, <2>4, <2>5 DEF Inductive
<1>2. CASE conn
  <2> DEFINE m == [call |-> "open", id |-> sent + 1, n |-> 0]
  <2>1. /\ UNCHANGED <<toClient, worker, answers, pending, connected, latch, conn,
                       consumer, tasks, opened, subscribed, outgoing, taken, ended, last, acked, called, missed>>
        /\ alive' \in BOOLEAN /\ registered' = TRUE /\ sent = 0 /\ sent' = 1
        /\ toBroker' = Sent(m)
        /\ caller' = [pc |-> "waiting", call |-> "open", id |-> sent + 1, n |-> 0]
        /\ worker.pc = "ready" /\ consumer = 0 /\ subscribed = 0 /\ taken = 0
        /\ tasks = <<>> /\ outgoing = <<>> /\ toBroker = <<>> /\ toClient = <<>>
        /\ answers = {} /\ pending = NoAnswer
    BY <1>2 DEF Inductive, Types, Fresh
  <2>2. m \in Asked /\ m.id = sent + 1
    BY <2>1 DEF Asked, Calls
  <2> HIDE DEF OpenChannel
  <2>3. OnePlace' /\ Answers' = Answers
    BY <2>1, <2>2, AskingKeeps
  <2>4. /\ toBroker' \in Seq(Asked)
        /\ \A i \in DOMAIN toBroker' : toBroker'[i] = m
        /\ connected => RequestIds(toBroker') = RequestIds(toBroker) \union {sent + 1}
        /\ ~connected => toBroker' = toBroker
    BY <2>1, <2>2, RequestGoes
  <2>5. Types'
    BY <2>1, <2>4, ClientAssumption DEF Inductive, Types, Calls
  <2>6. Fresh' /\ Threads'
    BY <2>1 DEF Fresh, Threads
  <2>7. RequestsAwaited'
    BY <2>1, <2>4 DEF RequestsAwaited, WireCall
  <2>8. AnswersKnown' /\ Agreed' /\ Ended' /\ Live'
    <3>1. Answers = {}
      BY <2>1 DEF Answers, Owing, Coming, AnswersIn
    <3>2. AnswersKnown' /\ Agreed'
      BY <2>1, <2>3, <3>1 DEF AnswersKnown, Agreed, Says
    <3>3. Ended'
      BY <2>1, <2>3, <2>4, <3>1 DEF Inductive, Ended
    <3>4. Live'
      BY <2>1, <2>3, <2>4, <3>1 DEF Inductive, Ended, Live
    <3> QED BY <3>2, <3>3, <3>4
  <2>9. Ordered' /\ Acknowledged'
    BY <2>1, <2>4 DEF Inductive, Ordered, Acknowledged
  <2> QED BY <2>3, <2>5, <2>6, <2>7, <2>8, <2>9 DEF Inductive
<1> QED BY <1>1, <1>2

\* The caller sends a request, in a call or in the destructor.
LEMMA CallerAsks ==
    ASSUME Inductive, NEW call \in (Calls \ {"open"}) \union {"drop"},
           NEW tag \in Nat, caller.pc = "ready", sent < MaxCalls,
           call = "drop" => ~registered,
           call = "consume" => consumer = 0 /\ tag \in 1..MaxTags,
           sent' = sent + 1,
           toBroker' = Sent([call |-> WireCall(call), id |-> sent + 1, n |-> tag]),
           caller' = [pc |-> "waiting", call |-> call, id |-> sent + 1, n |-> tag],
           UNCHANGED <<alive, connected, latch, conn, registered, consumer, answers, tasks, worker,
                       toClient, broker, called, missed>>
    PROVE  Inductive'
<1> DEFINE m == [call |-> WireCall(call), id |-> sent + 1, n |-> tag]
<1>1. m \in Asked /\ m.id = sent + 1 /\ m.n = tag /\ m.call = WireCall(call) /\ m.call /= "ack" /\ toBroker' = Sent(m)
  BY DEF Asked, WireCall, Calls, Inductive, Types
<1>2. /\ caller'.pc = "waiting" /\ caller'.call = call /\ caller'.id = sent + 1 /\ caller'.n = tag
      /\ caller' \in [pc : {"connecting", "ready", "waiting", "dropped"},
                      call : Calls \union {"none", "drop"}, id : Nat, n : Nat]
      /\ call /= "none" /\ call /= "open" /\ sent \in Nat
  BY DEF Inductive, Types, Calls
<1> HIDE DEF m
<1>3. OnePlace' /\ Answers' = Answers
  BY <1>1, AskingKeeps DEF broker
<1>4. /\ toBroker' \in Seq(Asked)
      /\ \A i \in DOMAIN toBroker' :
            toBroker'[i] = m \/ (i \in DOMAIN toBroker /\ toBroker'[i] = toBroker[i])
      /\ connected => RequestIds(toBroker') = RequestIds(toBroker) \union {sent + 1}
      /\ ~connected => toBroker' = toBroker
  BY <1>1, RequestGoes
<1>5. Types'
  BY <1>2, <1>4, ClientAssumption DEF Inductive, Types, broker
<1>6. Fresh' /\ Threads'
  BY <1>2, NextIdIsNew DEF Inductive, Fresh, Threads
<1>7. RequestsAwaited'
  BY <1>1, <1>2, <1>4 DEF Inductive, RequestsAwaited
<1>8. AnswersKnown'
  BY <1>2, <1>3 DEF Inductive, AnswersKnown, Awaits
<1>9. Agreed'
  BY <1>2, <1>3, NextIdIsNew DEF Inductive, Agreed, Says, broker
<1>10. Ended' /\ Live'
  <2>1. Ended'
    BY <1>2, <1>3, <1>4, NextIdIsNew DEF Inductive, Ended, broker
  <2>2. Live'
    BY <1>2, <1>3, <1>4 DEF Inductive, Ended, Live, Says, broker
  <2> QED BY <2>1, <2>2
<1>11. Ordered'
  BY DEF Inductive, Ordered, broker
<1>12. Acknowledged'
  BY <1>1, <1>4 DEF Inductive, Acknowledged, broker
<1> QED BY <1>3, <1>5, <1>6, <1>7, <1>8, <1>9, <1>10, <1>11, <1>12 DEF Inductive

LEMMA CallStep ==
    ASSUME Inductive, NEW call \in Calls \ {"open"}, NEW tag \in 0..MaxTags, Call(call, tag)
    PROVE  Inductive'
<1>1. WireCall(call) = call /\ call /= "drop" /\ tag \in Nat
  BY ClientAssumption DEF WireCall, Calls
<1>2. call = "consume" => tag \in 1..MaxTags
  BY DEF Call
<1> QED BY <1>1, <1>2, CallerAsks DEF Call, Request

LEMMA DropStep ==
    ASSUME Inductive, Drop
    PROVE  Inductive'
<1>1. CASE consumer /= 0
  <2>1. WireCall("drop") = "cancel"
    BY DEF WireCall
  <2> QED BY <1>1, <2>1, CallerAsks DEF Drop, Request
<1>2. CASE consumer = 0
  <2>1. /\ UNCHANGED <<alive, connected, latch, conn, registered, consumer, answers, tasks, worker, sent,
                       wire, broker, called, missed>>
        /\ caller.pc = "ready" /\ ~registered
        /\ caller' = [Ready EXCEPT !.pc = "dropped"]
    BY <1>2 DEF Drop, wire
  <2>2. /\ caller'.pc = "dropped"
        /\ caller' \in [pc : {"connecting", "ready", "waiting", "dropped"},
                        call : Calls \union {"none", "drop"}, id : Nat, n : Nat]
    BY <2>1 DEF Ready
  <2> USE <2>1, <2>2 DEF wire, broker
  <2>3. Types'
    BY DEF Inductive, Types
  <2>4. Fresh' /\ Threads' /\ RequestsAwaited'
    BY DEF Inductive, Fresh, Threads, RequestsAwaited
  <2>5. Answers' = Answers /\ Coming' = Coming /\ Owing' = Owing
    BY DEF Answers, Coming, Owing
  <2>6. OnePlace' /\ AnswersKnown'
    BY <2>5 DEF Inductive, OnePlace, AnswersKnown, Awaits
  <2>7. Agreed' /\ Ended' /\ Live'
    BY <2>5 DEF Inductive, Agreed, Says, Ended, Live
  <2>8. Ordered' /\ Acknowledged'
    BY DEF Inductive, Ordered, Acknowledged
  <2> QED BY <2>3, <2>4, <2>6, <2>7, <2>8 DEF Inductive
<1> QED BY <1>1, <1>2

\* An answer that is read was the only thing that its id was on.
LEMMA AnswerRead ==
    ASSUME Inductive, NEW a \in answers, answers' = answers \ {a}, UNCHANGED <<wire, pending>>
    PROVE  /\ OnePlace' /\ Answers' \subseteq Answers
           /\ \A b \in Answers' : b.id /= a.id
           /\ Answers \subseteq Answers' \union {a} /\ a \in Answers
           /\ a.id \notin RequestIds(toBroker)
<1>1. Coming' = Coming /\ Owing' = Owing
  BY DEF Coming, Owing, wire
<1>2. Answers' \subseteq Answers /\ a \in Answers /\ Answers \subseteq Answers' \union {a}
  BY <1>1 DEF Answers
<1>3. \A b \in Answers' : b.id /= a.id
  BY <1>1 DEF Answers, Inductive, OnePlace
<1>4. OnePlace'
  BY <1>1, <1>2 DEF Inductive, OnePlace, wire
<1> QED BY <1>2, <1>3, <1>4 DEF Inductive, OnePlace

LEMMA ReturnStep ==
    ASSUME Inductive, Return
    PROVE  Inductive'
<1>1. PICK a \in answers :
         /\ a.id = caller.id /\ a.of = MapOf(caller.call)
         /\ answers' = answers \ {a}
         /\ consumer' = CASE caller.call = "consume" -> IF a.ok THEN caller.n ELSE 0
                          [] caller.call \in {"cancel", "drop"} -> 0
                          [] OTHER -> consumer
  BY DEF Return
<1>2. /\ caller.pc = "waiting" /\ registered' = (registered /\ caller.call /= "close")
      /\ caller' = [Ready EXCEPT !.pc = IF caller.call = "drop" THEN "dropped" ELSE "ready"]
      /\ UNCHANGED <<alive, connected, latch, conn, sent, tasks, worker, wire, broker, called, missed, pending>>
  BY DEF Return, broker
<1>3. /\ caller'.pc = IF caller.call = "drop" THEN "dropped" ELSE "ready"
      /\ caller' \in [pc : {"connecting", "ready", "waiting", "dropped"},
                      call : Calls \union {"none", "drop"}, id : Nat, n : Nat]
  BY <1>2 DEF Ready
<1>4. /\ OnePlace' /\ Answers' \subseteq Answers
      /\ \A b \in Answers' : b.id /= caller.id
      /\ caller.id \notin RequestIds(toBroker)
  BY <1>1, <1>2, AnswerRead
<1>5. a \in Answers /\ a \in Answer
  BY DEF Answers, Inductive, Types
<1>6. consumer' \in 0..MaxTags
  <2>1. caller.call = "consume" => caller.n \in 0..MaxTags
    BY <1>2, ClientAssumption DEF Inductive, Threads
  <2>2. consumer \in 0..MaxTags /\ 0 \in 0..MaxTags
    BY ClientAssumption DEF Inductive, Types
  <2> QED BY <1>1, <2>1, <2>2
<1>7. Types'
  BY <1>1, <1>2, <1>3, <1>6 DEF Inductive, Types, wire, broker
<1>8. Fresh' /\ Threads'
  BY <1>2, <1>3 DEF Inductive, Fresh, Threads
<1>9. RequestsAwaited'
  <2>1. \A i \in DOMAIN toBroker : toBroker[i].call = "ack"
    BY <1>4 DEF Inductive, RequestsAwaited, RequestIds
  <2> QED BY <1>2, <2>1 DEF Inductive, RequestsAwaited, wire
<1>10. AnswersKnown'
  BY <1>2, <1>4 DEF Inductive, AnswersKnown, Awaits
<1>11. Agreed'
  <2> SUFFICES ASSUME connected, registered' PROVE caller'.pc = "ready" => consumer' = Says
    BY <1>2, <1>3 DEF Agreed, Says, broker
  <2>1. registered /\ caller.call \in {"open", "declare", "delete", "query", "consume", "cancel"}
    BY <1>2 DEF Inductive, Types, Threads, Calls
  <2>2. /\ caller.call = "consume" => (IF a.ok THEN caller.n ELSE 0) = Says
        /\ caller.call = "cancel" => Says = 0
        /\ caller.call \in {"open", "declare", "delete", "query"} => consumer = Says
    BY <1>1, <1>2, <1>5, <2>1 DEF Inductive, Agreed
  <2> QED BY <1>1, <2>1, <2>2
<1>12. Ended' /\ Live'
  <2>1. caller.call = "close" => ~opened
    BY <1>1, <1>2, <1>5 DEF Inductive, Ended
  <2>2. Ended'
    BY <1>2, <1>3, <2>1 DEF Inductive, Ended, wire, broker
  <2>3. Live'
    BY <1>2, <1>3 DEF Inductive, Live, Says, wire, broker
  <2> QED BY <2>2, <2>3
<1>13. Ordered' /\ Acknowledged'
  BY <1>2 DEF Inductive, Ordered, Acknowledged, wire, broker
<1> QED BY <1>4, <1>7, <1>8, <1>9, <1>10, <1>11, <1>12, <1>13 DEF Inductive

LEMMA ReceiveStep ==
    ASSUME Inductive, Receive
    PROVE  Inductive'
<1> DEFINE m == Head(toClient)
<1>1. /\ toClient /= <<>> /\ toClient' = Tail(toClient)
      /\ answers' = IF m.kind = "answer" /\ registered THEN answers \union {m.answer} ELSE answers
      /\ tasks' = IF m.kind = "message" THEN Append(tasks, [n |-> m.n, tag |-> m.tag, known |-> registered]) ELSE tasks
      /\ UNCHANGED <<alive, connected, latch, conn, sent, registered, consumer, caller, worker, toBroker,
                     broker, called, missed>>
  BY DEF Receive
<1>2. /\ toClient \in Seq(Pushed) /\ OneAnswerEach(toClient) /\ tasks \in Seq(Task) /\ last \in Nat
      /\ ended \in Nat /\ \A r \in Task : r.n \in 1..MaxMsgs
  BY TasksAndOutgoing DEF Inductive, Types, OnePlace
<1>3. /\ m \in Pushed /\ Tail(toClient) \in Seq(Pushed)
      /\ 1 \in DOMAIN toClient /\ m = toClient[1]
      /\ \A i \in DOMAIN Tail(toClient) :
           i \in Nat /\ i + 1 \in DOMAIN toClient /\ Tail(toClient)[i] = toClient[i + 1] /\ 1 < i + 1
      /\ Coming = AnswersIn(Tail(toClient)) \union (IF IsAnswer(m) THEN {m.answer} ELSE {})
      /\ IsAnswer(m) => \A a \in AnswersIn(Tail(toClient)) : a.id /= m.answer.id
      /\ OneAnswerEach(Tail(toClient))
  BY <1>1, <1>2, Reading DEF Coming
<1>4. /\ IsAnswer(m) => m.answer \in Answer /\ ~IsMessage(m)
      /\ IsMessage(m) => m.n \in 1..MaxMsgs /\ m.tag \in 1..MaxTags /\ ~IsAnswer(m)
      /\ IsAnswer(m) \/ IsMessage(m)
  BY <1>3 DEF Pushed, IsAnswer, IsMessage
<1> HIDE DEF m
<1>5. /\ Coming' = AnswersIn(Tail(toClient)) /\ Owing' = Owing
      /\ Coming' \subseteq Coming
      /\ IsAnswer(m) => m.answer \in Coming /\ \A a \in Coming' : a.id /= m.answer.id
      /\ answers' \subseteq answers \union (IF IsAnswer(m) THEN {m.answer} ELSE {})
  BY <1>1, <1>3 DEF Coming, Owing, IsAnswer, broker
<1>6. Answers' \subseteq Answers
  BY <1>5 DEF Answers
<1> DEFINE r == [n |-> m.n, tag |-> m.tag, known |-> registered]
<1>15. IsMessage(m) => /\ r \in Task /\ tasks' = Append(tasks, r)
                       /\ r.n = m.n /\ r.tag = m.tag /\ r.known = registered
  BY <1>1, <1>4 DEF IsMessage, Task, Inductive, Types
<1>16. ~IsMessage(m) => tasks' = tasks
  BY <1>1 DEF IsMessage
<1> HIDE DEF r
<1>17. /\ tasks' \in Seq(Task)
       /\ \A i \in DOMAIN tasks' :
             (i \in DOMAIN tasks /\ tasks'[i] = tasks[i]) \/ (IsMessage(m) /\ tasks'[i] = r)
  <2>1. CASE IsMessage(m)
    <3>1. tasks' = Append(tasks, r) /\ r \in Task /\ tasks \in Seq(Task)
      BY <1>2, <1>15, <2>1
    <3>2. /\ Append(tasks, r) \in Seq(Task)
          /\ \A i \in DOMAIN Append(tasks, r) :
                (i \in DOMAIN tasks /\ Append(tasks, r)[i] = tasks[i]) \/ Append(tasks, r)[i] = r
      BY ONLY <3>1
    <3> QED BY <2>1, <3>1, <3>2
  <2>2. CASE ~IsMessage(m)
    BY <1>2, <1>16, <2>2
  <2> QED BY <2>1, <2>2
<1>7. Types'
  <2>1. answers' \subseteq Answer
    BY <1>4, <1>5 DEF Inductive, Types
  <2>2. tasks' \in Seq(Task)
    BY <1>17
  <2> QED BY <1>1, <1>3, <2>1, <2>2 DEF Inductive, Types, broker
<1>8. Fresh' /\ Threads' /\ RequestsAwaited'
  BY <1>1 DEF Inductive, Fresh, Threads, RequestsAwaited, broker
<1>9. OnePlace'
  <2>1. \A a, b \in answers' : a.id = b.id => a = b
    BY <1>5 DEF Inductive, OnePlace
  <2>2. \A a \in Owing', b \in answers' \union Coming' : a.id /= b.id
    BY <1>5 DEF Inductive, OnePlace
  <2>3. \A a \in Coming', b \in answers' : a.id /= b.id
    BY <1>5 DEF Inductive, OnePlace
  <2> QED BY <1>1, <1>3, <1>6, <2>1, <2>2, <2>3 DEF Inductive, OnePlace
<1>10. AnswersKnown'
  BY <1>1, <1>6 DEF Inductive, AnswersKnown, Awaits
<1>11. Agreed'
  BY <1>1, <1>6 DEF Inductive, Agreed, Says, broker
<1>18. IsMessage(m) => m.n \in Nat /\ m.n <= last
  BY <1>3, <1>4 DEF Inductive, Ordered
<1>12. Ended' /\ Live'
  <2>1. \A i \in DOMAIN tasks' : ~tasks'[i].known => tasks'[i].n <= ended
    BY <1>15, <1>17, <1>18 DEF Inductive, Ended
  <2>2. Ended'
    BY <1>1, <1>6, <2>1 DEF Inductive, Ended, broker
  <2>3. ASSUME opened, caller.pc = "waiting"
        PROVE  caller.id \in RequestIds(toBroker) \/ \E a \in Answers' : a.id = caller.id
    <3>1. \A a \in Answers : a \in Answers'
      <4>1. registered
        BY <2>3 DEF Inductive, Ended
      <4>2. IsAnswer(m) => m.answer \in answers'
        BY <1>1, <4>1 DEF IsAnswer
      <4>3. Coming \subseteq Coming' \union answers' /\ answers \subseteq answers'
        BY <1>1, <1>3, <1>5, <4>2
      <4> QED BY <1>5, <4>3 DEF Answers
    <3> QED BY <2>3, <3>1 DEF Inductive, Live
  <2>4. \A i \in DOMAIN tasks' : tasks'[i].n > ended => tasks'[i].tag = Says
    <3>1. IsMessage(m) /\ m.n > ended => m.tag = Says
      BY <1>3 DEF Inductive, Live
    <3> QED BY <1>15, <1>17, <3>1 DEF Inductive, Live
  <2>5. \A i \in DOMAIN toClient' :
           IsMessage(toClient'[i]) /\ toClient'[i].n > ended => toClient'[i].tag = Says
    BY <1>1, <1>3 DEF Inductive, Live
  <2>6. \A i \in DOMAIN outgoing : outgoing[i].n > ended => outgoing[i].tag = Says
    BY DEF Inductive, Live
  <2> QED BY <1>1, <2>2, <2>3, <2>4, <2>5, <2>6 DEF Live, Says, broker
<1>13. Ordered'
  <2> DEFINE Behind(i) ==
         /\ toClient'[i].n <= last
         /\ Below(called, toClient'[i].n) /\ Below(Numbers(tasks), toClient'[i].n)
         /\ \A j \in DOMAIN toClient' : IsMessage(toClient'[j]) /\ i < j => toClient'[i].n < toClient'[j].n
         /\ \A k \in DOMAIN outgoing : toClient'[i].n < outgoing[k].n
  <2>1. ASSUME NEW i \in DOMAIN toClient', IsMessage(toClient'[i]) PROVE Behind(i) /\ toClient'[i].n \in Nat
    <3>1. toClient'[i] = toClient[i + 1] /\ i + 1 \in DOMAIN toClient
      BY <1>1, <1>3
    <3>2. toClient'[i].n \in Nat
      BY <1>1, <1>2, <2>1, <3>1 DEF Pushed, IsMessage
    <3>3. \A j \in DOMAIN toClient' : i < j => i + 1 < j + 1
      BY <1>1, <1>3
    <3>4. /\ toClient[i + 1].n <= last
          /\ Below(called, toClient[i + 1].n) /\ Below(Numbers(tasks), toClient[i + 1].n)
          /\ \A j \in DOMAIN toClient : IsMessage(toClient[j]) /\ i + 1 < j => toClient[i + 1].n < toClient[j].n
          /\ \A k \in DOMAIN outgoing : toClient[i + 1].n < outgoing[k].n
      BY <2>1, <3>1 DEF Inductive, Ordered
    <3> QED BY <1>1, <1>3, <3>1, <3>2, <3>3, <3>4
  <2>2. CASE IsAnswer(m)
    <3>1. tasks' = tasks
      BY <1>4, <1>16, <2>2
    <3> QED BY <1>1, <2>1, <3>1 DEF Inductive, Ordered, broker
  <2>3. CASE IsMessage(m)
    <3>1. /\ m.n \in Nat /\ m.n <= last /\ Below(called, m.n) /\ Below(Numbers(tasks), m.n)
          /\ \A j \in DOMAIN toClient : IsMessage(toClient[j]) /\ 1 < j => m.n < toClient[j].n
          /\ \A k \in DOMAIN outgoing : m.n < outgoing[k].n
      BY <1>3, <1>18, <2>3 DEF Inductive, Ordered
    <3>2. Numbers(tasks') = Append(Numbers(tasks), m.n) /\ Numbers(tasks) \in Seq(Nat) /\ Rising(Numbers(tasks))
      <4>1. Numbers(Append(tasks, r)) = Append(Numbers(tasks), r.n) /\ Numbers(tasks) \in Seq(Nat)
        BY <1>2, <1>15, <2>3, NumbersOf
      <4> QED BY <1>15, <2>3, <4>1 DEF Inductive, Ordered
    <3>3. Rising(Numbers(tasks')) /\ \A k \in Nat : m.n < k => Below(Numbers(tasks'), k)
      BY <3>1, <3>2, RisingGrows
    <3>4. \A i \in DOMAIN tasks' : Below(called, tasks'[i].n)
      BY <1>15, <1>17, <2>3, <3>1 DEF Inductive, Ordered
    <3>5. ASSUME NEW i \in DOMAIN toClient', IsMessage(toClient'[i]) PROVE m.n < toClient'[i].n
      BY <1>1, <1>3, <3>1, <3>5
    <3>6. Below(Numbers(tasks'), last + 1)
      BY <1>2, <3>1, <3>3
    <3>7. \A i \in DOMAIN outgoing : outgoing[i].n \in Nat /\ Below(Numbers(tasks'), outgoing[i].n)
      BY <3>1, <3>3, TasksAndOutgoing, NumbersOf DEF Inductive
    <3>8. UNCHANGED <<called, outgoing, last>>
      BY <1>1 DEF broker
    <3>9. /\ Rising(called) /\ Rising(Numbers(outgoing)) /\ Below(called, last + 1) /\ Below(Numbers(outgoing), last + 1)
          /\ \A i \in DOMAIN outgoing : Below(called, outgoing[i].n)
      BY DEF Inductive, Ordered
    <3>10. \A i \in DOMAIN toClient' : IsMessage(toClient'[i]) => Below(Numbers(tasks'), toClient'[i].n)
      BY <2>1, <3>3, <3>5
    <3> QED BY <2>1, <3>3, <3>4, <3>6, <3>7, <3>8, <3>9, <3>10 DEF Ordered
  <2> QED BY <1>4, <2>2, <2>3
<1>14. Acknowledged'
  BY <1>1 DEF Inductive, Acknowledged, broker
<1> QED BY <1>7, <1>8, <1>9, <1>10, <1>11, <1>12, <1>13, <1>14 DEF Inductive

LEMMA ConsumeStep ==
    ASSUME Inductive, Consume
    PROVE  Inductive'
<1> DEFINE n == Head(tasks).n
<1> DEFINE N == Numbers(tasks)
<1>1. /\ tasks /= <<>> /\ tasks' = Tail(tasks) /\ worker.pc = "ready"
      /\ UNCHANGED <<alive, connected, latch, conn, sent, registered, consumer, answers, caller, wire, broker>>
      /\ \/ /\ called' = Append(called, n)
            /\ worker' = [Ready EXCEPT !.pc = "callback", !.n = n]
            /\ UNCHANGED missed
         \/ /\ missed' = missed \union {n}
            /\ UNCHANGED <<called, worker>>
  BY DEF Consume
<1>18. /\ tasks \in Seq(Task) /\ last \in Nat
       /\ N \in Seq(Nat) /\ DOMAIN N = DOMAIN tasks /\ \A i \in DOMAIN tasks : N[i] = tasks[i].n
       /\ N /= <<>> /\ Head(N) = n /\ Numbers(Tail(tasks)) = Tail(N)
  BY <1>1, TasksAndOutgoing, NumbersOf DEF Inductive
<1>2. /\ called \in Seq(Nat) /\ Rising(N) /\ Rising(called)
      /\ Below(called, last + 1) /\ Below(N, last + 1)
  BY NumbersAreNat DEF Inductive, Types, Ordered
<1>3. /\ n \in 1..MaxMsgs /\ Tail(tasks) \in Seq(Task) /\ Head(tasks) = tasks[1] /\ 1 \in DOMAIN tasks
      /\ \A i \in DOMAIN Tail(tasks) : i + 1 \in DOMAIN tasks /\ Tail(tasks)[i] = tasks[i + 1]
  <2>1. Head(tasks) \in Task /\ Tail(tasks) \in Seq(Task) /\ Head(tasks) = tasks[1] /\ 1 \in DOMAIN tasks
        /\ \A i \in DOMAIN Tail(tasks) : i + 1 \in DOMAIN tasks /\ Tail(tasks)[i] = tasks[i + 1]
    BY <1>1, <1>18
  <2> QED BY <2>1 DEF Task
<1>19. /\ Tail(N) \in Seq(Nat) /\ DOMAIN Tail(N) = DOMAIN Tail(tasks)
       /\ \A i \in DOMAIN Tail(tasks) : Tail(N)[i] = Tail(tasks)[i].n /\ Tail(tasks)[i].n \in Nat
  <2>1. \A r \in Task : r.n \in 1..MaxMsgs
    BY DEF Task
  <2>2. /\ Numbers(Tail(tasks)) \in Seq(Nat) /\ DOMAIN Numbers(Tail(tasks)) = DOMAIN Tail(tasks)
        /\ \A i \in DOMAIN Tail(tasks) : Numbers(Tail(tasks))[i] = Tail(tasks)[i].n /\ Tail(tasks)[i].n \in Nat
    BY <1>3, <2>1, NumbersOf
  <2> QED BY <1>18, <2>2
<1>4. /\ Rising(Tail(N)) /\ \A i \in DOMAIN Tail(N) : n < Tail(N)[i]
      /\ \A k \in Nat : Below(N, k) => Below(Tail(N), k) /\ n < k
  BY <1>2, <1>18, RisingShrinks
<1> HIDE DEF n, N
<1>5. Below(called, n)
  BY <1>3 DEF Inductive, Ordered, n
<1>6. /\ called' \in Seq(1..MaxMsgs) /\ Rising(called')
      /\ \A k \in Nat : n < k /\ Below(called, k) => Below(called', k)
      /\ \A i \in DOMAIN called : i \in DOMAIN called' /\ called'[i] = called[i]
  <2>1. CASE called' = Append(called, n)
    <3>1. called \in Seq(1..MaxMsgs)
      BY DEF Inductive, Types
    <3>2. /\ called' \in Seq(1..MaxMsgs)
          /\ \A i \in DOMAIN called : i \in DOMAIN called' /\ called'[i] = called[i]
      BY <1>3, <2>1, <3>1
    <3> QED BY <1>2, <1>3, <1>5, <2>1, <3>2, RisingGrows
  <2>2. CASE called' = called
    BY <1>2, <2>2 DEF Inductive, Types
  <2> QED BY <1>1, <2>1, <2>2
<1>7. /\ worker' \in [pc : {"ready", "callback", "waiting"}, call : {"none"}, id : Nat, n : Nat]
      /\ worker'.pc /= "waiting"
      /\ worker'.pc /= "ready" => worker'.n = n /\ called' = Append(called, n)
  <2>1. CASE called' = Append(called, n) /\ worker' = [Ready EXCEPT !.pc = "callback", !.n = n]
    <3>1. worker' = [pc |-> "callback", call |-> "none", id |-> 0, n |-> n]
      BY <2>1 DEF Ready
    <3>2. n \in Nat
      BY <1>3, ClientAssumption
    <3> QED BY <2>1, <3>1, <3>2
  <2>2. CASE worker' = worker
    BY <1>1, <2>2 DEF Inductive, Types
  <2> QED BY <1>1, <2>1, <2>2
<1>8. Types'
  <2>1. /\ tasks' = Tail(tasks)
        /\ UNCHANGED <<alive, connected, latch, conn, sent, registered, consumer, answers, caller,
                       toBroker, toClient, opened, subscribed, pending, outgoing, taken, ended, last, acked>>
    BY <1>1 DEF wire, broker
  <2>2. missed' \subseteq 1..MaxMsgs
    BY <1>1, <1>3 DEF Inductive, Types
  <2>3. Types
    BY DEF Inductive
  <2> QED BY ONLY <1>3, <1>6, <1>7, <2>1, <2>2, <2>3 DEF Types
<1>9. Fresh' /\ Threads'
  BY <1>1, <1>7 DEF Inductive, Fresh, Threads, broker
<1>10. Answers' = Answers /\ Coming' = Coming /\ Owing' = Owing
  BY <1>1 DEF Answers, Coming, Owing, wire, broker
<1>11. \A i \in DOMAIN toBroker : toBroker[i].call /= "ack"
  BY <1>1 DEF Inductive, RequestsAwaited
<1>12. RequestsAwaited'
  BY <1>1, <1>11 DEF Inductive, RequestsAwaited, wire
<1>13. OnePlace'
  BY <1>1, <1>10 DEF Inductive, OnePlace, wire
<1>14. AnswersKnown'
  BY <1>1, <1>10 DEF Inductive, AnswersKnown, Awaits
<1>15. Agreed' /\ Ended' /\ Live'
  <2>1. Agreed'
    BY <1>1, <1>10 DEF Inductive, Agreed, Says, wire, broker
  <2>2. Ended'
    BY <1>1, <1>3, <1>10 DEF Inductive, Ended, wire, broker
  <2>3. Live'
    BY <1>1, <1>3, <1>10 DEF Inductive, Live, Says, wire, broker
  <2> QED BY <2>1, <2>2, <2>3
<1>16. Ordered'
  <2> USE DEF N
  <2>1. \A i \in DOMAIN tasks' : Below(called', tasks'[i].n)
    <3> SUFFICES ASSUME NEW i \in DOMAIN tasks' PROVE Below(called', tasks'[i].n)
      OBVIOUS
    <3>1. tasks'[i] = tasks[i + 1] /\ i + 1 \in DOMAIN tasks /\ n < tasks'[i].n /\ tasks'[i].n \in Nat
      BY <1>1, <1>3, <1>4, <1>19
    <3>2. Below(called, tasks'[i].n)
      BY <3>1 DEF Inductive, Ordered
    <3> QED BY <1>6, <3>1, <3>2
  <2>2. ASSUME NEW i \in DOMAIN toClient, IsMessage(toClient[i])
        PROVE  Below(called', toClient[i].n) /\ Below(Numbers(tasks'), toClient[i].n)
    <3>1. toClient[i].n \in Nat
      BY <2>2, ComingNumbered DEF Inductive
    <3>2. Below(called, toClient[i].n) /\ Below(N, toClient[i].n)
      BY <2>2 DEF Inductive, Ordered
    <3> QED BY <1>1, <1>4, <1>6, <1>18, <3>1, <3>2
  <2>3. /\ Rising(called') /\ Rising(Numbers(tasks'))
        /\ Below(called', last + 1) /\ Below(Numbers(tasks'), last + 1)
    <3>1. last + 1 \in Nat /\ n < last + 1 /\ Below(Tail(N), last + 1) /\ Numbers(tasks') = Tail(N)
      BY <1>1, <1>2, <1>4, <1>18
    <3> QED BY <1>2, <1>4, <1>6, <3>1
  <2>4. ASSUME NEW i \in DOMAIN outgoing
        PROVE  Below(called', outgoing[i].n) /\ Below(Numbers(tasks'), outgoing[i].n)
    <3>1. outgoing[i].n \in Nat
      BY TasksAndOutgoing, NumbersOf DEF Inductive
    <3> QED BY <1>1, <1>4, <1>6, <1>18, <3>1 DEF Inductive, Ordered
  <2> QED BY <1>1, <2>1, <2>2, <2>3, <2>4 DEF Inductive, Ordered, wire, broker
<1>17. Acknowledged'
  <2>1. \A x : Contains(called, x) => Contains(called', x)
    BY <1>6 DEF Contains
  <2>2. worker'.pc /= "ready" => Contains(called', worker'.n) /\ Below(acked, worker'.n)
    <3> SUFFICES ASSUME worker'.pc /= "ready" PROVE Contains(called', n) /\ Below(acked, n)
      BY <1>7
    <3>1. Len(called) + 1 \in DOMAIN called' /\ called'[Len(called) + 1] = n
      BY <1>2, <1>3, <1>7
    <3>2. Contains(called', n)
      BY <3>1 DEF Contains
    <3>3. Below(acked, n)
      BY <1>5 DEF Inductive, Acknowledged, Contains, Below
    <3> QED BY <3>2, <3>3
  <2> QED BY <1>1, <1>11, <2>1, <2>2 DEF Inductive, Acknowledged, wire, broker
<1> QED BY <1>8, <1>9, <1>12, <1>13, <1>14, <1>15, <1>16, <1>17 DEF Inductive

LEMMA AcknowledgeStep ==
    ASSUME Inductive, Acknowledge
    PROVE  Inductive'
<1>1. /\ worker.pc = "callback"
      /\ UNCHANGED <<alive, connected, latch, conn, registered, consumer, answers, tasks, caller, toClient,
                     broker, called, missed>>
  BY DEF Acknowledge
<1>2. Answers' = Answers /\ Coming' = Coming /\ Owing' = Owing
  BY <1>1 DEF Answers, Coming, Owing, broker
<1>3. \A i \in DOMAIN toBroker : toBroker[i].call /= "ack"
  BY <1>1 DEF Inductive, RequestsAwaited
<1>4. CASE worker' = Ready /\ UNCHANGED <<sent, toBroker>>
  <2> USE <1>1, <1>4 DEF broker
  <2>1. worker'.pc = "ready" /\ worker' \in [pc : {"ready", "callback", "waiting"}, call : {"none"}, id : Nat, n : Nat]
    BY DEF Ready
  <2>2. Types'
    BY <2>1 DEF Inductive, Types
  <2>3. Fresh' /\ Threads'
    BY <2>1 DEF Inductive, Fresh, Threads
  <2>4. RequestsAwaited' /\ OnePlace'
    BY <1>2, <1>3 DEF Inductive, RequestsAwaited, OnePlace
  <2>5. AnswersKnown'
    BY <1>2, <2>1 DEF Inductive, AnswersKnown, Awaits
  <2>6. Agreed' /\ Ended' /\ Live'
    BY <1>2 DEF Inductive, Agreed, Says, Ended, Live
  <2>7. Ordered' /\ Acknowledged'
    BY <1>3, <2>1 DEF Inductive, Ordered, Acknowledged
  <2> QED BY <2>2, <2>3, <2>4, <2>5, <2>6, <2>7 DEF Inductive
<1>5. CASE /\ Request("ack", worker.n)
           /\ worker' = [worker EXCEPT !.pc = "waiting", !.id = sent + 1]
  <2> DEFINE m == [call |-> "ack", id |-> sent + 1, n |-> worker.n]
  <2>1. /\ m \in Asked /\ m.id = sent + 1 /\ m.call = "ack" /\ m.n = worker.n /\ toBroker' = Sent(m)
        /\ sent < MaxCalls /\ sent' = sent + 1 /\ sent \in Nat
    BY <1>5 DEF Request, Asked, Inductive, Types
  <2>2. /\ worker'.pc = "waiting" /\ worker'.id = sent + 1 /\ worker'.n = worker.n
        /\ worker' \in [pc : {"ready", "callback", "waiting"}, call : {"none"}, id : Nat, n : Nat]
    <3>1. worker \in [pc : {"ready", "callback", "waiting"}, call : {"none"}, id : Nat, n : Nat]
      BY DEF Inductive, Types
    <3>2. worker' = [worker EXCEPT !.pc = "waiting", !.id = sent + 1] /\ sent + 1 \in Nat
      BY <1>5, <2>1
    <3> QED BY ONLY <3>1, <3>2
  <2> HIDE DEF m
  <2>3. OnePlace'
    BY <1>1, <2>1, AskingKeeps DEF broker
  <2>4. /\ toBroker' \in Seq(Asked)
        /\ RequestIds(toBroker') \subseteq RequestIds(toBroker) \union {sent + 1}
        /\ connected => RequestIds(toBroker') = RequestIds(toBroker) \union {sent + 1}
        /\ ~connected => toBroker' = toBroker
        /\ \A i \in DOMAIN toBroker' :
              toBroker'[i] = m \/ (i \in DOMAIN toBroker /\ toBroker'[i] = toBroker[i])
    BY <2>1, RequestGoes
  <2>5. Types'
    <3>1. UNCHANGED <<alive, connected, latch, conn, registered, consumer, answers, caller, tasks,
                      toClient, opened, subscribed, pending, outgoing, taken, ended, last, acked, called, missed>>
      BY <1>1, <1>5 DEF broker, Request
    <3>2. sent' \in Nat /\ sent' <= MaxCalls + 1
      BY <2>1, ClientAssumption
    <3>3. Types
      BY DEF Inductive
    <3> QED BY ONLY <2>2, <2>4, <3>1, <3>2, <3>3 DEF Types
  <2>6. Fresh' /\ Threads'
    BY <1>1, <2>1, <2>2, NextIdIsNew DEF Inductive, Fresh, Threads, broker
  <2>7. RequestsAwaited'
    BY <1>1, <1>3, <2>1, <2>2, <2>4 DEF Inductive, RequestsAwaited
  <2>8. AnswersKnown'
    BY <1>1, <1>2 DEF Inductive, AnswersKnown, Awaits
  <2>9. Agreed'
    BY <1>1, <1>2, <2>4, NextIdIsNew DEF Inductive, Agreed, Says, broker
  <2>10. Ended' /\ Live'
    <3>1. Ended'
      BY <1>1, <1>2, <2>4 DEF Inductive, Ended, broker
    <3>2. Live'
      BY <1>1, <1>2, <2>4 DEF Inductive, Ended, Live, Says, broker
    <3> QED BY <3>1, <3>2
  <2>11. Ordered'
    BY <1>1 DEF Inductive, Ordered, broker
  <2>12. Acknowledged'
    BY <1>1, <2>2 DEF Inductive, Acknowledged, broker
  <2> QED BY <2>3, <2>5, <2>6, <2>7, <2>8, <2>9, <2>10, <2>11, <2>12 DEF Inductive
<1> QED BY <1>4, <1>5 DEF Acknowledge

LEMMA CallbackEndsStep ==
    ASSUME Inductive, CallbackEnds
    PROVE  Inductive'
<1>1. PICK a \in answers : a.id = worker.id /\ answers' = answers \ {a}
  BY DEF CallbackEnds
<1>2. /\ worker.pc = "waiting" /\ worker' = Ready
      /\ UNCHANGED <<alive, connected, latch, conn, sent, registered, consumer, tasks, caller, wire, broker,
                     called, missed, pending>>
  BY DEF CallbackEnds, broker
<1>3. /\ worker'.pc = "ready"
      /\ worker' \in [pc : {"ready", "callback", "waiting"}, call : {"none"}, id : Nat, n : Nat]
  BY <1>2 DEF Ready
<1>4. /\ OnePlace' /\ Answers' \subseteq Answers
      /\ \A b \in Answers' : b.id /= worker.id
      /\ Answers \subseteq Answers' \union {a} /\ a \in Answers
      /\ worker.id \notin RequestIds(toBroker)
  BY <1>1, <1>2, AnswerRead
<1>5. Types'
  BY <1>1, <1>2, <1>3 DEF Inductive, Types, wire, broker
<1>6. Fresh' /\ Threads'
  BY <1>2, <1>3 DEF Inductive, Fresh, Threads
<1>7. \A i \in DOMAIN toBroker : toBroker[i].call /= "ack"
  BY <1>4 DEF Inductive, RequestsAwaited, RequestIds
<1>8. RequestsAwaited'
  BY <1>2, <1>7 DEF Inductive, RequestsAwaited, wire
<1>9. AnswersKnown'
  BY <1>2, <1>4 DEF Inductive, AnswersKnown, Awaits
<1>10. Agreed'
  BY <1>2, <1>4 DEF Inductive, Agreed, Says, wire, broker
<1>11. Ended' /\ Live'
  <2>1. Ended'
    BY <1>2, <1>4 DEF Inductive, Ended, wire, broker
  <2>2. caller.pc = "waiting" => caller.id /= a.id
    BY <1>1, <1>2 DEF Inductive, Threads
  <2>3. Live'
    BY <1>2, <1>4, <2>2 DEF Inductive, Live, Says, wire, broker
  <2> QED BY <2>1, <2>3
<1>12. Ordered' /\ Acknowledged'
  BY <1>2, <1>3, <1>7 DEF Inductive, Ordered, Acknowledged, wire, broker
<1> QED BY <1>4, <1>5, <1>6, <1>8, <1>9, <1>10, <1>11, <1>12 DEF Inductive

\* Closing a channel may leave out the last message of what the pool has left to send.
LEMMA FrontOfOutgoing ==
    ASSUME NEW s \in Seq(Chosen), s /= <<>>
    PROVE  /\ Front(s) \in Seq(Chosen)
           /\ \A i \in DOMAIN Front(s) : i \in DOMAIN s /\ Front(s)[i] = s[i]
BY DEF Front

\* Fewer messages to send are still in order.
LEMMA LessOutgoing ==
    ASSUME NEW s \in Seq(Chosen), NEW t \in Seq(Chosen),
           \A i \in DOMAIN t : i \in DOMAIN s /\ t[i] = s[i],
           Rising(Numbers(s)), NEW k, Below(Numbers(s), k)
    PROVE  Rising(Numbers(t)) /\ Below(Numbers(t), k)
<1>1. \A r \in Chosen : r.n \in 1..MaxMsgs
  BY DEF Chosen
<1>2. DOMAIN Numbers(s) = DOMAIN s /\ \A i \in DOMAIN s : Numbers(s)[i] = s[i].n
  BY <1>1, NumbersOf
<1>3. DOMAIN Numbers(t) = DOMAIN t /\ \A i \in DOMAIN t : Numbers(t)[i] = t[i].n
  BY <1>1, NumbersOf
<1> QED BY <1>2, <1>3 DEF Rising, Below

LEMMA BrokerHandlesStep ==
    ASSUME Inductive, BrokerHandles
    PROVE  Inductive'
<1> DEFINE m == Head(toBroker)
<1>1. PICK ok \in BOOLEAN, its \in BOOLEAN :
         /\ m.call /= "consume" => ok = (m.call /= "cancel")
         /\ its => m.call = "delete" /\ subscribed /= 0
         /\ opened' = CASE m.call = "open" -> TRUE [] m.call = "close" -> FALSE [] OTHER -> opened
         /\ subscribed' = Subscription(m, ok, its)
         /\ taken' = CASE its -> subscribed [] m.call \in {"consume", "cancel", "close"} -> 0 [] OTHER -> taken
         /\ ended' = IF m.call \in {"cancel", "close"} THEN last ELSE ended
         /\ \/ UNCHANGED outgoing
            \/ m.call = "close" /\ outgoing /= <<>> /\ outgoing' = Front(outgoing)
         /\ acked' = IF m.call = "ack" /\ opened THEN Append(acked, m.n) ELSE acked
         /\ pending' = IF opened \/ m.call \in {"open", "close"}
                       THEN [id |-> m.id, ok |-> ok, of |-> MapOf(m.call)] ELSE NoAnswer
  BY DEF BrokerHandles
<1>2. /\ pending = NoAnswer /\ toBroker /= <<>> /\ toBroker' = Tail(toBroker)
      /\ UNCHANGED <<alive, connected, client, caller, worker, toClient, last, called, missed>>
  BY DEF BrokerHandles
<1>3. UNCHANGED <<latch, conn, sent, registered, consumer, answers, tasks>>
  BY <1>2 DEF client
<1>4. toBroker \in Seq(Asked) /\ OneRequestEach(toBroker)
  BY DEF Inductive, Types, OnePlace
<1>5. /\ m \in Asked /\ toBroker' \in Seq(Asked)
      /\ 1 \in DOMAIN toBroker /\ m = toBroker[1]
      /\ m.id \in RequestIds(toBroker)
      /\ RequestIds(toBroker') = RequestIds(toBroker) \ {m.id}
      /\ OneRequestEach(toBroker')
      /\ \A i \in DOMAIN toBroker' : i + 1 \in DOMAIN toBroker /\ toBroker'[i] = toBroker[i + 1]
  BY <1>2, <1>4, RequestHandled
<1> HIDE DEF m
<1>6. IF m.call = "ack"
      THEN worker.pc = "waiting" /\ m.id = worker.id /\ m.n = worker.n
      ELSE caller.pc = "waiting" /\ m.id = caller.id /\ m.call = WireCall(caller.call) /\ m.n = caller.n
  BY <1>5 DEF Inductive, RequestsAwaited
<1>7. m.id /= 0 /\ m.id \in Nat
  BY <1>5, <1>6 DEF Inductive, Threads, Types
<1>8. Owing = {} /\ Coming' = Coming /\ Answers = answers \union Coming
  BY <1>2 DEF Owing, Coming, Answers
<1>9. \A a \in Owing' : a.id = m.id /\ a.of \in {"common", "query"} /\ a = pending' /\ a.ok = ok
                        /\ (opened \/ m.call \in {"open", "close"})
  BY <1>1 DEF Owing, MapOf
<1>10. Answers' = Answers \union Owing'
  BY <1>2, <1>3, <1>8 DEF Answers
<1>11. \A a \in Answers : a.id /= m.id
  BY <1>5 DEF Inductive, OnePlace
<1>22. m.call = "consume" => /\ caller.pc = "waiting" /\ caller.call = "consume" /\ m.id = caller.id
                            /\ m.n = caller.n /\ m.n \in 1..MaxTags /\ consumer = 0
  BY <1>6 DEF Inductive, Threads, WireCall
\* What happens to the broker's consumer and to what the client has.
<1>23. m.call \notin {"consume", "cancel", "close"} =>
         /\ Says' = Says /\ ended' = ended /\ (subscribed' /= 0 => subscribed /= 0)
         /\ subscribed' \in {0, subscribed} /\ taken' \in {taken, subscribed}
  BY <1>1 DEF Subscription, Says
<1>24. m.call \in {"cancel", "close"} => Says' = 0 /\ subscribed' = 0 /\ taken' = 0 /\ ended' = last
  BY <1>1 DEF Subscription, Says
<1>25. m.call = "consume" => /\ subscribed' = IF opened /\ ok THEN m.n ELSE subscribed
                            /\ taken' = 0 /\ ended' = ended
  BY <1>1 DEF Subscription
<1>26. /\ outgoing' \in Seq(Chosen)
       /\ \A i \in DOMAIN outgoing' : i \in DOMAIN outgoing /\ outgoing'[i] = outgoing[i]
  <2>1. outgoing \in Seq(Chosen)
    BY DEF Inductive, Types
  <2>2. CASE outgoing' = outgoing
    BY <2>1, <2>2
  <2>3. CASE outgoing /= <<>> /\ outgoing' = Front(outgoing)
    BY <2>1, <2>3, FrontOfOutgoing
  <2> QED BY <1>1, <2>2, <2>3
<1>27. m.call = "consume" /\ opened => Says = 0 /\ subscribed = 0
  <2> SUFFICES ASSUME m.call = "consume", opened PROVE Says = 0
    BY DEF Says
  <2>1. connected /\ registered
    BY DEF Inductive, Ended
  <2> QED BY <1>5, <1>22, <2>1 DEF Inductive, Agreed
<1>12. acked' \in Seq(1..MaxMsgs) /\ opened' \in BOOLEAN /\ pending' \in Answer
  <2>1. m.call = "ack" => m.n \in 1..MaxMsgs
    <3>1. m.call = "ack" => Contains(called, m.n)
      BY <1>6 DEF Inductive, Acknowledged
    <3>2. called \in Seq(1..MaxMsgs)
      BY DEF Inductive, Types
    <3> QED BY <3>1, <3>2, ElementOfSeq DEF Contains
  <2>2. acked \in Seq(1..MaxMsgs) /\ opened \in BOOLEAN
    BY DEF Inductive, Types
  <2>3. acked' \in Seq(1..MaxMsgs)
    <3>1. CASE m.call = "ack" /\ opened
      BY <1>1, <2>1, <2>2, <3>1, AppendProperties
    <3>2. CASE ~(m.call = "ack" /\ opened)
      BY <1>1, <2>2, <3>2
    <3> QED BY <3>1, <3>2
  <2>4. opened' \in BOOLEAN
    BY <1>1, <2>2
  <2>5. pending' \in Answer
    BY <1>1, <1>7 DEF Answer, NoAnswer, MapOf
  <2> QED BY <2>3, <2>4, <2>5
<1>13. Types'
  <2>1. subscribed' \in 0..MaxTags /\ taken' \in 0..MaxTags /\ ended' \in 0..last
    <3>1. /\ subscribed \in 0..MaxTags /\ taken \in 0..MaxTags /\ ended \in 0..last
          /\ last \in 0..last /\ 0 \in 0..MaxTags
      BY TasksAndOutgoing, ClientAssumption DEF Inductive, Types
    <3> QED BY <1>22, <1>23, <1>24, <1>25, <3>1
  <2>2. UNCHANGED <<alive, connected, latch, conn, sent, registered, consumer, answers, tasks, caller, worker,
                    toClient, last, called, missed>>
    BY <1>2, <1>3
  <2>3. Types
    BY DEF Inductive
  <2> QED BY ONLY <1>5, <1>12, <1>26, <2>1, <2>2, <2>3 DEF Types
<1>14. Fresh' /\ Threads'
  BY <1>2, <1>3 DEF Inductive, Fresh, Threads
<1>15. RequestsAwaited'
  BY <1>2, <1>5 DEF Inductive, RequestsAwaited
<1>16. OnePlace'
  <2>1. \A a \in Answers' : a.id \notin RequestIds(toBroker')
    BY <1>5, <1>9, <1>10 DEF Inductive, OnePlace
  <2>2. \A a \in Owing', b \in answers \union Coming : a.id /= b.id
    BY <1>8, <1>9, <1>11
  <2> QED BY <1>2, <1>3, <1>5, <1>8, <2>1, <2>2 DEF Inductive, OnePlace
<1>17. AnswersKnown'
  <2>1. Awaits(m.id)
    BY <1>6 DEF Awaits
  <2> QED BY <1>2, <1>9, <1>10, <2>1 DEF Inductive, AnswersKnown, Awaits
<1>18. Agreed'
  <2>1. CASE m.call = "ack"
    <3>1. Says' = Says
      BY <1>23, <2>1
    <3>2. caller.pc = "waiting" => caller.id /= m.id
      BY <1>6, <2>1 DEF Inductive, Threads
    <3> QED BY <1>2, <1>3, <1>5, <1>9, <1>10, <3>1, <3>2 DEF Inductive, Agreed
  <2>2. CASE m.call /= "ack"
    <3> SUFFICES ASSUME connected, registered
                 PROVE  /\ caller.pc = "waiting" /\ caller.id \notin RequestIds(toBroker')
                        /\ \A a \in Answers' : a.id = caller.id =>
                             /\ caller.call = "consume" => (IF a.ok THEN caller.n ELSE 0) = Says'
                             /\ caller.call = "cancel" => Says' = 0
                             /\ caller.call \in {"open", "declare", "delete", "query"} => consumer = Says'
      BY <1>2, <1>3 DEF Agreed
    <3>1. caller.pc = "waiting" /\ caller.id = m.id /\ caller.call /= "drop" /\ m.call = caller.call
      BY <1>6, <2>2 DEF Inductive, Threads, WireCall
    <3>2. consumer = Says
      BY <1>5, <3>1 DEF Inductive, Agreed
    <3>3. \A a \in Answers' : a.id = caller.id => a \in Owing'
      BY <1>10, <1>11, <3>1
    <3>4. ASSUME NEW a \in Owing', caller.call = "consume" PROVE (IF a.ok THEN caller.n ELSE 0) = Says'
      <4>1. opened /\ a.ok = ok /\ m.call = "consume"
        BY <1>9, <3>1, <3>4
      <4>2. subscribed' = (IF ok THEN m.n ELSE 0) /\ taken' = 0
        BY <1>25, <1>27, <4>1
      <4> QED BY <1>22, <4>1, <4>2 DEF Says
    <3>5. caller.call = "cancel" => Says' = 0
      BY <1>24, <3>1
    <3>6. caller.call \in {"open", "declare", "delete", "query"} => consumer = Says'
      BY <1>23, <3>1, <3>2
    <3> QED BY <1>5, <3>1, <3>3, <3>4, <3>5, <3>6
  <2> QED BY <2>1, <2>2
<1>19. Ended' /\ Live'
  <2>1. connected /\ (m.call = "open" => registered /\ caller.call = "open" /\ caller.pc = "waiting")
    BY <1>2, <1>6 DEF Inductive, Ended, Threads, WireCall
  <2>2. opened' => registered /\ connected
    BY <1>1, <2>1 DEF Inductive, Ended
  <2>3. subscribed' /= 0 => opened'
    <3>1. CASE m.call = "consume"
      <4>1. opened' = opened
        BY <1>1, <3>1
      <4> QED BY <1>25, <3>1, <4>1 DEF Inductive, Ended
    <3>2. CASE m.call \in {"cancel", "close"}
      BY <1>24, <3>2
    <3>3. CASE m.call \notin {"consume", "cancel", "close"}
      <4>1. opened => opened'
        BY <1>1, <3>3
      <4> QED BY <1>23, <3>3, <4>1 DEF Inductive, Ended
    <3> QED BY <3>1, <3>2, <3>3
  <2>4. ~opened' => ended' = last
    <3>1. ~opened' => ~opened \/ m.call = "close"
      BY <1>1
    <3>2. ~opened => ended = last
      BY DEF Inductive, Ended
    <3> QED BY <1>1, <3>1, <3>2
  <2>5. ASSUME caller.pc = "waiting", caller.call = "close", NEW a \in Answers', a.id = caller.id
        PROVE  ~opened'
    <3>1. CASE a \in Answers
      <4>1. ~opened /\ m.call /= "open"
        BY <2>1, <2>5, <3>1 DEF Inductive, Ended
      <4> QED BY <1>1, <4>1
    <3>2. CASE a \in Owing'
      <4>1. m.id = caller.id
        BY <1>9, <2>5, <3>2
      <4>2. m.call = "close"
        BY <1>6, <2>5, <4>1 DEF Inductive, Threads, WireCall
      <4> QED BY <1>1, <4>2
    <3> QED BY <1>10, <2>5, <3>1, <3>2
  <2>6. last \in Nat /\ ended \in Nat /\ ended <= last /\ ended' \in {ended, last}
    BY <1>1, TasksAndOutgoing DEF Inductive
  <2>7. \A i \in DOMAIN tasks : ~tasks[i].known => tasks[i].n <= ended'
    <3>1. \A i \in DOMAIN tasks : tasks[i].n \in Nat
      BY TasksAndOutgoing, NumbersOf DEF Inductive
    <3> QED BY <2>6, <3>1 DEF Inductive, Ended
  <2>8. Ended'
    <3>1. ~connected' => toBroker' = <<>>
      BY <1>2, <2>1
    <3> QED BY <1>2, <1>3, <2>2, <2>3, <2>4, <2>5, <2>7, <3>1 DEF Ended
  <2>9. ASSUME opened', caller.pc = "waiting"
        PROVE  caller.id \in RequestIds(toBroker') \/ \E a \in Answers' : a.id = caller.id
    <3>1. CASE caller.id = m.id
      <4>1. opened \/ m.call \in {"open", "close"}
        BY <1>1, <2>9
      <4>2. pending' = [id |-> m.id, ok |-> ok, of |-> MapOf(m.call)]
        BY <1>1, <4>1
      <4>3. pending'.id = m.id /\ pending' /= NoAnswer
        BY <1>7, <4>2 DEF NoAnswer
      <4>4. pending' \in Owing'
        BY <4>3 DEF Owing, NoAnswer
      <4> QED BY <1>10, <3>1, <4>3, <4>4
    <3>2. CASE caller.id /= m.id
      <4>1. m.call /= "open"
        BY <1>6, <3>2
      <4>2. opened
        BY <1>1, <2>9, <4>1
      <4> QED BY <1>5, <1>10, <2>9, <3>2, <4>2 DEF Inductive, Live
    <3> QED BY <3>1, <3>2
  <2>10. ASSUME NEW k \in Nat, NEW g \in 1..MaxTags, k <= last, k > ended', k > ended => g = Says
         PROVE  g = Says'
    <3>1. m.call \notin {"cancel", "close"}
      BY <1>24, <2>6, <2>10
    <3>2. ended' = ended /\ g = Says /\ Says /= 0
      BY <1>23, <1>25, <2>6, <2>10, <3>1
    <3>3. opened
      BY <2>6, <2>10, <3>2 DEF Inductive, Ended
    <3> QED BY <1>23, <1>27, <3>1, <3>2, <3>3
  <2>11. \A i \in DOMAIN tasks : tasks[i].n > ended' => tasks[i].tag = Says'
    <3> SUFFICES ASSUME NEW i \in DOMAIN tasks, tasks[i].n > ended' PROVE tasks[i].tag = Says'
      OBVIOUS
    <3>1. tasks[i] \in Task /\ tasks[i].n \in Nat /\ tasks[i].tag \in 1..MaxTags
      <4>1. tasks[i] \in Task
        BY TasksAndOutgoing DEF Inductive
      <4> QED BY <4>1, ClientAssumption DEF Task
    <3>2. tasks[i].n <= last
      <4>1. Numbers(tasks)[i] = tasks[i].n /\ i \in DOMAIN Numbers(tasks)
        BY TasksAndOutgoing, NumbersOf DEF Inductive
      <4>2. Numbers(tasks)[i] < last + 1
        BY <4>1 DEF Inductive, Ordered, Below
      <4> QED BY <2>6, <3>1, <4>1, <4>2
    <3> QED BY <2>10, <3>1, <3>2 DEF Inductive, Live
  <2>12. \A i \in DOMAIN toClient : IsMessage(toClient[i]) /\ toClient[i].n > ended' => toClient[i].tag = Says'
    <3> SUFFICES ASSUME NEW i \in DOMAIN toClient, IsMessage(toClient[i]), toClient[i].n > ended'
                 PROVE  toClient[i].tag = Says'
      OBVIOUS
    <3>1. toClient[i].n \in Nat /\ toClient[i].tag \in 1..MaxTags
      <4>1. toClient[i] \in Pushed
        BY DEF Inductive, Types
      <4> QED BY <4>1, ClientAssumption DEF Pushed, IsMessage
    <3>2. toClient[i].n <= last
      BY DEF Inductive, Ordered
    <3> QED BY <2>10, <3>1, <3>2 DEF Inductive, Live
  <2>13. \A i \in DOMAIN outgoing' : outgoing'[i].n > ended' => outgoing'[i].tag = Says'
    <3> SUFFICES ASSUME NEW i \in DOMAIN outgoing, outgoing[i].n > ended' PROVE outgoing[i].tag = Says'
      BY <1>26
    <3>1. outgoing[i] \in Chosen /\ outgoing[i].n \in Nat /\ outgoing[i].tag \in 1..MaxTags
      <4>1. outgoing[i] \in Chosen
        BY TasksAndOutgoing DEF Inductive
      <4> QED BY <4>1, ClientAssumption DEF Chosen
    <3>2. outgoing[i].n <= last
      <4>1. Numbers(outgoing)[i] = outgoing[i].n /\ i \in DOMAIN Numbers(outgoing)
        BY TasksAndOutgoing, NumbersOf DEF Inductive
      <4>2. Numbers(outgoing)[i] < last + 1
        BY <4>1 DEF Inductive, Ordered, Below
      <4> QED BY <2>6, <3>1, <4>1, <4>2
    <3> QED BY <2>10, <3>1, <3>2 DEF Inductive, Live
  <2>14. Live'
    BY <1>2, <1>3, <2>9, <2>11, <2>12, <2>13 DEF Live
  <2> QED BY <2>8, <2>14
<1>20. Ordered'
  <2>1. Rising(Numbers(outgoing')) /\ Below(Numbers(outgoing'), last + 1)
    <3>1. outgoing \in Seq(Chosen) /\ Rising(Numbers(outgoing)) /\ Below(Numbers(outgoing), last + 1)
      BY DEF Inductive, Types, Ordered
    <3> QED BY <1>26, <3>1, LessOutgoing
  <2>2. UNCHANGED <<called, tasks, last, toClient>>
    BY <1>2, <1>3
  <2> QED BY <1>26, <2>1, <2>2 DEF Inductive, Ordered
<1>21. Acknowledged'
  <2>1. CASE m.call = "ack" /\ opened
    <3>1. acked' = Append(acked, m.n) /\ Contains(called, m.n) /\ Below(acked, m.n) /\ worker.pc = "waiting"
      BY <1>1, <1>5, <1>6, <2>1 DEF Inductive, Acknowledged
    <3>2. acked \in Seq(Nat) /\ m.n \in Nat
      BY <1>5, NumbersAreNat DEF Asked, Inductive, Types
    <3>3. Rising(acked')
      BY <3>1, <3>2, RisingGrows DEF Inductive, Acknowledged
    <3>4. \A i \in DOMAIN acked' : acked'[i] = m.n \/ (i \in DOMAIN acked /\ acked'[i] = acked[i])
      BY <3>1, <3>2
    <3>5. \A i \in DOMAIN toBroker' : toBroker'[i].call /= "ack"
      <4> SUFFICES ASSUME NEW i \in DOMAIN toBroker', toBroker'[i].call = "ack" PROVE FALSE
        OBVIOUS
      <4>1. toBroker'[i].id = worker.id
        BY <1>2, <1>15 DEF RequestsAwaited
      <4>2. toBroker'[i].id \in RequestIds(toBroker')
        BY DEF RequestIds
      <4> QED BY <1>5, <1>6, <2>1, <4>1, <4>2
    <3> QED BY <1>2, <3>1, <3>3, <3>4, <3>5 DEF Inductive, Acknowledged
  <2>2. CASE ~(m.call = "ack" /\ opened)
    <3>1. acked' = acked
      BY <1>1, <2>2
    <3> QED BY <1>2, <1>5, <3>1 DEF Inductive, Acknowledged
  <2> QED BY <2>1, <2>2
<1> QED BY <1>13, <1>14, <1>15, <1>16, <1>17, <1>18, <1>19, <1>20, <1>21 DEF Inductive

LEMMA BrokerAnswersStep ==
    ASSUME Inductive, BrokerAnswers
    PROVE  Inductive'
<1> DEFINE m == [kind |-> "answer", answer |-> pending]
<1>1. /\ pending /= NoAnswer /\ pending' = NoAnswer /\ toClient' = Append(toClient, m)
      /\ UNCHANGED <<alive, connected, latch, conn, sent, registered, consumer, answers, tasks, caller, worker,
                     toBroker, opened, subscribed, outgoing, taken, ended, last, acked, called, missed>>
  BY DEF BrokerAnswers, client
<1>2. /\ toClient \in Seq(Pushed) /\ m \in Pushed /\ IsAnswer(m) /\ ~IsMessage(m) /\ m.answer = pending
      /\ Len(toClient) \in Nat
  BY DEF Inductive, Types, Pushed, IsAnswer, IsMessage
<1> HIDE DEF m
<1>3. Owing = {pending} /\ Owing' = {}
  BY <1>1 DEF Owing
<1>4. \A a \in Coming : a.id /= pending.id
  BY <1>3 DEF Inductive, OnePlace
<1>5. /\ toClient' \in Seq(Pushed) /\ OneAnswerEach(toClient') /\ Coming' = Coming \union {pending}
      /\ \A i \in DOMAIN toClient : toClient'[i] = toClient[i] /\ i < Len(toClient) + 1
      /\ toClient'[Len(toClient) + 1] = m
      /\ \A i \in DOMAIN toClient' : i \in DOMAIN toClient \/ i = Len(toClient) + 1
  BY <1>1, <1>2, <1>4, Sending DEF Inductive, OnePlace, Coming
<1>6. Answers' = Answers
  BY <1>1, <1>3, <1>5 DEF Answers
<1>7. Types'
  BY <1>1, <1>5 DEF Inductive, Types, NoAnswer, Answer
<1>8. Fresh' /\ Threads' /\ RequestsAwaited'
  BY <1>1 DEF Inductive, Fresh, Threads, RequestsAwaited
<1>9. OnePlace'
  BY <1>1, <1>3, <1>4, <1>5, <1>6 DEF Inductive, OnePlace
<1>10. AnswersKnown' /\ Agreed'
  BY <1>1, <1>6 DEF Inductive, AnswersKnown, Awaits, Agreed, Says
<1>14. \A i \in DOMAIN toClient' : IsMessage(toClient'[i]) => i \in DOMAIN toClient /\ toClient'[i] = toClient[i]
  BY <1>2, <1>5
<1>11. Ended' /\ Live'
  <2>1. Ended'
    BY <1>1, <1>6 DEF Inductive, Ended
  <2>2. Live'
    BY <1>1, <1>6, <1>14 DEF Inductive, Live, Says
  <2> QED BY <2>1, <2>2
<1>12. Ordered'
  BY <1>1, <1>14 DEF Inductive, Ordered
<1>13. Acknowledged'
  BY <1>1 DEF Inductive, Acknowledged
<1> QED BY <1>7, <1>8, <1>9, <1>10, <1>11, <1>12, <1>13 DEF Inductive

\* What others take from the broker is what the client still has.
LEMMA OthersTakeStep ==
    ASSUME Inductive, OthersTake
    PROVE  Inductive'
<1>1. /\ subscribed /= 0 /\ subscribed' = 0 /\ taken' = subscribed
      /\ UNCHANGED <<alive, connected, latch, conn, sent, registered, consumer, answers, tasks, caller, worker,
                     toBroker, toClient, opened, pending, outgoing, ended, last, acked, called, missed>>
  BY DEF OthersTake, client, wire
<1>2. Says' = Says
  BY <1>1 DEF Says
<1>3. Answers' = Answers /\ Coming' = Coming /\ Owing' = Owing
  BY <1>1 DEF Answers, Coming, Owing
<1>4. Types'
  BY <1>1, ClientAssumption DEF Inductive, Types
<1>5. Fresh' /\ Threads' /\ RequestsAwaited'
  BY <1>1 DEF Inductive, Fresh, Threads, RequestsAwaited
<1>6. OnePlace' /\ AnswersKnown'
  BY <1>1, <1>3 DEF Inductive, OnePlace, AnswersKnown, Awaits
<1>7. Agreed' /\ Ended' /\ Live'
  BY <1>1, <1>2, <1>3 DEF Inductive, Agreed, Ended, Live
<1>8. Ordered' /\ Acknowledged'
  BY <1>1 DEF Inductive, Ordered, Acknowledged
<1> QED BY <1>4, <1>5, <1>6, <1>7, <1>8 DEF Inductive

LEMMA BrokerChoosesStep ==
    ASSUME Inductive, BrokerChooses
    PROVE  Inductive'
<1> DEFINE r == [n |-> last + 1, tag |-> subscribed]
<1>1. /\ subscribed /= 0 /\ last < MaxMsgs /\ last' = last + 1 /\ outgoing' = Append(outgoing, r)
      /\ UNCHANGED <<alive, connected, latch, conn, sent, registered, consumer, answers, tasks, caller, worker,
                     toBroker, toClient, opened, subscribed, pending, taken, ended, acked, called, missed>>
  BY DEF BrokerChooses, client, wire
<1>2. /\ tasks \in Seq(Task) /\ \A q \in Task : q.n \in 1..MaxMsgs
      /\ outgoing \in Seq(Chosen) /\ \A q \in Chosen : q.n \in 1..MaxMsgs
      /\ last \in Nat /\ ended \in Nat /\ ended <= last
  BY TasksAndOutgoing DEF Inductive
<1>3. r \in Chosen /\ r.n = last + 1 /\ r.tag = Says /\ last + 1 \in 1..MaxMsgs
  BY <1>1, <1>2, ClientAssumption DEF Chosen, Says, Inductive, Types
<1>4. opened
  BY <1>1 DEF Inductive, Ended
<1> HIDE DEF r
<1>5. /\ outgoing' \in Seq(Chosen)
      /\ \A i \in DOMAIN outgoing' : (i \in DOMAIN outgoing /\ outgoing'[i] = outgoing[i]) \/ outgoing'[i] = r
  BY <1>1, <1>2, <1>3
<1>6. Answers' = Answers /\ Coming' = Coming /\ Owing' = Owing /\ Says' = Says
  BY <1>1 DEF Answers, Coming, Owing, Says
<1>7. Types'
  <2>1. last' \in 0..MaxMsgs /\ ended' \in 0..last'
    BY <1>1, <1>2, <1>3
  <2>2. Types
    BY DEF Inductive
  <2> QED BY ONLY <1>1, <1>5, <2>1, <2>2 DEF Types
<1>8. Fresh'
  BY <1>1 DEF Inductive, Fresh
<1>9. Threads' /\ RequestsAwaited'
  BY <1>1 DEF Inductive, Threads, RequestsAwaited
<1>10. OnePlace' /\ AnswersKnown'
  BY <1>1, <1>6 DEF Inductive, OnePlace, AnswersKnown, Awaits
<1>11. Agreed' /\ Ended'
  BY <1>1, <1>4, <1>6 DEF Inductive, Agreed, Ended
<1>12. Live'
  BY <1>1, <1>3, <1>5, <1>6 DEF Inductive, Live
<1>13. Ordered'
  <2>1. /\ Numbers(outgoing') = Append(Numbers(outgoing), last + 1) /\ Numbers(outgoing) \in Seq(Nat)
        /\ Numbers(tasks) \in Seq(Nat) /\ called \in Seq(Nat)
    <3>1. Numbers(Append(outgoing, r)) = Append(Numbers(outgoing), r.n) /\ Numbers(outgoing) \in Seq(Nat)
      BY <1>2, <1>3, NumbersOf
    <3>2. Numbers(tasks) \in Seq(Nat)
      BY <1>2, NumbersOf
    <3> QED BY <1>1, <1>3, <3>1, <3>2, NumbersAreNat DEF Inductive, Types
  <2>2. /\ Rising(Numbers(outgoing)) /\ Below(Numbers(outgoing), last + 1)
        /\ Below(called, last + 1) /\ Below(Numbers(tasks), last + 1)
    BY DEF Inductive, Ordered
  <2>3. Rising(Numbers(outgoing')) /\ Below(Numbers(outgoing'), last + 2)
    BY <1>2, <2>1, <2>2, RisingGrows
  <2>4. Below(called, last + 2) /\ Below(Numbers(tasks), last + 2)
    BY <1>2, <2>1, <2>2 DEF Below
  <2>5. \A i \in DOMAIN outgoing' : Below(called, outgoing'[i].n) /\ Below(Numbers(tasks), outgoing'[i].n)
    BY <1>3, <1>5, <2>2 DEF Inductive, Ordered
  <2>6. ASSUME NEW i \in DOMAIN toClient, IsMessage(toClient[i])
        PROVE  toClient[i].n <= last + 1 /\ \A k \in DOMAIN outgoing' : toClient[i].n < outgoing'[k].n
    <3>1. toClient[i].n \in Nat
      BY <2>6, ComingNumbered DEF Inductive
    <3>2. toClient[i].n <= last /\ \A k \in DOMAIN outgoing : toClient[i].n < outgoing[k].n
      BY <2>6 DEF Inductive, Ordered
    <3>3. toClient[i].n <= last + 1 /\ toClient[i].n < last + 1
      BY <1>2, <3>1, <3>2
    <3> QED BY <1>3, <1>5, <3>2, <3>3
  <2>7. last' + 1 = last + 2
    BY <1>1, <1>2
  <2> QED BY <1>1, <2>3, <2>4, <2>5, <2>6, <2>7 DEF Inductive, Ordered
<1>14. Acknowledged'
  BY <1>1 DEF Inductive, Acknowledged
<1> QED BY <1>7, <1>8, <1>9, <1>10, <1>11, <1>12, <1>13, <1>14 DEF Inductive

LEMMA BrokerPushesStep ==
    ASSUME Inductive, BrokerPushes
    PROVE  Inductive'
<1> DEFINE h == Head(outgoing)
<1> DEFINE m == [kind |-> "message", n |-> h.n, tag |-> h.tag]
<1>1. /\ outgoing /= <<>> /\ outgoing' = Tail(outgoing) /\ toClient' = Append(toClient, m)
      /\ UNCHANGED <<alive, connected, latch, conn, sent, registered, consumer, answers, tasks, caller, worker,
                     toBroker, opened, subscribed, pending, taken, ended, last, acked, called, missed>>
  BY DEF BrokerPushes, client
<1>2. /\ tasks \in Seq(Task) /\ outgoing \in Seq(Chosen) /\ \A q \in Chosen : q.n \in 1..MaxMsgs
      /\ last \in Nat /\ ended \in Nat
  BY TasksAndOutgoing DEF Inductive
<1>3. /\ h \in Chosen /\ h = outgoing[1] /\ 1 \in DOMAIN outgoing /\ outgoing' \in Seq(Chosen)
      /\ \A i \in DOMAIN outgoing' : i + 1 \in DOMAIN outgoing /\ outgoing'[i] = outgoing[i + 1]
  BY <1>1, <1>2
<1>15. h.n \in 1..MaxMsgs /\ h.tag \in 1..MaxTags /\ h.n \in Nat
  BY <1>3, ClientAssumption DEF Chosen
<1> HIDE DEF h
<1>16. /\ toClient \in Seq(Pushed) /\ m \in Pushed /\ ~IsAnswer(m) /\ IsMessage(m) /\ m.n = h.n /\ m.tag = h.tag
       /\ Len(toClient) \in Nat
  BY <1>15 DEF Inductive, Types, Pushed, IsAnswer, IsMessage
<1> HIDE DEF m
<1>4. /\ toClient' \in Seq(Pushed) /\ OneAnswerEach(toClient') /\ Coming' = Coming
      /\ \A i \in DOMAIN toClient : toClient'[i] = toClient[i] /\ i < Len(toClient) + 1
      /\ toClient'[Len(toClient) + 1] = m
      /\ \A i \in DOMAIN toClient' : i \in DOMAIN toClient \/ i = Len(toClient) + 1
  <2>1. OneAnswerEach(toClient)
    BY DEF Inductive, OnePlace
  <2>2. AnswersIn(Append(toClient, m)) = AnswersIn(toClient)
    <3>1. AnswersIn(Append(toClient, m)) = AnswersIn(toClient) \union (IF IsAnswer(m) THEN {m.answer} ELSE {})
      BY <1>16, Sending
    <3> QED BY <1>16, <3>1, Zenon
  <2> QED BY <1>1, <1>16, <2>1, <2>2, Sending DEF Coming
<1>5. Answers' = Answers /\ Owing' = Owing /\ Says' = Says
  BY <1>1, <1>4 DEF Answers, Owing, Says
<1>6. Types'
  BY <1>1, <1>3, <1>4 DEF Inductive, Types
<1>7. Fresh' /\ Threads' /\ RequestsAwaited'
  BY <1>1 DEF Inductive, Fresh, Threads, RequestsAwaited
<1>8. OnePlace'
  BY <1>1, <1>4, <1>5 DEF Inductive, OnePlace
<1>9. AnswersKnown' /\ Agreed'
  BY <1>1, <1>5 DEF Inductive, AnswersKnown, Awaits, Agreed
<1>10. Ended' /\ Live'
  <2>1. Ended'
    BY <1>1, <1>5 DEF Inductive, Ended
  <2>2. h.n > ended => h.tag = Says
    BY <1>3 DEF Inductive, Live
  <2>3. \A i \in DOMAIN toClient' :
           IsMessage(toClient'[i]) /\ toClient'[i].n > ended => toClient'[i].tag = Says
    BY <1>4, <1>16, <2>2 DEF Inductive, Live
  <2>4. \A i \in DOMAIN outgoing' : outgoing'[i].n > ended => outgoing'[i].tag = Says
    BY <1>3 DEF Inductive, Live
  <2>5. Live'
    BY <1>1, <1>5, <2>3, <2>4 DEF Inductive, Live
  <2> QED BY <2>1, <2>5
<1>11. Ordered'
  <2> DEFINE N == Numbers(outgoing)
  <2>1. /\ N \in Seq(Nat) /\ N /= <<>> /\ Head(N) = h.n /\ Numbers(outgoing') = Tail(N)
        /\ DOMAIN N = DOMAIN outgoing /\ \A i \in DOMAIN outgoing : N[i] = outgoing[i].n
    BY <1>1, <1>2, NumbersOf DEF h
  <2>2. /\ DOMAIN Numbers(outgoing') = DOMAIN outgoing'
        /\ \A i \in DOMAIN outgoing' : Numbers(outgoing')[i] = outgoing'[i].n
    BY <1>2, <1>3, NumbersOf
  <2>3. Rising(N) /\ Below(N, last + 1)
    BY DEF Inductive, Ordered
  <2> HIDE DEF N
  <2>4. /\ Rising(Tail(N)) /\ Below(Tail(N), last + 1) /\ h.n < last + 1
        /\ \A i \in DOMAIN Tail(N) : h.n < Tail(N)[i]
    BY <1>2, <2>1, <2>3, RisingShrinks
  <2>5. \A i \in DOMAIN outgoing' : h.n < outgoing'[i].n
    BY <2>1, <2>2, <2>4
  <2>6. /\ Below(called, h.n) /\ Below(Numbers(tasks), h.n)
        /\ \A i \in DOMAIN outgoing' : Below(called, outgoing'[i].n) /\ Below(Numbers(tasks), outgoing'[i].n)
    BY <1>3 DEF Inductive, Ordered
  <2>7. ASSUME NEW i \in DOMAIN toClient', IsMessage(toClient'[i])
        PROVE  /\ toClient'[i].n <= last
               /\ Below(called, toClient'[i].n) /\ Below(Numbers(tasks), toClient'[i].n)
               /\ \A j \in DOMAIN toClient' :
                     IsMessage(toClient'[j]) /\ i < j => toClient'[i].n < toClient'[j].n
               /\ \A k \in DOMAIN outgoing' : toClient'[i].n < outgoing'[k].n
    <3>1. CASE i = Len(toClient) + 1
      <4>1. \A j \in DOMAIN toClient' : ~(i < j)
        BY <1>4, <1>16, <3>1
      <4>2. toClient'[i].n = h.n /\ h.n <= last
        BY <1>2, <1>4, <1>15, <1>16, <2>4, <3>1
      <4> QED BY <2>5, <2>6, <4>1, <4>2
    <3>2. CASE i \in DOMAIN toClient
      <4>1. toClient'[i] = toClient[i] /\ IsMessage(toClient[i])
        BY <1>4, <2>7, <3>2
      <4>2. /\ toClient[i].n <= last
            /\ Below(called, toClient[i].n) /\ Below(Numbers(tasks), toClient[i].n)
            /\ \A j \in DOMAIN toClient : IsMessage(toClient[j]) /\ i < j => toClient[i].n < toClient[j].n
            /\ \A k \in DOMAIN outgoing : toClient[i].n < outgoing[k].n
        BY <3>2, <4>1 DEF Inductive, Ordered
      <4>3. ASSUME NEW j \in DOMAIN toClient', IsMessage(toClient'[j]), i < j
            PROVE  toClient[i].n < toClient'[j].n
        <5>1. CASE j = Len(toClient) + 1
          BY <1>3, <1>4, <1>16, <4>2, <5>1
        <5>2. CASE j \in DOMAIN toClient
          BY <1>4, <4>2, <4>3, <5>2
        <5> QED BY <1>4, <5>1, <5>2
      <4> QED BY <1>3, <4>1, <4>2, <4>3
    <3> QED BY <1>4, <3>1, <3>2
  <2> QED BY <1>1, <2>1, <2>4, <2>6, <2>7 DEF Inductive, Ordered
<1>12. Acknowledged'
  BY <1>1 DEF Inductive, Acknowledged
<1> QED BY <1>6, <1>7, <1>8, <1>9, <1>10, <1>11, <1>12 DEF Inductive

LEMMA DisconnectStep ==
    ASSUME Inductive, Disconnect
    PROVE  Inductive'
<1>1. PICK n \in 0..Len(toClient) : toClient' = SubSeq(toClient, 1, n)
  BY DEF Disconnect
<1>2. /\ connected' = FALSE /\ toBroker' = <<>> /\ opened' = FALSE /\ subscribed' = 0 /\ pending' = NoAnswer
      /\ outgoing' = <<>> /\ taken' = 0 /\ ended' = last
      /\ UNCHANGED <<alive, latch, conn, sent, registered, consumer, answers, tasks, caller, worker,
                     last, acked, called, missed>>
  BY DEF Disconnect, client
<1>3. /\ toClient' \in Seq(Pushed) /\ OneAnswerEach(toClient') /\ Coming' \subseteq Coming
      /\ \A i \in DOMAIN toClient' : i \in DOMAIN toClient /\ toClient'[i] = toClient[i]
  BY <1>1, LosingTheRest DEF Inductive, OnePlace, Types, Coming
<1>4. Owing' = {} /\ Answers' \subseteq Answers
  BY <1>2, <1>3 DEF Owing, Answers
<1>5. Types'
  <2>1. toBroker' \in Seq(Asked) /\ pending' \in Answer /\ outgoing' \in Seq(Chosen) /\ ended' \in 0..last
        /\ subscribed' \in 0..MaxTags /\ taken' \in 0..MaxTags
    BY <1>2, TasksAndOutgoing, ClientAssumption DEF NoAnswer, Answer, Inductive
  <2> QED BY <1>2, <1>3, <2>1 DEF Inductive, Types
<1>6. Fresh'
  BY <1>1, <1>2 DEF Inductive, Fresh
<1>7. Threads' /\ RequestsAwaited'
  BY <1>2 DEF Inductive, Threads, RequestsAwaited
<1>8. OnePlace'
  <2>1. OneRequestEach(toBroker') /\ RequestIds(toBroker') = {}
    BY <1>2 DEF OneRequestEach, RequestIds
  <2> QED BY <1>2, <1>3, <1>4, <2>1 DEF Inductive, OnePlace
<1>9. AnswersKnown' /\ Agreed'
  BY <1>2, <1>4 DEF Inductive, AnswersKnown, Awaits, Agreed
<1>12. last \in Nat /\ ended \in Nat /\ ended <= last
  BY TasksAndOutgoing DEF Inductive
<1>13. Ended'
  <2>1. \A i \in DOMAIN tasks : ~tasks[i].known => tasks[i].n <= last
    <3>1. \A i \in DOMAIN tasks : tasks[i].n \in Nat
      BY TasksAndOutgoing, NumbersOf DEF Inductive
    <3> QED BY <1>12, <3>1 DEF Inductive, Ended
  <2> QED BY <1>2, <2>1 DEF Ended
<1>14. Live'
  <2>1. ASSUME NEW i \in DOMAIN tasks PROVE ~(tasks[i].n > last)
    <3>1. tasks[i].n \in Nat /\ i \in DOMAIN Numbers(tasks) /\ Numbers(tasks)[i] = tasks[i].n
      BY TasksAndOutgoing, NumbersOf DEF Inductive
    <3> QED BY <1>12, <3>1 DEF Inductive, Ordered, Below
  <2>2. ASSUME NEW i \in DOMAIN toClient', IsMessage(toClient'[i]) PROVE ~(toClient'[i].n > last)
    <3>1. toClient'[i].n <= last
      BY <1>3, <2>2 DEF Inductive, Ordered
    <3>2. toClient'[i] \in Pushed
      BY <1>3
    <3>3. toClient'[i].n \in Nat
      BY <2>2, <3>2, ClientAssumption DEF Pushed, IsMessage
    <3> QED BY <1>12, <3>1, <3>3
  <2> QED BY <1>2, <2>1, <2>2 DEF Live
<1>10. Ordered'
  <2>1. Rising(Numbers(outgoing')) /\ Below(Numbers(outgoing'), last + 1)
    BY <1>2 DEF Rising, Below, Numbers
  <2> QED BY <1>2, <1>3, <2>1 DEF Inductive, Ordered
<1>11. Acknowledged'
  BY <1>2 DEF Inductive, Acknowledged
<1> QED BY <1>5, <1>6, <1>7, <1>8, <1>9, <1>10, <1>11, <1>13, <1>14 DEF Inductive

\* Every step of the client, the broker or the connection keeps the invariant.
LEMMA StepsKeepInductive == Inductive /\ [Next]_vars => Inductive'
<1> SUFFICES ASSUME Inductive, [Next]_vars PROVE Inductive'
  OBVIOUS
<1>1. CASE Caller
  BY <1>1, OpenChannelStep, ReturnStep, DropStep, CallStep DEF Caller
<1>2. CASE Loop
  BY <1>2, QuietStep, ReceiveStep DEF Loop
<1>3. CASE Pool
  BY <1>3, ConsumeStep, QuietStep, AcknowledgeStep, CallbackEndsStep DEF Pool
<1>4. CASE CallbackFreed \/ UNCHANGED vars
  BY <1>4, QuietStep
<1>5. CASE Broker
  BY <1>5, BrokerHandlesStep, BrokerAnswersStep, OthersTakeStep, BrokerChoosesStep, BrokerPushesStep DEF Broker
<1>6. CASE Disconnect
  BY <1>6, DisconnectStep
<1> QED BY <1>1, <1>2, <1>3, <1>4, <1>5, <1>6 DEF Next

LEMMA AlwaysInductive == Spec => []Inductive
<1>1. Init => Inductive
  BY InitiallyInductive
<1>2. Inductive /\ [Next]_vars => Inductive'
  BY StepsKeepInductive
<1> QED BY <1>1, <1>2, PTL DEF Spec

-----------------------------------------------------------------------------
(* Theorems *)

\* Every variable of the client stays in its domain, and no answer is filed under an id
\* that was not sent (channel.hpp:34-42).
THEOREM ClientTypes == Spec => []TypeOK
<1>1. ASSUME Inductive PROVE TypeOK
  <2>1. answers \subseteq [id : 1..sent, ok : BOOLEAN, of : {"common", "query"}]
    <3> SUFFICES ASSUME NEW a \in answers
                 PROVE  a \in [id : 1..sent, ok : BOOLEAN, of : {"common", "query"}]
      OBVIOUS
    <3>1. a \in Answer /\ a \in Answers
      BY <1>1 DEF Inductive, Types, Answers
    <3>2. a.id \in 1..sent /\ a.of \in {"common", "query"}
      BY <1>1, <3>1 DEF Inductive, AnswersKnown, Awaits, Threads
    <3> QED BY <3>1, <3>2 DEF Answer
  <2>2. pending \in [id : 0..sent, ok : BOOLEAN, of : {"common", "query", "none"}]
    <3>1. pending \in Answer /\ sent \in Nat
      BY <1>1 DEF Inductive, Types
    <3>2. pending = NoAnswer \/ pending.id \in 1..sent
      BY <1>1 DEF Inductive, AnswersKnown, Awaits, Threads, Answers, Owing
    <3>3. pending.id \in 0..sent
      BY <3>1, <3>2 DEF NoAnswer
    <3> QED BY <3>1, <3>3 DEF Answer
  <2>3. sent \in 0..(MaxCalls + 1)
    BY <1>1, ClientAssumption DEF Inductive, Types
  <2>4. /\ tasks \in Seq([n : 1..MaxMsgs, tag : 1..MaxTags, known : BOOLEAN])
        /\ outgoing \in Seq([n : 1..MaxMsgs, tag : 1..MaxTags])
    BY <1>1 DEF Inductive, Types, Task, Chosen
  <2> QED BY <1>1, <2>1, <2>2, <2>3, <2>4 DEF Inductive, Types, TypeOK
<1> QED BY <1>1, AlwaysInductive, PTL

\* A thread of the client finds no answer but its own, and none is left behind that
\* nobody waits for, though the maps are shared (channel.hpp:246-254, 222-226).
THEOREM AnswersFindTheirThread == Spec => []AnswersAwaited
<1>1. ASSUME Inductive PROVE AnswersAwaited
  <2> SUFFICES ASSUME NEW a \in answers
               PROVE  a.id \in {t.id : t \in {u \in {caller, worker} : u.pc = "waiting"}}
    BY DEF AnswersAwaited
  <2>1. Awaits(a.id)
    BY <1>1 DEF Inductive, AnswersKnown, Answers
  <2> QED BY <2>1 DEF Awaits
<1> QED BY <1>1, AlwaysInductive, PTL

\* Between two calls the client has the consumer the broker has, or the one that the deletion
\* of the queue or another client's cancellation has taken from the broker, whatever the
\* broker answered (channel.hpp:116-124, 176-210 of the client, 140-145, 185-199 of the broker).
THEOREM ClientAndBrokerAgree == Spec => []SubscriptionAgrees
<1>1. Inductive => SubscriptionAgrees
  BY DEF Inductive, Agreed, Says, SubscriptionAgrees
<1> QED BY <1>1, AlwaysInductive, PTL

\* The callback is called in the order of the pushes, never twice for one, and the broker
\* learns of acknowledgements in that order and of none the callback did not make
\* (connection.hpp:98-105, channel.hpp:212-220).
THEOREM CallbacksInOrder == Spec => []CallsInOrder
<1>1. Inductive => CallsInOrder
  BY DEF Inductive, Ordered, Acknowledged, Rising, CallsInOrder
<1> QED BY <1>1, AlwaysInductive, PTL

\* A message whose channel is not found when it is read, behind the answer to the close, was
\* chosen before the subscription ended (connection.hpp:98-105 of the client, channel.hpp:57-80,
\* 185-199 of the broker).
THEOREM PushedToAKnownChannel == Spec => []PushFindsChannel
<1>1. ASSUME Inductive PROVE PushFindsChannel
  <2>1. \A i \in DOMAIN tasks : ~tasks[i].known => tasks[i].n <= ended
    BY <1>1 DEF Inductive, Ended
  <2>2. ASSUME toClient /= <<>>, Head(toClient).kind = "message", ~registered
        PROVE  Head(toClient).n <= ended
    <3>1. toClient \in Seq(Pushed) /\ OneAnswerEach(toClient)
      BY <1>1 DEF Inductive, Types, OnePlace
    <3>2. 1 \in DOMAIN toClient /\ Head(toClient) = toClient[1]
      BY <2>2, <3>1, Reading
    <3>3. Head(toClient).n <= last
      BY <1>1, <2>2, <3>2 DEF Inductive, Ordered, IsMessage
    <3>4. ended = last
      BY <1>1, <2>2 DEF Inductive, Ended
    <3> QED BY <3>3, <3>4
  <2> QED BY <2>1, <2>2 DEF PushFindsChannel
<1> QED BY <1>1, AlwaysInductive, PTL

\* A message of a subscription that has not ended is dropped only while the call that
\* subscribes has not returned (channel.hpp:176-198, 233-244).
THEOREM DroppedOnlyWhileSubscribing == Spec => LiveNotDropped
<1>1. ASSUME Inductive, [Next]_vars
      PROVE  [\A n \in missed' \ missed : n <= ended \/ caller.call = "consume"]_vars
  <2> SUFFICES ASSUME NEW n \in missed' \ missed, ~(n <= ended) PROVE caller.call = "consume"
    OBVIOUS
  <2>1. Consume
    <3>1. CASE Caller
      BY <3>1 DEF Caller, OpenChannel, Return, Drop, Call
    <3>2. CASE Loop
      BY <3>2 DEF Loop, CountDown, SetConnection, Receive
    <3>3. CASE Pool
      BY <3>3 DEF Pool, ConsumeUnknown, Acknowledge, CallbackEnds
    <3>4. CASE CallbackFreed \/ UNCHANGED vars
      BY <3>4 DEF CallbackFreed, vars
    <3>5. CASE Broker
      BY <3>5 DEF Broker, BrokerHandles, BrokerAnswers, OthersTake, BrokerChooses, BrokerPushes
    <3>6. CASE Disconnect
      BY <3>6 DEF Disconnect
    <3> QED BY <1>1, <3>1, <3>2, <3>3, <3>4, <3>5, <3>6 DEF Next
  <2>2. /\ n = Head(tasks).n /\ consumer /= Head(tasks).tag /\ tasks /= <<>>
    BY <2>1 DEF Consume
  <2>3. /\ tasks \in Seq(Task) /\ last \in Nat /\ ended \in Nat /\ ended <= last
        /\ \A r \in Task : r.n \in 1..MaxMsgs
    BY <1>1, TasksAndOutgoing DEF Inductive
  <2>4. 1 \in DOMAIN tasks /\ Head(tasks) = tasks[1] /\ tasks[1] \in Task
    BY <2>2, <2>3
  <2>5. n \in Nat /\ n <= last
    <3>1. 1 \in DOMAIN Numbers(tasks) /\ Numbers(tasks)[1] = n /\ n \in Nat
      BY <2>2, <2>3, <2>4, NumbersOf
    <3>2. Numbers(tasks)[1] < last + 1
      BY <1>1, <3>1 DEF Inductive, Ordered, Below
    <3> QED BY <2>3, <3>1, <3>2
  <2>6. Head(tasks).tag = Says /\ Says /= 0
    <3>1. tasks[1].tag \in 1..MaxTags
      BY <2>4 DEF Task
    <3>2. tasks[1].tag = Says
      BY <1>1, <2>2, <2>3, <2>4, <2>5 DEF Inductive, Live
    <3> QED BY <2>4, <3>1, <3>2, ClientAssumption
  <2>7. opened /\ connected /\ registered
    BY <1>1, <2>3, <2>5 DEF Inductive, Ended
  <2>8. caller.pc = "waiting"
    <3>1. caller.pc \in {"connecting", "ready", "waiting", "dropped"}
      BY <1>1 DEF Inductive, Types
    <3>2. caller.pc /= "connecting" /\ caller.pc /= "dropped"
      BY <1>1, <2>2, <2>7 DEF Inductive, Fresh, Threads
    <3>3. caller.pc /= "ready"
      BY <1>1, <2>2, <2>6, <2>7 DEF Inductive, Agreed
    <3> QED BY <3>1, <3>2, <3>3
  <2>9. PICK a \in Answers : a.id = caller.id
    BY <1>1, <2>2, <2>6, <2>7, <2>8 DEF Inductive, Agreed, Live
  <2>10. caller.call \notin {"cancel", "open", "declare", "delete", "query"}
    BY <1>1, <2>2, <2>6, <2>7, <2>8, <2>9 DEF Inductive, Agreed
  <2>11. caller.call \notin {"close", "drop", "none"}
    BY <1>1, <2>7, <2>8, <2>9 DEF Inductive, Ended, Threads
  <2>12. caller.call \in Calls \union {"none", "drop"}
    BY <1>1 DEF Inductive, Types
  <2> QED BY <2>10, <2>11, <2>12 DEF Calls
<1> QED BY <1>1, AlwaysInductive, PTL DEF Spec, LiveNotDropped
=============================================================================
