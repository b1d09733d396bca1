------------------------------ MODULE Commands ------------------------------
(***************************************************************************)
(* The command-line client (mqclient/client.cc): what run_cmd makes of a   *)
(* line of words, and the requests the channel of the client library       *)
(* builds (mqclient/channel.hpp).  A line is a command and the words after *)
(* it; the words that the client knows are abbreviated to one letter.      *)
(* Commands that only print, and usage texts, are left out.                *)
(***************************************************************************)
EXTENDS Protocol, Strings

\* The words run_cmd compares with, by their first letter.
true == <<116>>
false == <<102>>
TypeWords ==
    [word \in {<<68>>, <<70>>, <<84>>} |->
      CASE word[1] = 68 -> DIRECT [] word[1] = 70 -> FANOUT [] word[1] = 84 -> TOPIC]
Word_DURABLE == <<68, 85>>
Word_DIRECT == <<68>>
Word_UNDURABLE == <<85>>
quit == <<113>>

-----------------------------------------------------------------------------
(* Requests of the channel *)

openChannel(rid, cid) == [class |-> "openChannelRequest", req |-> [rid |-> rid, cid |-> cid]]

declare_exchange(rid, cid, name, type, durable, auto_delete, args) ==
    [class |-> "declareExchangeRequest",
     req |-> [rid |-> rid, cid |-> cid, exchange_name |-> name, exchange_type |-> type,
              durable |-> durable, auto_delete |-> auto_delete, args |-> args]]

delete_exchange(rid, cid, name) ==
    [class |-> "deleteExchangeRequest", req |-> [rid |-> rid, cid |-> cid, exchange_name |-> name]]

declare_queue(rid, cid, qname, qdurable, qexclusive, qauto_delete, qargs) ==
    [class |-> "declareQueueRequest",
     req |-> [rid |-> rid, cid |-> cid, queue_name |-> qname, durable |-> qdurable,
              exclusive |-> qexclusive, auto_delete |-> qauto_delete, args |-> qargs]]

delete_queue(rid, cid, name) ==
    [class |-> "deleteQueueRequest", req |-> [rid |-> rid, cid |-> cid, queue_name |-> name]]

bind(rid, cid, ename, qname, key) ==
    [class |-> "bindRequest",
     req |-> [rid |-> rid, cid |-> cid, exchange_name |-> ename, queue_name |-> qname, binding_key |-> key]]

unbind(rid, cid, ename, qname) ==
    [class |-> "unbindRequest", req |-> [rid |-> rid, cid |-> cid, exchange_name |-> ename, queue_name |-> qname]]

\* bp is a sequence of at most one set of properties, copied field by field.
basic_publish(rid, cid, ename, bp, body) ==
    [class |-> "basicPublishRequest",
     req |-> [rid |-> rid, cid |-> cid, exchange_name |-> ename, body |-> body, properties |-> bp]]

basic_consume(rid, cid, consumer_tag, queue_name, auto_ack) ==
    [class |-> "basicConsumeRequest",
     req |-> [rid |-> rid, cid |-> cid, consumer_tag |-> consumer_tag, queue_name |-> queue_name, auto_ack |-> auto_ack]]

basic_cancel(rid, cid, consumer_tag, queue_name) ==
    [class |-> "basicCancelRequest",
     req |-> [rid |-> rid, cid |-> cid, consumer_tag |-> consumer_tag, queue_name |-> queue_name]]

basic_query(rid, cid) == [class |-> "basicQueryRequest", req |-> [rid |-> rid, cid |-> cid]]

-----------------------------------------------------------------------------
(* Lines *)

Flags(words) == \A i \in DOMAIN words : words[i] \in {true, false}

\* The word that names the args, if there is one.
OtherArgs(words) == SubSeq(words, 5, Len(words))

\* The pieces of other_args; the first value of a key counts.
Pieces(words) == IF words = <<>> \/ words[1] = <<>> THEN <<>> ELSE Split(words[1], 38)
ArgsLegal(words) == \A i \in DOMAIN Pieces(words) : Has(Pieces(words)[i], 61)
ArgsOf(words) ==
    LET pieces == Pieces(words)
        IsNew(i) == \A j \in 1..(i - 1) : Cut(pieces[j], 61)[1] /= Cut(pieces[i], 61)[1]
    IN {Cut(pieces[i], 61) : i \in {i \in DOMAIN pieces : IsNew(i)}}

\* Whether run_cmd goes on with a line, or prints the usage and returns false.
Accepts(cmd, words) ==
    CASE cmd = "bind" -> Len(words) = 3
      [] cmd = "unbind" -> Len(words) = 2
      [] cmd = "declare_exchange" ->
           /\ Len(words) \in {4, 5}
           /\ words[2] \in DOMAIN TypeWords /\ Flags(SubSeq(words, 3, 4)) /\ ArgsLegal(OtherArgs(words))
      [] cmd = "declare_queue" ->
           /\ Len(words) \in {4, 5}
           /\ Flags(SubSeq(words, 2, 4)) /\ ArgsLegal(OtherArgs(words))
      [] cmd \in {"delete_exchange", "delete_queue"} -> Len(words) = 1
      [] cmd \in {"publish", "publish_mode"} -> Len(words) = 3
      [] cmd = "subscribe" -> Len(words) = 3 /\ Flags(<<words[3]>>)
      [] cmd = "svrstat" -> TRUE

\* The request of an accepted line, publications excepted.
RequestOf(cmd, words, rid, cid) ==
    LET flag(i) == words[i] = true
    IN CASE cmd = "bind" -> bind(rid, cid, words[1], words[2], words[3])
         [] cmd = "unbind" -> unbind(rid, cid, words[1], words[2])
         [] cmd = "declare_exchange" ->
              declare_exchange(rid, cid, words[1], TypeWords[words[2]], flag(3), flag(4), ArgsOf(OtherArgs(words)))
         [] cmd = "declare_queue" ->
              declare_queue(rid, cid, words[1], flag(2), flag(3), flag(4), ArgsOf(OtherArgs(words)))
         [] cmd = "delete_exchange" -> delete_exchange(rid, cid, words[1])
         [] cmd = "delete_queue" -> delete_queue(rid, cid, words[1])
         [] cmd = "subscribe" -> basic_consume(rid, cid, words[1], words[2], flag(3))
         [] cmd = "svrstat" -> basic_query(rid, cid)

\* The properties of the messages of one publish or publish_mode: their id and the word
\* for the mode, where UNDURABLE is spelt DIRECT.  The routing key is not set.
PropertiesOf(words, id) ==
    [id |-> id,
     delivery_mode |-> CASE words[2] = Word_DURABLE -> DURABLE
                         [] words[2] = Word_DIRECT -> UNDURABLE
                         [] OTHER -> UNKNOWMODE,
     routing_key |-> <<>>]
=============================================================================
