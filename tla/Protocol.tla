------------------------------ MODULE Protocol ------------------------------
(***************************************************************************)
(* The messages of the protocol and of the data files                      *)
(* (mqcommon/protocol.pb.h and .cc, msg.pb.h and .cc).  Each class has two *)
(* definitions: the objects of the class, as what can be set and read      *)
(* through its accessors, and its fields, as what it parses, writes and    *)
(* measures.                                                               *)
(***************************************************************************)
EXTENDS Wire

CONSTANTS
    Id,      \* request and channel ids: texts that are not empty
    Text,    \* names, keys, tags and bodies
    ArgMaps  \* maps of text to text

ASSUME ProtocolAssumption ==
    /\ Id \subseteq Seq(Byte) \ {<<>>} /\ Text \subseteq Seq(Byte)
    /\ \A map \in ArgMaps : /\ IsFiniteSet(map) /\ map \subseteq Seq(Byte) \X Seq(Byte)
                            /\ \A p, r \in map : p[1] = r[1] => p = r

UNKNOWTYPE == 0
DIRECT == 1
FANOUT == 2
TOPIC == 3
ExchangeType == {UNKNOWTYPE, DIRECT, FANOUT, TOPIC}

UNKNOWMODE == 0
UNDURABLE == 1
DURABLE == 2
DeliveryMode == {UNKNOWMODE, UNDURABLE, DURABLE}

\* A submessage that may be absent.
Optional(objects) == {<<>>} \union {<<m>> : m \in objects}

-----------------------------------------------------------------------------
(* msg.proto *)

BasicProperties == [id : Text, delivery_mode : DeliveryMode, routing_key : Text]

BasicProperties_fields ==
    <<Field(1, "id", "string"), Field(2, "delivery_mode", "number"), Field(3, "routing_key", "string")>>

\* valid is a text, "1" or "0".
Message_Payload == [properties : Optional(BasicProperties), body : Text, valid : {<<48>>, <<49>>}]

Message_Payload_fields ==
    <<Submessage(1, "properties", BasicProperties_fields), Field(2, "body", "string"), Field(3, "valid", "string")>>

-----------------------------------------------------------------------------
(* protocol.proto *)

openChannelRequest == [rid : Id, cid : Id]

openChannelRequest_fields ==
    <<Field(1, "rid", "string"), Field(2, "cid", "string")>>

closeChannelRequest == [rid : Id, cid : Id]

closeChannelRequest_fields ==
    <<Field(1, "rid", "string"), Field(2, "cid", "string")>>

declareExchangeRequest ==
    [rid : Id, cid : Id, exchange_name : Text, exchange_type : ExchangeType,
     durable : BOOLEAN, auto_delete : BOOLEAN, args : ArgMaps]

declareExchangeRequest_fields ==
    <<Field(1, "rid", "string"), Field(2, "cid", "string"),
      Field(3, "exchange_name", "string"), Field(4, "exchange_type", "number"),
      Field(5, "durable", "bool"), Field(6, "auto_delete", "bool"),
      MapField(7, "args")>>

deleteExchangeRequest == [rid : Id, cid : Id, exchange_name : Text]

deleteExchangeRequest_fields ==
    <<Field(1, "rid", "string"), Field(2, "cid", "string"),
      Field(3, "exchange_name", "string")>>

declareQueueRequest ==
    [rid : Id, cid : Id, queue_name : Text, exclusive : BOOLEAN, durable : BOOLEAN,
     auto_delete : BOOLEAN, args : ArgMaps]

declareQueueRequest_fields ==
    <<Field(1, "rid", "string"), Field(2, "cid", "string"),
      Field(3, "queue_name", "string"), Field(4, "exclusive", "bool"),
      Field(5, "durable", "bool"), Field(6, "auto_delete", "bool"),
      MapField(7, "args")>>

deleteQueueRequest == [rid : Id, cid : Id, queue_name : Text]

deleteQueueRequest_fields ==
    <<Field(1, "rid", "string"), Field(2, "cid", "string"),
      Field(3, "queue_name", "string")>>

bindRequest ==
    [rid : Id, cid : Id, exchange_name : Text, queue_name : Text,
     binding_key : Text]

bindRequest_fields ==
    <<Field(1, "rid", "string"), Field(2, "cid", "string"),
      Field(3, "exchange_name", "string"), Field(4, "queue_name", "string"),
      Field(5, "binding_key", "string")>>

unbindRequest == [rid : Id, cid : Id, exchange_name : Text, queue_name : Text]

unbindRequest_fields ==
    <<Field(1, "rid", "string"), Field(2, "cid", "string"),
      Field(3, "exchange_name", "string"), Field(4, "queue_name", "string")>>

basicPublishRequest ==
    [rid : Id, cid : Id, exchange_name : Text, body : Text,
     properties : Optional(BasicProperties)]

basicPublishRequest_fields ==
    <<Field(1, "rid", "string"), Field(2, "cid", "string"),
      Field(3, "exchange_name", "string"), Field(4, "body", "string"),
      Submessage(5, "properties", BasicProperties_fields)>>

basicAckRequest == [rid : Id, cid : Id, queue_name : Text, message_id : Text]

basicAckRequest_fields ==
    <<Field(1, "rid", "string"), Field(2, "cid", "string"),
      Field(3, "queue_name", "string"), Field(4, "message_id", "string")>>

basicConsumeRequest ==
    [rid : Id, cid : Id, consumer_tag : Text, queue_name : Text, auto_ack : BOOLEAN]

basicConsumeRequest_fields ==
    <<Field(1, "rid", "string"), Field(2, "cid", "string"),
      Field(3, "consumer_tag", "string"), Field(4, "queue_name", "string"),
      Field(5, "auto_ack", "bool")>>

basicCancelRequest == [rid : Id, cid : Id, consumer_tag : Text, queue_name : Text]

basicCancelRequest_fields ==
    <<Field(1, "rid", "string"), Field(2, "cid", "string"),
      Field(3, "consumer_tag", "string"), Field(4, "queue_name", "string")>>

basicConsumeResponse ==
    [cid : Id, consumer_tag : Text, body : Text,
     properties : Optional(BasicProperties)]

basicConsumeResponse_fields ==
    <<Field(1, "cid", "string"), Field(2, "consumer_tag", "string"),
      Field(3, "body", "string"),
      Submessage(4, "properties", BasicProperties_fields)>>

basicCommonResponse == [rid : Id, cid : Id, ok : BOOLEAN]

basicCommonResponse_fields ==
    <<Field(1, "rid", "string"), Field(2, "cid", "string"), Field(3, "ok", "bool")>>

basicQueryRequest == [rid : Id, cid : Id]

basicQueryRequest_fields ==
    <<Field(1, "rid", "string"), Field(2, "cid", "string")>>

basicQueryResponse == [rid : Id, cid : Id, body : Text]

basicQueryResponse_fields ==
    <<Field(1, "rid", "string"), Field(2, "cid", "string"),
      Field(3, "body", "string")>>
=============================================================================
