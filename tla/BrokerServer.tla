---------------------------- MODULE BrokerServer ----------------------------
(***************************************************************************)
(* The handlers of the broker (mqserver/broker_server.hpp) and of its      *)
(* channels (mqserver/channel.hpp): what a request makes the host and the  *)
(* consumer manager do, and how it is answered.  What the host then does   *)
(* with a call is the subject of VirtualHost and Delivery; here a call is  *)
(* the name of an operation and its arguments, in the order of its         *)
(* parameters, and the host's verdict is any its operation can give.       *)
(***************************************************************************)
EXTENDS Protocol

\* A handler's outcome: the calls it makes, and its answer.
Common(request, ok) == [rid |-> request.rid, cid |-> request.cid, ok |-> ok]
Outcome(calls, class, answer) == [calls |-> calls, class |-> class, answer |-> answer]
Answered(calls, request, ok) == Outcome(calls, "basicCommonResponse", Common(request, ok))
Ignored == Outcome(<<>>, "none", <<>>)

on_declareExchange(req, ok) ==
    Answered(<<<<"declare_exchange", req.exchange_name, req.exchange_type, req.durable, req.auto_delete, req.args>>>>, req, ok)

on_deleteExchange(req) == Answered(<<<<"delete_exchange", req.exchange_name>>>>, req, TRUE)

\* Fault: the flags reach the host in the order of the message's fields.
on_declareQueue_in_field_order(req, ok) ==
    LET declare == <<"declare_queue", req.queue_name, req.exclusive, req.durable, req.auto_delete, req.args>>
    IN Answered(IF ok THEN <<declare, <<"init_queue_consumer", req.queue_name>>>> ELSE <<declare>>, req, ok)

\* The host takes durable before exclusive, the message has them the other way round.
on_declareQueue(req, ok) ==
    LET declare == <<"declare_queue", req.queue_name, req.durable, req.exclusive, req.auto_delete, req.args>>
    IN Answered(IF ok THEN <<declare, <<"init_queue_consumer", req.queue_name>>>> ELSE <<declare>>, req, ok)

on_deleteQueue(req) ==
    Answered(<<<<"destroy_queue_consumer", req.queue_name>>, <<"delete_queue", req.queue_name>>>>, req, TRUE)

on_bind(req, ok) == Answered(<<<<"bind", req.exchange_name, req.queue_name, req.binding_key>>>>, req, ok)

on_unbind(req) == Answered(<<<<"unbind", req.exchange_name, req.queue_name>>>>, req, TRUE)

\* ok: the exchange exists.  A queue it is bound to gets the message if the router says so
\* for the routing key, which is empty when there are no properties.
on_basicPublish(req, ok) ==
    LET key == IF req.properties = <<>> THEN <<>> ELSE req.properties[1].routing_key
    IN Answered(IF ok THEN <<<<"basic_publish", req.exchange_name, key, req.properties, req.body>>>> ELSE <<>>, req, ok)

on_basicAck(req) == Answered(<<<<"basic_ack", req.queue_name, req.message_id>>>>, req, TRUE)

\* ok: the queue exists.
on_basicConsume(req, ok) ==
    Answered(IF ok THEN <<<<"create", req.consumer_tag, req.queue_name, req.auto_ack>>>> ELSE <<>>, req, ok)

\* A cancellation is answered false.
on_basicCancel(req) == Answered(<<<<"remove", req.consumer_tag, req.queue_name>>>>, req, FALSE)

\* The state of the host as a text.
on_basicQuery(req, status) ==
    Outcome(<<<<"basic_query">>>>, "basicQueryResponse", [rid |-> req.rid, cid |-> req.cid, body |-> status])

\* The connection opens and closes channels itself.  Opening one that is open is answered false.
on_openChannel(req, channels) == Answered(<<>>, req, req.cid \notin channels)
on_closeChannel(req) == Answered(<<>>, req, TRUE)

Channels(class, req, channels) ==
    CASE class = "openChannelRequest" -> channels \union {req.cid}
      [] class = "closeChannelRequest" -> channels \ {req.cid}
      [] OTHER -> channels

\* The dispatcher finds the handler of the class.  A request for a channel the connection
\* does not have is ignored: nothing is called and nobody is told.
Handle(class, req, channels, ok, status) ==
    CASE class = "openChannelRequest" -> on_openChannel(req, channels)
      [] class = "closeChannelRequest" -> on_closeChannel(req)
      [] class \notin {"openChannelRequest", "closeChannelRequest"} /\ req.cid \notin channels -> Ignored
      [] class \notin {"openChannelRequest", "closeChannelRequest"} /\ req.cid \in channels ->
           CASE class = "declareExchangeRequest" -> on_declareExchange(req, ok)
             [] class = "deleteExchangeRequest" -> on_deleteExchange(req)
             [] class = "declareQueueRequest" -> on_declareQueue(req, ok)
             [] class = "deleteQueueRequest" -> on_deleteQueue(req)
             [] class = "bindRequest" -> on_bind(req, ok)
             [] class = "unbindRequest" -> on_unbind(req)
             [] class = "basicPublishRequest" -> on_basicPublish(req, ok)
             [] class = "basicAckRequest" -> on_basicAck(req)
             [] class = "basicConsumeRequest" -> on_basicConsume(req, ok)
             [] class = "basicCancelRequest" -> on_basicCancel(req)
             [] class = "basicQueryRequest" -> on_basicQuery(req, status)

\* consume_cb: a message is pushed to the client with what its properties say, if it has any.
Push(cid, tag, properties, body) == [cid |-> cid, consumer_tag |-> tag, body |-> body, properties |-> properties]
=============================================================================
