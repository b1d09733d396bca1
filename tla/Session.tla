------------------------------- MODULE Session -------------------------------
(***************************************************************************)
(* A connection from end to end: what a user types, or a program calls,    *)
(* becomes a request (Commands), bytes (Wire, Protocol), what the broker   *)
(* does (BrokerServer), the bytes of an answer and the answer.  One        *)
(* request at a time: how requests, answers and pushed messages interleave *)
(* is the subject of ClientChannel.                                        *)
(***************************************************************************)
EXTENDS Commands, BrokerServer

CONSTANTS
    MaxMessage,  \* the longest message the codec takes, in bytes (64 MB in muduo)
    Lines,       \* lines users type: a command and the words after it
    Bodies,      \* lines they type as a message
    ArgMeaning   \* the map that a text of other_args means, for every text with a meaning

CommandWords ==
    {"bind", "unbind", "declare_exchange", "delete_exchange", "declare_queue", "delete_queue",
     "publish", "publish_mode", "subscribe", "svrstat"}

ASSUME SessionAssumption ==
    /\ MaxMessage \in Nat /\ MaxMessage < Two28
    /\ Lines \subseteq [cmd : CommandWords, words : Seq(Seq(Byte))] /\ Bodies \subseteq Seq(Byte)

VARIABLES
    stage,     \* where the request is
    prompt,    \* what the command-line client reads next
    typed,     \* the line the request comes from; its command is "none" if a program makes it
    body,      \* the last message typed
    request,   \* the request and its class
    bytes,     \* what is on the way, in either direction
    got,       \* what the receiver made of it
    channels,  \* the channels the broker has open on this connection
    outcome    \* what the broker did and answered

sessionVars == <<stage, prompt, typed, body, request, bytes, got, channels, outcome>>

Nothing == [class |-> "none", req |-> <<>>]
NoLine == [cmd |-> "none", words |-> <<>>]
AtCommand == [reads |-> "command", cmd |-> "none", words |-> <<>>, properties |-> <<>>]
Cid == CHOOSE cid \in Id : TRUE

Requests ==
    [openChannelRequest |-> openChannelRequest, closeChannelRequest |-> closeChannelRequest,
     declareExchangeRequest |-> declareExchangeRequest, deleteExchangeRequest |-> deleteExchangeRequest,
     declareQueueRequest |-> declareQueueRequest, deleteQueueRequest |-> deleteQueueRequest,
     bindRequest |-> bindRequest, unbindRequest |-> unbindRequest,
     basicPublishRequest |-> basicPublishRequest, basicAckRequest |-> basicAckRequest,
     basicConsumeRequest |-> basicConsumeRequest, basicCancelRequest |-> basicCancelRequest,
     basicQueryRequest |-> basicQueryRequest]

\* The classes the two dispatchers have handlers for.
FieldsOf ==
    [openChannelRequest |-> openChannelRequest_fields, closeChannelRequest |-> closeChannelRequest_fields,
     declareExchangeRequest |-> declareExchangeRequest_fields, deleteExchangeRequest |-> deleteExchangeRequest_fields,
     declareQueueRequest |-> declareQueueRequest_fields, deleteQueueRequest |-> deleteQueueRequest_fields,
     bindRequest |-> bindRequest_fields, unbindRequest |-> unbindRequest_fields,
     basicPublishRequest |-> basicPublishRequest_fields, basicAckRequest |-> basicAckRequest_fields,
     basicConsumeRequest |-> basicConsumeRequest_fields, basicCancelRequest |-> basicCancelRequest_fields,
     basicQueryRequest |-> basicQueryRequest_fields, basicCommonResponse |-> basicCommonResponse_fields,
     basicConsumeResponse |-> basicConsumeResponse_fields, basicQueryResponse |-> basicQueryResponse_fields]

SessionInit ==
    /\ stage = "idle" /\ prompt = AtCommand /\ typed = NoLine /\ body = <<>>
    /\ request = Nothing /\ bytes = <<>> /\ got = <<>> /\ channels = {} /\ outcome = Ignored

\* The codec writes an object of a class.
Encoded(class, m) == {Serialize(FieldsOf[class], m, pairs) : pairs \in Orders(FieldsOf[class], m)}

\* The codec at the other end: what is too long it does not look at.
Decoded(class, text) ==
    IF Len(text) > MaxMessage THEN Parsed(FALSE, Cleared(FieldsOf[class])) ELSE ParseFromString(FieldsOf[class], text)

-----------------------------------------------------------------------------
(* The client *)

Send(r) ==
    /\ request' = r
    /\ bytes' \in Encoded(r.class, r.req)
    /\ stage' = "sent"

\* A program calls the library with anything.
Call ==
    /\ stage = "idle" /\ prompt.reads = "command"
    /\ \E class \in DOMAIN Requests : \E req \in Requests[class] : Send([class |-> class, req |-> req])
    /\ UNCHANGED <<prompt, typed, body, got, channels, outcome>>

\* run_cmd on a line the client knows the command of.  publish goes on to read a message.
Type ==
    /\ stage = "idle" /\ prompt.reads = "command" /\ Cid \in channels
    /\ \E line \in Lines : \E rid \in Id :
         /\ typed' = line
         /\ IF ~Accepts(line.cmd, line.words)
            THEN stage' = "usage" /\ UNCHANGED <<prompt, request, bytes>>
            ELSE IF line.cmd \in {"publish", "publish_mode"}
            THEN /\ prompt' = [reads |-> "message", cmd |-> line.cmd, words |-> line.words,
                               properties |-> <<PropertiesOf(line.words, rid)>>]
                 /\ UNCHANGED <<stage, request, bytes>>
            ELSE /\ Send(RequestOf(line.cmd, line.words, rid, Cid))
                 /\ UNCHANGED prompt
    /\ UNCHANGED <<body, got, channels, outcome>>

\* The message of a publication, or the word that ends the loop of publish_mode.
TypeMessage ==
    /\ stage = "idle" /\ prompt.reads = "message"
    /\ \E line \in Bodies : \E rid \in Id :
         IF line = quit
         THEN prompt' = AtCommand /\ typed' = NoLine /\ UNCHANGED <<stage, body, request, bytes>>
         ELSE /\ Send(basic_publish(rid, Cid, prompt.words[1], prompt.properties, line))
              /\ typed' = [cmd |-> prompt.cmd, words |-> prompt.words]
              /\ body' = line
              /\ UNCHANGED prompt
    /\ UNCHANGED <<got, channels, outcome>>

\* The word that ends a subscription: its channel cancels what it has subscribed to.
TypeQuit ==
    /\ stage = "idle" /\ prompt.reads = "quit"
    /\ IF prompt.cmd = "subscribe"
       THEN \E rid \in Id : Send(basic_cancel(rid, Cid, prompt.words[1], prompt.words[2]))
       ELSE UNCHANGED <<stage, request, bytes>>
    /\ prompt' = AtCommand
    /\ UNCHANGED <<typed, body, got, channels, outcome>>

\* The client reads an answer or a pushed message.
ClientReads ==
    /\ stage \in {"handled", "pushed"}
    /\ LET parsed == Decoded(outcome.class, bytes)
       IN /\ got' = parsed.m
          /\ stage' = IF parsed.ok THEN "answered" ELSE "lost"
    /\ bytes' = <<>>
    /\ UNCHANGED <<prompt, typed, body, request, channels, outcome>>

\* run_cmd returns, or goes on: publish_mode reads the next message, and subscribe waits
\* for the word quit even if it has failed.  Whoever made a request that was ignored waits
\* for ever, and another thread makes the next.
Return ==
    /\ stage \in {"answered", "ignored", "usage"}
    /\ stage' = "idle"
    /\ prompt' = CASE stage = "answered" /\ typed.cmd = "publish_mode" -> prompt
                   [] stage = "answered" /\ typed.cmd = "subscribe" /\ request.class = "basicConsumeRequest" ->
                        [reads |-> "quit", cmd |-> IF got.ok THEN "subscribe" ELSE "none",
                         words |-> typed.words, properties |-> <<>>]
                   [] OTHER -> AtCommand
    /\ typed' = NoLine /\ body' = <<>> /\ request' = Nothing /\ bytes' = <<>> /\ got' = <<>> /\ outcome' = Ignored
    /\ UNCHANGED channels

-----------------------------------------------------------------------------
(* The broker *)

\* The dispatcher hands a request that can be parsed to its handler; the codec shuts the
\* connection down on one that cannot, and the connection's channels go with it.
BrokerReads ==
    /\ stage = "sent"
    /\ LET parsed == Decoded(request.class, bytes)
       IN /\ got' = parsed.m
          /\ IF ~parsed.ok
             THEN stage' = "lost" /\ channels' = {} /\ bytes' = <<>> /\ UNCHANGED outcome
             ELSE \E ok \in BOOLEAN : \E status \in {t \in Text : IsUtf8(t)} :
                    /\ outcome' = Handle(request.class, parsed.m, channels, ok, status)
                    /\ channels' = Channels(request.class, parsed.m, channels)
                    /\ IF outcome'.class = "none"
                       THEN stage' = "ignored" /\ bytes' = <<>>
                       ELSE stage' = "handled" /\ bytes' \in Encoded(outcome'.class, outcome'.answer)
    /\ UNCHANGED <<prompt, typed, body, request>>

\* A message is pushed to a channel of the connection.  What publishers send is UTF-8 by
\* the time it is here, but what a queue has read from a damaged file may be any text.
BrokerPushes ==
    /\ stage = "idle" /\ prompt.reads = "command"
    /\ \E cid \in channels, tag, content \in Text, properties \in BasicProperties :
         /\ IsUtf8(tag)
         /\ outcome' = Outcome(<<>>, "basicConsumeResponse", Push(cid, tag, <<properties>>, content))
    /\ bytes' \in Encoded("basicConsumeResponse", outcome'.answer)
    /\ stage' = "pushed"
    /\ UNCHANGED <<prompt, typed, body, request, got, channels>>

SessionNext ==
    \/ Call \/ Type \/ TypeMessage \/ TypeQuit \/ ClientReads \/ Return
    \/ BrokerReads \/ BrokerPushes

SessionSpec == SessionInit /\ [][SessionNext]_sessionVars

-----------------------------------------------------------------------------

LegibleScalars(fields, m) ==
    \A i \in DOMAIN fields : fields[i].kind = "string" => IsUtf8(m[fields[i].name])
Legible(fields, m) ==
    \A i \in DOMAIN fields : LET v == m[fields[i].name]
        IN CASE fields[i].kind = "string" -> IsUtf8(v)
             [] fields[i].kind = "map" -> \A p \in v : IsUtf8(p[1]) /\ IsUtf8(p[2])
             [] fields[i].kind = "message" -> v /= <<>> => LegibleScalars(fields[i].of, v[1])
             [] OTHER -> TRUE

\* A message of any class arrives as the object that was sent, whatever its fields hold and
\* in whatever order its map is written; only a text that is not UTF-8, or too much of it,
\* costs the connection (the classes of protocol.pb.cc; the writer only logs such a text,
\* the reader refuses it).
Delivered ==
    LET message == IF outcome.class = "none" THEN request ELSE [class |-> outcome.class, req |-> outcome.answer]
        legible == message.class \in DOMAIN FieldsOf /\ Legible(FieldsOf[message.class], message.req)
        short == \A text \in Encoded(message.class, message.req) : Len(text) <= MaxMessage
    IN /\ stage = "answered" => legible /\ got = message.req
       /\ stage \in {"handled", "ignored"} => Legible(FieldsOf[request.class], request.req) /\ got = request.req
       /\ stage = "lost" => ~legible \/ ~short

\* What the usage texts say of the words after each command.
Usage ==
    [bind |-> <<"text", "text", "text">>, unbind |-> <<"text", "text">>,
     declare_exchange |-> <<"text", "type", "flag", "flag", "args">>, delete_exchange |-> <<"text">>,
     declare_queue |-> <<"text", "flag", "flag", "flag", "args">>, delete_queue |-> <<"text">>,
     publish |-> <<"text", "mode", "text">>, publish_mode |-> <<"text", "mode", "text">>,
     subscribe |-> <<"text", "text", "flag">>]

Readable(kind, word) ==
    /\ kind = "flag" => word \in {true, false}
    /\ kind = "type" => word \in DOMAIN TypeWords
    /\ kind = "mode" => word \in {Word_DURABLE, Word_UNDURABLE}
    /\ kind = "args" => word \in DOMAIN ArgMeaning

Meaning(kind, word) ==
    CASE kind = "text" -> word
      [] kind = "flag" -> word = true
      [] kind = "type" -> TypeWords[word]
      [] kind = "mode" -> IF word = Word_DURABLE THEN DURABLE ELSE UNDURABLE
      [] kind = "args" -> ArgMeaning[word]

\* What a line with all its words means to the host.
Meant(cmd, words) ==
    <<IF cmd = "subscribe" THEN "create" ELSE cmd>> \o [i \in DOMAIN Usage[cmd] |->
        IF i \in DOMAIN words THEN Meaning(Usage[cmd][i], words[i]) ELSE {}]

Publications == {"publish", "publish_mode"}

\* The lines the client goes on with: of a publication it only counts the words, and takes
\* any for the mode; the others are those their usage fits, where the args may be left out.
Taken(cmd, words) ==
    LET kinds == Usage[cmd]
    IN IF cmd \in Publications
       THEN Len(words) = Len(kinds)
       ELSE /\ Len(words) \in {Len(kinds)} \union {Len(kinds) - 1 : k \in {j \in DOMAIN kinds : kinds[j] = "args"}}
            /\ \A i \in DOMAIN words : Readable(kinds[i], words[i])

\* A message is published to the exchange that was typed, with the empty key whatever was;
\* DURABLE makes it durable and DIRECT, which no usage text has, makes it not so: with any
\* other word, UNDURABLE too, its mode is neither.
Published(words, text, call) ==
    /\ call[2] = words[1] /\ call[3] = <<>> /\ call[5] = text
    /\ call[4][1].delivery_mode = DURABLE <=> words[2] = Word_DURABLE
    /\ call[4][1].delivery_mode = UNDURABLE <=> words[2] = Word_DIRECT

\* A line is refused exactly when it is not one of those, and otherwise the broker calls its
\* host with what was typed, through request, message and handler: each word of a line in
\* its place, and of a publication what Published says (client.cc:182-400, channel.hpp of
\* both sides).  That a publication does not do all its usage says is left to KeySent and
\* ModeSent.
TypedIsDone ==
    typed.cmd \in DOMAIN Usage =>
      /\ stage = "usage" <=> ~Taken(typed.cmd, typed.words)
      /\ stage \in {"handled", "answered"} =>
           CASE typed.cmd \in Publications -> outcome.answer.ok => Published(typed.words, body, outcome.calls[1])
             [] typed.cmd = "subscribe" -> outcome.answer.ok => outcome.calls = <<Meant(typed.cmd, typed.words)>>
             [] OTHER -> Meant(typed.cmd, typed.words) \in Range(outcome.calls)

\* client.cc:172: publish takes an exchange, a mode and a binding key.  Here: the word in
\* that place is the key the message is routed by.
KeySent ==
    stage = "handled" /\ typed.cmd \in {"publish", "publish_mode"} /\ outcome.calls /= <<>> =>
        outcome.calls[1][3] = typed.words[3]

\* client.cc:172-173: the mode is DURABLE or UNDURABLE.  Here: a line with one of these is
\* published with that mode.
ModeSent ==
    stage = "handled" /\ typed.cmd \in Publications /\ outcome.calls /= <<>> /\ Readable("mode", typed.words[2]) =>
        outcome.calls[1][4][1].delivery_mode = Meaning("mode", typed.words[2])
=============================================================================
