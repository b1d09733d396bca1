---------------------------- MODULE MCConversions ----------------------------
(* Instances of Router, Args, Session and MessageFile for TLC. *)
EXTENDS Router, Args, Session, MessageFile

\* Keys without separators; values may hold the separator of key and value.
ShortKeys == {<<"a">>, <<"b">>, <<"a", "b">>}
ShortValues == {<<>>, <<"a">>, <<"=">>, <<"a", "=", "b">>}

\* Texts: empty, longer than one byte of length can say, and not UTF-8.
Long == [i \in 1..128 |-> 97]
Texts == {<<>>, Long, <<98, 255>>}
Ids == {<<49>>, <<50>>}
SomeMaps == {{}, {<<<<97>>, <<>>>>}, {<<<<97>>, <<98>>>>, <<<<>>, Long>>}, {<<<<97>>, <<98, 255>>>>}}

\* Words of every kind, and some of no kind; flags, types and modes by their first letter.
a == <<97>>
b == <<98>>
FlagWords == {true, false, a}

ArgTexts ==
    (<<>> :> {}) @@ (<<97, 61, 98>> :> {<<a, b>>}) @@ (<<97, 61>> :> {<<a, <<>>>>})
    @@ (<<97, 61, 98, 38, 98, 61, 97>> :> {<<a, b>>, <<b, a>>})
    @@ (<<97, 61, 98, 61, 97>> :> {<<a, <<98, 61, 97>>>>})
    @@ (<<97, 61, 98, 38, 97, 61, 97>> :> {<<a, b>>})
ArgWords == DOMAIN ArgTexts \union {a, <<97, 61, 98, 38>>}
Line(cmds, words) == [cmd : cmds, words : words]
Upto(words) == UNION {[1..n -> words] : n \in 0..3}

SomeLines ==
    Line({"bind"}, Upto({a, b}) \union {<<a, b, <<>>, a>>})
    \union Line({"unbind", "delete_exchange", "delete_queue"}, Upto({a, b}))
    \union Line({"declare_exchange"},
        {<<a>> \o w : w \in [1..3 -> FlagWords \union DOMAIN TypeWords]}
        \union {<<a, t, f, g, m>> : t \in DOMAIN TypeWords \union {a}, f \in FlagWords, g \in FlagWords, m \in ArgWords}
        \union {<<a>>, <<a, <<68>>, true>>, <<a, <<68>>, true, true, a, a>>})
    \union Line({"declare_queue"},
        {<<a>> \o w : w \in [1..3 -> FlagWords]}
        \union {<<a, f, g, h, m>> : f \in FlagWords, g \in FlagWords, h \in FlagWords, m \in ArgWords}
        \union {<<a>>, <<a, true, true>>, <<a, true, true, true, a, a>>})
    \union Line({"publish", "publish_mode"},
        {<<a, m, b>> : m \in {Word_DURABLE, Word_UNDURABLE, Word_DIRECT, a}} \union {<<a>>, <<a, Word_DURABLE>>, <<a, a, a, a>>})
    \union Line({"subscribe"}, {<<a, b, f>> : f \in FlagWords} \union {<<a, b>>, <<a, b, true, true>>})
    \union Line({"svrstat"}, Upto({a}))
Persistent(id, text) ==
    [properties |-> <<[id |-> id, delivery_mode |-> DURABLE, routing_key |-> <<>>]>>, body |-> text, valid |-> <<49>>]
SomePayloads == {Persistent(a, <<>>), Persistent(b, a)}

SomeBodies == {<<>>, a, quit, <<98, 255>>}

-----------------------------------------------------------------------------
\* The four share nothing, so each moves only while the others are where they began.
RouterIdle == binding = <<>> /\ routing = <<>>
ArgsIdle == args = {} /\ declared = {}
SessionIdle == stage = "idle" /\ channels = {}
FileIdle == log = <<>> /\ process = "up" /\ faults = 0

RouterAlone == ArgsIdle /\ SessionIdle /\ FileIdle /\ Next /\ UNCHANGED <<argsVars, sessionVars, fileVars>>
ArgsAlone == RouterIdle /\ SessionIdle /\ FileIdle /\ RestartArgs /\ UNCHANGED <<vars, sessionVars, fileVars>>
SessionAlone == RouterIdle /\ ArgsIdle /\ FileIdle /\ SessionNext /\ UNCHANGED <<vars, argsVars, fileVars>>
FileAlone == RouterIdle /\ ArgsIdle /\ SessionIdle /\ FileNext /\ UNCHANGED <<vars, argsVars, sessionVars>>

AllInit == Init /\ ArgsInit /\ SessionInit /\ FileInit
AllNext == RouterAlone \/ ArgsAlone \/ SessionAlone \/ FileAlone
AllSpec == AllInit /\ [][AllNext]_<<vars, argsVars, sessionVars, fileVars>>
=============================================================================
