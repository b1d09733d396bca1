-------------------------------- MODULE Wire --------------------------------
(***************************************************************************)
(* The wire format of the generated protobuf classes                       *)
(* (mqcommon/protocol.pb.cc, msg.pb.cc).  Every class parses, writes and   *)
(* measures itself by the same pattern, one block for each field; here the *)
(* pattern is written once and a class is the sequence of its fields, in   *)
(* the order in which it writes them.                                      *)
(*                                                                         *)
(* A text is a sequence of bytes, a byte a number; a submessage that may   *)
(* be absent is a sequence of at most one record; a map is a set of pairs, *)
(* one for each key.  Submessages, and the entries of maps, hold texts,    *)
(* flags and numbers only.                                                 *)
(***************************************************************************)
EXTENDS Naturals, Sequences, FiniteSets, SequencesExt

Byte == 0..255

\* A field: its number, its name, and how it is written.  Submessages say what their
\* own fields are.
Field(number, name, kind) == [number |-> number, name |-> name, kind |-> kind, of |-> <<>>]
Submessage(number, name, fields) == [number |-> number, name |-> name, kind |-> "message", of |-> fields]
Entry == <<Field(1, "key", "string"), Field(2, "value", "string")>>
MapField(number, name) == [number |-> number, name |-> name, kind |-> "map", of |-> Entry]

\* What a field holds until it is set.
Unset(field) ==
    CASE field.kind \in {"string", "message"} -> <<>>
      [] field.kind = "bool" -> FALSE
      [] field.kind = "number" -> 0
      [] field.kind = "map" -> {}

Names(fields) == {fields[i].name : i \in DOMAIN fields}
Cleared(fields) == [name \in Names(fields) |-> Unset(CHOOSE f \in Range(fields) : f.name = name)]

WireType(kind) == IF kind \in {"bool", "number"} THEN 0 ELSE 2

\* The texts used here are ASCII or not UTF-8.
IsUtf8(text) == \A i \in DOMAIN text : text[i] < 128

\* The map with one more pair, or with another value for its key.
Put(map, key, value) == {p \in map : p[1] /= key} \union {<<key, value>>}

-----------------------------------------------------------------------------
(* Numbers: seven bits a byte, the lowest first, the eighth says that more follow.  Four  *)
(* bytes are enough: no message is as long as 2^28 bytes.                                 *)

Two14 == 16384
Two21 == 2097152
Two28 == 268435456

Low(n) == 128 + (n % 128)
Varint(n) ==
    CASE n < 128 -> <<n>>
      [] 128 <= n /\ n < Two14 -> <<Low(n), n \div 128>>
      [] Two14 <= n /\ n < Two21 -> <<Low(n), Low(n \div 128), n \div Two14>>
      [] n >= Two21 -> <<Low(n), Low(n \div 128), Low(n \div Two14), n \div Two21>>

\* The number behind the first at bytes, and how many bytes it takes: none if it does not end.
ReadVarint(bytes, at) ==
    LET ends == {k \in 1..4 : at + k <= Len(bytes) /\ bytes[at + k] < 128}
        length == IF ends = {} THEN 0 ELSE Min(ends)
        part(k, weight) == IF k <= length THEN (bytes[at + k] % 128) * weight ELSE 0
    IN [value |-> part(1, 1) + part(2, 128) + part(3, Two14) + part(4, Two21), length |-> length]

-----------------------------------------------------------------------------
(* Writing and measuring.  A field that holds what it is cleared to is not written, but a *)
(* submessage that is present is, and so are both parts of a map's entry.                 *)

Sized(bytes) == Varint(Len(bytes)) \o bytes
\* Fault: the length of a text takes one byte.
SizedLength_one_byte(n) == 1 + n

SizedLength(n) == Len(Varint(n)) + n

\* The bytes ByteSizeLong counts for a text, a flag or a number.
ScalarSize(f, v) ==
    CASE f.kind = "string" -> 1 + SizedLength(Len(v))
      [] f.kind = "bool" -> 2
      [] f.kind = "number" -> 1 + Len(Varint(v))

ByteSizeLong(fields, m) ==
    LET size(f) == IF m[f.name] = Unset(f) THEN 0 ELSE ScalarSize(f, m[f.name])
        total[i \in 0..Len(fields)] == IF i = 0 THEN 0 ELSE total[i - 1] + size(fields[i])
    IN total[Len(fields)]

Tag(f) == <<8 * f.number + WireType(f.kind)>>

Scalar(f, v) ==
    CASE f.kind = "string" -> Tag(f) \o Sized(v)
      [] f.kind = "bool" -> Tag(f) \o <<1>>
      [] f.kind = "number" -> Tag(f) \o Varint(v)

Scalars(fields, m) ==
    FlattenSeq([i \in DOMAIN fields |->
      IF m[fields[i].name] = Unset(fields[i]) THEN <<>> ELSE Scalar(fields[i], m[fields[i].name])])

EntryBytes(pair) == FlattenSeq([i \in DOMAIN Entry |-> Scalar(Entry[i], pair[i])])

\* The entries of a map are written in the order pairs.  The length of a submessage is
\* the one ByteSizeLong has measured.
FieldBytes(f, v, pairs) ==
    CASE f.kind = "message" -> Tag(f) \o (Varint(ByteSizeLong(f.of, v[1])) \o Scalars(f.of, v[1]))
      [] f.kind = "map" -> FlattenSeq([i \in DOMAIN pairs |-> Tag(f) \o Sized(EntryBytes(pairs[i]))])
      [] OTHER -> Scalar(f, v)

Serialize(fields, m, pairs) ==
    FlattenSeq([i \in DOMAIN fields |->
      IF m[fields[i].name] = Unset(fields[i]) THEN <<>> ELSE FieldBytes(fields[i], m[fields[i].name], pairs)])

\* The orders in which the map of m, if it has one, may be written.
Orders(fields, m) ==
    LET maps == {f \in Range(fields) : f.kind = "map"}
    IN IF maps = {} THEN {<<>>} ELSE UNION {SetToSeqs(m[f.name]) : f \in maps}

-----------------------------------------------------------------------------
(* Reading: fields in any order, the last value of a field counts, a submessage is        *)
(* merged, fields of another number or wire type are skipped.  A failure leaves what was   *)
(* read before it.                                                                         *)

Parsed(ok, m) == [ok |-> ok, m |-> m]

\* What stands at this place, behind a tag, where n is the number there, as the tag's wire
\* type has it.
NoItem == [ok |-> FALSE]
Item(bytes, tag, n, at) ==
    LET type == tag.value % 8
        end == at + (CASE type = 0 -> n.length [] type = 1 -> 8 [] type = 2 -> n.length + n.value [] type = 5 -> 4)
    IN IF tag.length = 0 \/ tag.value < 8 \/ type \notin {0, 1, 2, 5} \/ (type \in {0, 2} /\ n.length = 0) THEN NoItem
       ELSE IF end > Len(bytes) THEN NoItem
       ELSE [ok |-> TRUE, tag |-> tag.value, value |-> n.value,
             content |-> SubSeq(bytes, at + n.length + 1, end), end |-> end]
AfterTag(bytes, tag, at) == Item(bytes, tag, ReadVarint(bytes, at), at)
TaggedItem(bytes, tag, at) == AfterTag(bytes, tag, at + tag.length)
ItemAt(bytes, at) == TaggedItem(bytes, ReadVarint(bytes, at), at)

\* The fields an item is for: one of them, unless its number or its wire type is another.
Known(fields, item) == {f \in Range(fields) : 8 * f.number + WireType(f.kind) = item.tag}
FieldFor(fields, item) == CHOOSE f \in Known(fields, item) : TRUE

\* How far reading has come, and how far with the next item: set is what the item, if its
\* field is known, makes of the object.
Reading(ok, m, at) == [ok |-> ok, m |-> m, at |-> at]
AfterItem(fields, s, item, set) ==
    IF ~item.ok THEN Reading(FALSE, s.m, s.at)
    ELSE IF Known(fields, item) = {} THEN Reading(TRUE, s.m, item.end)
    ELSE Reading(set.ok, set.m, item.end)

\* The first state in which nothing is left to read, or reading has failed.
Done(s, bytes) == ~s.ok \/ s.at = Len(bytes)
AtEnd(read, bytes) ==
    read[CHOOSE k \in DOMAIN read : Done(read[k], bytes) /\ \A j \in 0..(k - 1) : ~Done(read[j], bytes)]

\* m after an item of a text, a flag or a number.
SetScalar(field, m, item) ==
    LET with(v) == [m EXCEPT ![field.name] = v]
    IN CASE field.kind = "number" -> Parsed(TRUE, with(item.value))
         [] field.kind = "bool" -> Parsed(TRUE, with(item.value /= 0))
         [] field.kind = "string" -> Parsed(IsUtf8(item.content), with(item.content))

ReadScalar(fields, s, item) == AfterItem(fields, s, item, SetScalar(FieldFor(fields, item), s.m, item))
NextScalar(fields, bytes, s) == ReadScalar(fields, s, ItemAt(bytes, s.at))

MergeScalars(fields, m, bytes) ==
    LET read[k \in 0..Len(bytes)] == IF k = 0 THEN Reading(TRUE, m, 0) ELSE NextScalar(fields, bytes, read[k - 1])
    IN AtEnd(read, bytes)

\* m after an item of field.
SetField(field, m, item) ==
    LET with(v) == [m EXCEPT ![field.name] = v]
        before == IF field.kind = "message" /\ m[field.name] /= <<>> THEN m[field.name][1] ELSE Cleared(field.of)
        inner == MergeScalars(field.of, before, item.content)
    IN CASE field.kind = "message" -> Parsed(inner.ok, with(<<inner.m>>))
         [] field.kind = "map" ->
              Parsed(inner.ok, IF inner.ok THEN with(Put(m[field.name], inner.m.key, inner.m.value)) ELSE m)
         [] OTHER -> SetScalar(field, m, item)

ReadField(fields, s, item) == AfterItem(fields, s, item, SetField(FieldFor(fields, item), s.m, item))
NextField(fields, bytes, s) == ReadField(fields, s, ItemAt(bytes, s.at))

Merge(fields, m, bytes) ==
    LET read[k \in 0..Len(bytes)] == IF k = 0 THEN Reading(TRUE, m, 0) ELSE NextField(fields, bytes, read[k - 1])
    IN AtEnd(read, bytes)

ParseFromString(fields, bytes) == Merge(fields, Cleared(fields), bytes)
=============================================================================
