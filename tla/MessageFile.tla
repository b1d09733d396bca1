----------------------------- MODULE MessageFile -----------------------------
(***************************************************************************)
(* The data file of a queue byte by byte (message_mapper of                *)
(* mqserver/message.hpp, over file_helper of mqcommon/helper.hpp), with    *)
(* writes that leave only some of their bytes.  QueueMessage has what the  *)
(* queue does with it, record by record.                                   *)
(*                                                                         *)
(* A record is the length of a payload in eight bytes, the lowest first,   *)
(* and the payload as protobuf writes it.                                  *)
(***************************************************************************)
EXTENDS Protocol

CONSTANTS
    Payloads,    \* payloads of persistent messages
    OffsetMod,   \* Message.offset is uint32: 2^32 in the code
    MaxRecords,  \* bound: records in the file
    MaxFaults    \* bound: writes that leave only some of their bytes

ASSUME MessageFileAssumption ==
    /\ \A p \in Payloads : p.valid = <<49>> /\ \A i \in DOMAIN p.body : p.body[i] < 128
    /\ OffsetMod \in Nat \ {0} /\ MaxRecords \in Nat /\ MaxFaults \in Nat

VARIABLES
    file,     \* the bytes of the data file
    process,  \* "up" with the file loaded, "down", or down after an attempt to load it that
              \* "throws"
    objects,  \* the Message objects of the queue: payload, offset and length
    \* history, not part of the program
    log,      \* the records in the order of the file: payload, whether one of their writes
              \* was short, whether insert() said true, whether they were removed
    faults    \* short writes so far

fileVars == <<file, process, objects, log, faults>>

Zeros(n) == [i \in 1..n |-> 0]

\* The length of a payload in eight bytes.
Size(n) == <<n % 256, n \div 256>> \o Zeros(6)
SizeBytes == 8

\* What write() of these bytes at offset leaves when it gets as far as n of them: a gap
\* before them is zeros.
Written(f, offset, data, n) ==
    LET end == IF n = 0 \/ offset + n < Len(f) THEN Len(f) ELSE offset + n
    IN [i \in 1..end |->
         IF i \in (offset + 1)..(offset + n) THEN data[i - offset]
         ELSE IF i \in DOMAIN f THEN f[i] ELSE 0]

SerializeAsString(payload) == Serialize(Message_Payload_fields, payload, <<>>)

\* Fault: the offset is where the record starts, not its payload.
Object_at_record(payload, fsize, number) ==
    [payload |-> payload, offset |-> fsize % OffsetMod, length |-> Len(SerializeAsString(payload)), number |-> number]

\* The object of record number, which was inserted when the file had fsize bytes.
Object(payload, fsize, number) ==
    [payload |-> payload, offset |-> (fsize + SizeBytes) % OffsetMod,
     length |-> Len(SerializeAsString(payload)), number |-> number]

\* The length at this place, or Huge for each that is longer than any file here.
Huge == 2^24
SizeAt(f, at) == IF \E i \in 4..SizeBytes : f[at + i] /= 0 THEN Huge
                 ELSE FoldRight(LAMBDA byte, n : byte + 256 * n, SubSeq(f, at + 1, at + 3), 0)
WithValid(lst, payload) == IF payload.valid = <<48>> THEN lst ELSE Append(lst, payload)

\* What __load() makes of the bytes from at on, and how it ends: it reads all of them; or
\* meets a length or a payload the file is too short for, and returns false; or meets a
\* length for which it may not even get the memory, and then throws.  What comes of parsing
\* is not looked at.
RECURSIVE LoadFrom(_, _, _)
LoadPayload(f, at, size, lst) ==
    IF at + size > Len(f) THEN [ends |-> IF size = Huge THEN "huge" ELSE "short", lst |-> lst]
    ELSE LoadFrom(f, at + size, WithValid(lst, ParseFromString(Message_Payload_fields, SubSeq(f, at + 1, at + size)).m))
LoadFrom(f, at, lst) ==
    IF at >= Len(f) THEN [ends |-> "whole", lst |-> lst]
    ELSE IF at + SizeBytes > Len(f) THEN [ends |-> "short", lst |-> lst]
    ELSE LoadPayload(f, at + SizeBytes, SizeAt(f, at), lst)

__load(f) == LoadFrom(f, 0, <<>>)

\* The two writes of __insert() at the end of the file, the first leaving n bytes and the
\* second m.
WrittenRecord(f, payload, n, m) ==
    LET data == SerializeAsString(payload)
    IN Written(Written(f, Len(f), Size(Len(data)), n), Len(f) + SizeBytes, data, m)
IsShort(payload, n, m) == n < SizeBytes \/ m < Len(SerializeAsString(payload))

\* The file that gc() writes, its record number i cut to n and m bytes.
Rewritten(lst) ==
    FlattenSeq([i \in DOMAIN lst |-> Size(Len(SerializeAsString(lst[i]))) \o SerializeAsString(lst[i])])
RewrittenUpto(lst, i, n, m) ==
    IF i > Len(lst) THEN Rewritten(lst)
    ELSE WrittenRecord(Rewritten(SubSeq(lst, 1, i - 1)), lst[i], n, m)

\* A record of the file, for the history.
Record(payload, at, whole, stored) ==
    [payload |-> payload, at |-> at, whole |-> whole, stored |-> stored, removed |-> FALSE]

FileInit ==
    /\ file = <<>> /\ process = "up" /\ objects = {}
    /\ log = <<>> /\ faults = 0

\* Each of the two writes may be short; a short write is reported, and ends the insertion,
\* or it is not, because it fails at the close() whose result is not looked at.
InsertRecord ==
    /\ process = "up" /\ Len(log) < MaxRecords
    /\ \E payload \in Payloads :
         \E n \in 0..SizeBytes, m \in 0..Len(SerializeAsString(payload)), told \in BOOLEAN :
           LET short == IsShort(payload, n, m)
               ok == ~told
           IN /\ short => faults < MaxFaults
              /\ told => short /\ (n < SizeBytes => m = 0)
              /\ file' = WrittenRecord(file, payload, n, m)
              /\ faults' = IF short THEN faults + 1 ELSE faults
              /\ objects' = IF ok THEN objects \union {Object(payload, Len(file), Len(log) + 1)} ELSE objects
              /\ log' = Append(log, Record(payload, Len(file), ~short, ok))
    /\ UNCHANGED process

\* What is known of the file once the payload of o is written at its offset.  An object
\* that has its place from a file that was given up, number 0, writes over others.
Marked(o) ==
    LET hit(r) == r.at < o.offset + o.length /\ o.offset < r.at + SizeBytes + Len(SerializeAsString(r.payload))
    IN [i \in DOMAIN log |-> IF i = o.number THEN [log[i] EXCEPT !.removed = TRUE]
                             ELSE IF o.number = 0 /\ hit(log[i]) THEN [log[i] EXCEPT !.whole = FALSE]
                             ELSE log[i]]

\* remove() writes the payload again, marked, unless its length has changed; the queue lets
\* go of the object either way.
RemoveRecord ==
    /\ process = "up"
    /\ \E o \in objects :
         LET data == SerializeAsString([o.payload EXCEPT !.valid = <<48>>])
         IN /\ IF Len(data) = o.length
               THEN file' = Written(file, o.offset, data, Len(data)) /\ log' = Marked(o)
               ELSE UNCHANGED <<file, log>>
            /\ objects' = objects \ {o}
    /\ UNCHANGED <<process, faults>>

\* The process dies, at any byte of what it was writing.
Dies ==
    /\ process = "up"
    /\ process' = "down" /\ objects' = {}
    /\ \/ UNCHANGED <<file, log, faults>>
       \/ /\ faults < MaxFaults /\ Len(log) < MaxRecords
          /\ \E payload \in Payloads :
               LET record == Rewritten(<<payload>>)
               IN \E n \in 1..(Len(record) - 1) :
                    /\ file' = Written(file, Len(file), record, n)
                    /\ log' = Append(log, Record(payload, Len(file), FALSE, FALSE))
          /\ faults' = faults + 1

\* An object that __load() has made and nothing was written of.
Unwritten(payload) == [payload |-> payload, offset |-> 0, length |-> 0, number |-> 0]

\* gc() of what was loaded, lst: all of it is written to another file, which takes the place
\* of the data file; the writes of record i may be short, and that is not noticed...
Rewrites(lst) ==
    \E i \in 1..(Len(lst) + 1) :
      \E n \in 0..SizeBytes, m \in 0..(IF i > Len(lst) THEN 0 ELSE Len(SerializeAsString(lst[i]))) :
        LET cut(j) == IF j < i THEN Rewritten(SubSeq(lst, 1, j))
                      ELSE RewrittenUpto(lst, i, n, m) \o Rewritten(SubSeq(lst, i + 1, j))
            at(j) == Len(cut(j - 1))
        IN /\ i <= Len(lst) => IsShort(lst[i], n, m) /\ faults < MaxFaults
           /\ i > Len(lst) => n = 0
           /\ file' = cut(Len(lst))
           /\ objects' = {Object(lst[j], at(j), j) : j \in DOMAIN lst}
           /\ log' = [j \in DOMAIN lst |-> Record(lst[j], at(j), j /= i, TRUE)]
           /\ faults' = IF i <= Len(lst) THEN faults + 1 ELSE faults

\* ... or it is, and the data file stays, while the objects before have their place in the
\* other.
RewritingFails(lst) ==
    /\ faults < MaxFaults
    /\ \E i \in DOMAIN lst :
         objects' = {IF j < i THEN Object(lst[j], Len(Rewritten(SubSeq(lst, 1, j - 1))), 0)
                     ELSE Unwritten(lst[j]) : j \in DOMAIN lst}
    /\ faults' = faults + 1 /\ UNCHANGED <<file, log>>

\* gc() for recovery().  What could be loaded of a file that ends too early is served, by
\* objects that do not know where they are.  Nothing catches what __load() throws for want
\* of memory: the process dies, and nothing is written.
Recovers ==
    /\ process /= "up"
    /\ \E loaded \in {__load(file)} :
         \/ /\ loaded.ends = "whole"
            /\ process' = "up"
            /\ Rewrites(loaded.lst) \/ RewritingFails(loaded.lst)
         \/ /\ loaded.ends /= "whole"
            /\ process' = "up"
            /\ objects' = {Unwritten(payload) : payload \in ToSet(loaded.lst)}
            /\ UNCHANGED <<file, log, faults>>
         \/ /\ loaded.ends = "huge"
            /\ process' = "throws"
            /\ UNCHANGED <<file, objects, log, faults>>

FileNext == InsertRecord \/ RemoveRecord \/ Dies \/ Recovers

FileSpec == FileInit /\ [][FileNext]_fileVars

-----------------------------------------------------------------------------

\* The payloads of the records that were not removed.
Kept(records) == LET kept == SelectSeq(records, LAMBDA r : ~r.removed)
                 IN [i \in DOMAIN kept |-> kept[i].payload]

\* Whatever a short write or a death leaves in the file, reading it gives every record
\* before the first damage, in order, and none of them that was removed; and a file that no
\* write has damaged is read to its end and never keeps the process from starting
\* (message.hpp:63-161, helper.hpp:141-183: a length and a payload are two writes, a removal
\* overwrites a payload in place, gc() writes all of it again).  That the process gets to
\* serve what it has read is not said of a damaged file: the next length may be any number.
FileReadable ==
    LET damaged == {i \in DOMAIN log : ~log[i].whole}
        intact == IF damaged = {} THEN log ELSE SubSeq(log, 1, (CHOOSE i \in damaged : \A j \in damaged : i <= j) - 1)
        loaded == __load(file)
    IN /\ IsPrefix(Kept(intact), loaded.lst)
       /\ damaged = {} => process /= "throws" /\ loaded.ends = "whole" /\ loaded.lst = Kept(log)

\* message.hpp:210: a message whose insert() said true is read at the next start.
StoredIsThere == \A i \in DOMAIN log : log[i].stored /\ ~log[i].removed => Contains(__load(file).lst, log[i].payload)

\* main.cc:16, src/README.md:263-266: the broker starts, whatever its last run left.
StartsAgain == process /= "throws"
=============================================================================
