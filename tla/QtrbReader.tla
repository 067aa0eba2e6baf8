----------------------------- MODULE QtrbReader -----------------------------
(***************************************************************************)
(* A normal trace file between the process that wrote it and the reader of *)
(* qtrace-provider (qtrb/mod.rs, qtrb/input.rs).  The writer              *)
(* (events/binary_trace_writer.cpp) appends records; the file is closed,   *)
(* or the process dies and leaves a part of it; then the reader decodes    *)
(* the file record by record.                                              *)
(*                                                                         *)
(* A record keeps what the reader decides on.  Lengths are counted in      *)
(* records, so the byte count of a terminal is its position.  `tag` tells  *)
(* the logical events of the writer apart.                                 *)
(***************************************************************************)
EXTENDS Integers, FiniteSetsExt, SequencesExt

CONSTANTS
    Opcodes,       \* instructions the dictionary tells apart
    MaxDictionary, \* MAX_DICTIONARY_ENTRIES
    MaxRecords     \* bound: records before the terminal

QtrbAssumption == MaxRecords \in Nat /\ MaxDictionary \in Nat

VARIABLES
    stream,   \* the records the writer appended
    closed,   \* the writer has finished with the file
    file,     \* the file as the reader finds it: a sequence of frames
    damage,   \* what has happened to it
    mode,     \* OpenMode: "Sealed" or "Partial"
    cursor    \* QtrbEventCursor

vars == <<stream, closed, file, damage, mode, cursor>>

NoFragment == [event |-> 0]

FreshCursor ==
    [state |-> "none", source |-> <<>>, offset |-> 0, modules |-> {}, definitions |-> {},
     pending |-> NoFragment, began |-> FALSE, terminal |-> "none", next_sequence |-> 1,
     instructions |-> 0, missing |-> FALSE, out |-> <<>>]

Init == /\ stream = <<>> /\ closed = FALSE /\ file = <<>> /\ damage = "none"
        /\ mode = "none" /\ cursor = FreshCursor
-----------------------------------------------------------------------------
(* The records, and the events that the writer means by them: a group of   *)
(* chunks is one event, told by its first chunk.                           *)
Tag == Len(stream) + 1
Record(type) == [type |-> type, chunk |-> FALSE, whole |-> TRUE]
Chunk(kind, event, i, n) ==
    [type |-> kind, chunk |-> TRUE, whole |-> TRUE, event |-> event, index |-> i,
     count |-> n]

Of(type) == SelectSeq(stream, LAMBDA r : r.type = type)
Terminals == {"end", "stop"}

Written == SelectSeq(stream, LAMBDA r : ~r.chunk \/ r.index = 0)

Appends(records) ==
    /\ Len(stream) + Len(records) <= MaxRecords \/ Head(records).type \in Terminals
    /\ stream' = stream \o records
    /\ UNCHANGED <<closed, file, damage, mode, cursor>>

(* BinaryTraceWriter::begin, instruction, call/rule/error, finalize.       *)
WriteBegin ==
    /\ stream = <<>>
    /\ Appends(<<Record("begin"), [id |-> 1, base |-> 0] @@ Record("module")>>)

Writing == stream # <<>> /\ ~closed /\ Last(stream).type \notin Terminals

WriteInstruction(opcode, memory) ==
    /\ Writing
    /\ LET known == {r \in Range(Of("definition")) : r.body = opcode}
           id == IF known = {} THEN Cardinality(Range(Of("definition"))) + 1
                 ELSE (CHOOSE r \in known : TRUE).id
           definition == [id |-> id, body |-> opcode] @@ Record("definition")
           instruction == [sequence |-> Len(Of("instruction")) + 1, module |-> 1,
                           definition |-> id] @@ Record("instruction")
           access == [module |-> 1, tag |-> Tag] @@ Record("memory")
       IN  Appends((IF known = {} THEN <<definition>> ELSE <<>>) \o <<instruction>>
                   \o (IF memory THEN <<access>> ELSE <<>>))

WriteSemantic(kind, chunks) ==
    /\ Writing
    /\ IF chunks = 1 THEN Appends(<<[tag |-> Tag] @@ Record(kind)>>)
       ELSE Appends([i \in 1..chunks |-> Chunk(kind, Tag, i - 1, chunks)])

WriteTerminal(kind) ==
    /\ Writing
    /\ Appends(<<[instructions |-> Len(Of("instruction")), bytes |-> Tag]
                 @@ Record(kind)>>)
-----------------------------------------------------------------------------
(* The file the reader is given.  A file that ends between two records or  *)
(* in the middle of one is what a crash leaves; a frame that is lost or    *)
(* stored twice is damage the reader has to notice.  A compressed file     *)
(* holds a frame per buffer, and padding frames.                           *)
Frame(records) == [kind |-> "data", records |-> records]
Padding == [kind |-> "skip", records |-> <<>>]
Torn(frame) == IF frame.records = <<>> THEN [frame EXCEPT !.kind = "headless"]
               ELSE [frame EXCEPT !.kind = "torn",
                        !.records[Len(frame.records)].whole = FALSE]

Damaged(a, b, c, how) ==
    CASE how = "none" -> <<Frame(a), Frame(b \o c), Padding>>
      [] how = "cut" -> <<Frame(a), Padding, Frame(b)>>
      [] how = "torn" -> <<Frame(a), Torn(Frame(b))>>
      [] how = "lost" -> <<Frame(a), Frame(c), Padding>>
      [] how = "twice" -> <<Frame(a), Frame(b), Frame(b), Frame(c)>>

Store(i, k, how, as) ==
    /\ ~closed
    /\ closed' = TRUE /\ damage' = how /\ mode' = as
    /\ file' = Damaged(SubSeq(stream, 1, i), SubSeq(stream, i + 1, k),
                       SubSeq(stream, k + 1, Len(stream)), how)
    /\ UNCHANGED <<stream, cursor>>
-----------------------------------------------------------------------------
(* QtrbInput::into_source: a raw file is read as it is; of a compressed    *)
(* one every frame must be whole, and there must be a data frame.          *)
Records(frames) == FlattenSeq([i \in DOMAIN frames |-> frames[i].records])

SkipFrame(frame) == frame.kind = "skip"
ReadDescriptor(frame) == frame.kind # "headless"
DecodeFrame(frame) == ReadDescriptor(frame) /\ frame.kind # "torn"

Concatenated ==
    [ok |-> /\ \A i \in DOMAIN file : SkipFrame(file[i]) \/ DecodeFrame(file[i])
            /\ \E i \in DOMAIN file : ~SkipFrame(file[i]),
     records |-> Records(file)]

IntoSource(encoding) ==
    IF encoding = "raw" THEN [ok |-> TRUE, records |-> Records(file)] ELSE Concatenated

Open(encoding) ==
    /\ closed /\ cursor.state = "none"
    /\ LET source == IntoSource(encoding)
       IN  cursor' = [cursor EXCEPT !.state = IF source.ok THEN "reading" ELSE "failed",
                                    !.source = source.records]
    /\ UNCHANGED <<stream, closed, file, damage, mode>>

Failed(c) == [c EXCEPT !.state = "failed"]
Emits(c, r) == [c EXCEPT !.out = Append(@, r)]
AtEnd == cursor.offset = Len(cursor.source)

(* decode_module and decode_instruction_definition: an identifier has one  *)
(* definition.                                                             *)
Defines(known, r) == \A d \in known : d.id = r.id => d = r
HasRoom(known, r) == r \in known \/ Cardinality(known) < MaxDictionary

DecodeBegin(c, r) ==
    IF c.began THEN Failed(c) ELSE Emits([c EXCEPT !.began = TRUE], r)

DecodeModule(c, r) ==
    IF Defines(c.modules, r) /\ HasRoom(c.modules, r)
    THEN Emits([c EXCEPT !.modules = @ \union {r}], r) ELSE Failed(c)

DecodeDefinition(c, r) ==
    IF Defines(c.definitions, r) /\ HasRoom(c.definitions, r)
    THEN Emits([c EXCEPT !.definitions = @ \union {r}], r) ELSE Failed(c)

Resolves(known, id) == \E d \in known : d.id = id

DecodeInstruction(c, r) ==
    IF /\ Resolves(c.modules, r.module) /\ Resolves(c.definitions, r.definition)
       /\ r.sequence = c.next_sequence
    THEN Emits([c EXCEPT !.next_sequence = @ + 1, !.instructions = @ + 1], r)
    ELSE Failed(c)

DecodeMemory(c, r) == IF Resolves(c.modules, r.module) THEN Emits(c, r) ELSE Failed(c)

(* decode_fragment: the chunks of one event follow one another; the event  *)
(* is emitted with the last and carries the place of the first.            *)
DecodeFragment(c, r) ==
    LET p == IF c.pending = NoFragment THEN [event |-> r.event, next |-> 0, first |-> r]
             ELSE c.pending
    IN  IF \/ r.count < 2 \/ r.index >= r.count
           \/ p.event # r.event \/ p.first.count # r.count \/ p.next # r.index
        THEN Failed(c)
        ELSE IF r.index + 1 < r.count
        THEN [c EXCEPT !.pending = [p EXCEPT !.next = @ + 1]]
        ELSE Emits([c EXCEPT !.pending = NoFragment], p.first)

DecodeSemantic(c, r) == IF r.chunk THEN DecodeFragment(c, r) ELSE Emits(c, r)

(* accept_terminal: it is the last record and its counts are those of the  *)
(* stream.                                                                 *)
DecodeTerminal(c, r) ==
    IF /\ c.offset = Len(c.source)
       /\ r.instructions = c.instructions /\ r.bytes = c.offset
    THEN Emits([c EXCEPT !.terminal = r.type], r) ELSE Failed(c)

DecodeRecord(c, r) ==
    CASE r.type = "begin" -> DecodeBegin(c, r)
      [] r.type = "module" -> DecodeModule(c, r)
      [] r.type = "definition" -> DecodeDefinition(c, r)
      [] r.type = "instruction" -> DecodeInstruction(c, r)
      [] r.type = "memory" -> DecodeMemory(c, r)
      [] r.type \in {"call", "rule", "error"} -> DecodeSemantic(c, r)
      [] r.type \in Terminals -> DecodeTerminal(c, r)

(* next_event_inner: one record.  Mutation: the length of the record is    *)
(* not compared with what the file still holds.                            *)
NextRecordTorn(c, r) ==
    IF \/ ~c.began /\ r.type # "begin"
       \/ c.pending # NoFragment /\ (r.type # c.pending.first.type \/ ~r.chunk)
    THEN Failed(c)
    ELSE DecodeRecord([c EXCEPT !.offset = @ + 1], r)

NextRecord(c, r) ==
    IF \/ ~r.whole \/ (~c.began /\ r.type # "begin")
       \/ c.pending # NoFragment /\ (r.type # c.pending.first.type \/ ~r.chunk)
    THEN Failed(c)
    ELSE DecodeRecord([c EXCEPT !.offset = @ + 1], r)

(* finish_stream.  Mutations: a file without a terminal is as good, or is  *)
(* never accepted.                                                         *)
FinishStreamLenient(c) ==
    IF c.pending # NoFragment \/ ~c.began THEN Failed(c)
    ELSE [c EXCEPT !.state = "drained"]

FinishStream(c) ==
    IF c.pending # NoFragment \/ ~c.began \/ (c.terminal = "none" /\ mode = "Sealed")
    THEN Failed(c)
    ELSE [c EXCEPT !.state = "drained", !.missing = c.terminal = "none"]

NextEvent ==
    /\ cursor.state = "reading"
    /\ cursor' = IF AtEnd THEN FinishStream(cursor)
                 ELSE IF cursor.terminal # "none" THEN Failed(cursor)
                 ELSE NextRecord(cursor, cursor.source[cursor.offset + 1])
    /\ UNCHANGED <<stream, closed, file, damage, mode>>

(* The guard refuses: cancelled, or over the budget.                       *)
Abort == /\ cursor.state = "reading" /\ cursor' = [cursor EXCEPT !.state = "aborted"]
         /\ UNCHANGED <<stream, closed, file, damage, mode>>

Done == cursor.state \in {"drained", "failed", "aborted"} /\ UNCHANGED vars

Next == \/ WriteBegin
        \/ \E opcode \in Opcodes, memory \in BOOLEAN : WriteInstruction(opcode, memory)
        \/ \E kind \in {"call", "rule", "error"}, chunks \in 1..2 :
               WriteSemantic(kind, chunks)
        \/ \E kind \in Terminals : WriteTerminal(kind)
        \/ \E k \in 0..Len(stream) : \E i \in 0..k,
              how \in {"none", "cut", "torn", "lost", "twice"}, as \in {"Sealed", "Partial"} :
                 Store(i, k, how, as)
        \/ \E encoding \in {"raw", "lz4"} : Open(encoding)
        \/ NextEvent \/ Abort \/ Done

Spec == Init /\ [][Next]_vars
-----------------------------------------------------------------------------
(* The events read are the events written, in their order and up to some   *)
(* point, wherever a crash cut the file.                                   *)
ReadsAPrefix ==
    damage \in {"none", "cut", "torn"} => IsPrefix(cursor.out, Written)

(* A file with a terminal that is read to its end holds the whole trace: a *)
(* lost or a repeated frame shows in the counts of the terminal.           *)
SealedIsWhole ==
    cursor.state = "drained" /\ cursor.terminal # "none" => cursor.out = Written

(* A file without a terminal is read to its end only when it is opened as  *)
(* partial, and the summary says that the terminal is missing.             *)
MissingIsReported ==
    cursor.state = "drained" =>
        /\ (cursor.terminal = "none") = cursor.missing
        /\ cursor.missing => mode = "Partial"

(* A file that a crash cut between two records is read to the cut when it  *)
(* is opened as partial, unless the cut is inside a group of chunks or     *)
(* before the first record.                                                *)
CutIsRecovered ==
    damage = "cut" /\ mode = "Partial" /\ cursor.state = "failed" =>
        Records(file) = <<>> \/ cursor.pending # NoFragment
=============================================================================
