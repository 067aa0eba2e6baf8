--------------------------- MODULE FlightRecovery ---------------------------
(***************************************************************************)
(* A Flight artifact between the threads that write it                     *)
(* (flight/flight_artifact.cpp, flight_chunk_writer.cpp, flight_encoder.cpp)*)
(* and the recovery of qtrace-provider that reads it after the process is  *)
(* gone (flight/recovery.rs, flight/events.rs, flight/fragments.rs).       *)
(*                                                                         *)
(* Chunks are given to the threads in a ring.  A store that the recovery   *)
(* can tell from the one before it is a step, so that Recover, enabled in  *)
(* every state, meets every file that a crash leaves.  Lengths are counted *)
(* in records; the data of a chunk is not cleared when the chunk is reused.*)
(* The stores into an emergency slot are in FlightEmergency: here a record *)
(* of it takes a sequence number and is published whole.                   *)
(***************************************************************************)
EXTENDS Integers, FiniteSetsExt, SequencesExt

CONSTANTS
    Threads,        \* a directory entry each
    Root,           \* the thread that has no ThreadBegin and no ThreadEnd
    ChunkCount,     \* chunks of the artifact
    Capacity,       \* records that fit in a chunk
    Protected,      \* protected_chunks
    Values,         \* contents of the registers
    Workloads       \* bound: the threads that run, and how many events and
                    \* emergency records each of them has written

ASSUME FlightAssumption ==
    Root \in Threads /\ Capacity >= 4 /\ Protected >= 1 /\ 0 \in Values

VARIABLES
    workload,   \* one of Workloads
    header,     \* the header of each chunk
    data,       \* the record stored at each place of each chunk
    directory,  \* the entry of each thread
    slots,      \* the readable records of each thread's emergency slot
    flags,      \* the superblock says that the artifact is incomplete
    next,       \* the sequence allocator
    mutex,      \* rotation_mutex_: the thread that holds it, or 0
    epoch,      \* chunk_metadata_: when the chunk was given out
    queue,      \* thread_metadata_: the protected chunks of each thread
    writer,     \* FlightChunkWriter and FlightEncoder of each thread
    log,        \* history: sequence number -> the record committed with it
    bad,        \* the chunks whose data has changed since they were sealed
    recovered   \* the result of recover

file == <<header, data, directory, slots, flags>>
vars == <<workload, file, next, mutex, epoch, queue, writer, log, bad, recovered>>

Chunk == 1..ChunkCount
Blank == [type |-> "none", sequence |-> 0, generation |-> 0]
NotYet == [state |-> "none"]
Unknown == -1

Init ==
    /\ workload \in Workloads
    /\ header = [c \in Chunk |-> [state |-> "free", tid |-> 0, generation |-> 0,
                                  first |-> 0, last |-> 0, count |-> 0]]
    /\ data = [c \in Chunk |-> [i \in 1..Capacity |-> Blank]]
    /\ directory = [t \in Threads |-> [state |-> "free", first |-> 0, last |-> 0,
                                       chunk |-> 0, generation |-> 0]]
    /\ slots = [t \in Threads |-> <<>>]
    /\ flags = FALSE /\ next = 1 /\ mutex = 0
    /\ epoch = [c \in Chunk |-> 0]
    /\ queue = [t \in Threads |-> <<>>]
    /\ writer = [t \in Threads |->
                     [at |-> "new", chunk |-> 0, generation |-> 0, used |-> 0,
                      first |-> 0, last |-> 0, taken |-> <<>>, todo |-> <<>>,
                      defined |-> FALSE, gpr |-> 0, ending |-> FALSE, events |-> 0,
                      emergency |-> 0]]
    /\ log = <<>> /\ bad = {} /\ recovered = NotYet
-----------------------------------------------------------------------------
Sorted(set, Less(_, _)) ==
    [i \in 1..Cardinality(set) |->
        CHOOSE x \in set : Cardinality({y \in set : Less(y, x)}) = i - 1]

Running == recovered = NotYet
At(t, place) == Running /\ writer[t].at = place /\ writer[t].emergency = 0

(* register_thread: the entry appears with its last store.                 *)
Register(t) ==
    /\ At(t, "new") /\ t \in DOMAIN workload
    /\ directory' = [directory EXCEPT ![t].state = "active"]
    /\ writer' = [writer EXCEPT ![t].at = "acquire"]
    /\ UNCHANGED <<workload, header, data, slots, flags, next, mutex, epoch, queue, log, bad,
                   recovered>>

(* The chunk that acquire_chunk selects: a free one, or else the oldest    *)
(* that is not protected.                                                  *)
Selected ==
    LET free == {c \in Chunk : header[c].state = "free"}
        open == {c \in Chunk : \A t \in Threads : c \notin ToSet(queue[t])}
    IN  IF free # {} THEN {Min(free)}
        ELSE {c \in open : \A d \in open : epoch[c] <= epoch[d]}

(* acquire_chunk, up to the memset of the header.                          *)
Acquire(t) ==
    /\ At(t, "acquire") /\ mutex = 0
    /\ \E c \in Selected :
           /\ mutex' = t
           /\ directory' = [directory EXCEPT ![t].state = "rotating"]
           /\ header' = [header EXCEPT ![c].state = "free"]
           /\ writer' = [writer EXCEPT ![t].at = "claimed", ![t].chunk = c]
    /\ UNCHANGED <<workload, data, slots, flags, next, epoch, queue, log, bad, recovered>>

(* ... the store of the chunk's state, which makes the header readable.    *)
PublishHeader(t) ==
    /\ At(t, "claimed")
    /\ LET c == writer[t].chunk
           generation == header[c].generation + 1
       IN  /\ header' = [header EXCEPT ![c] =
                  [state |-> "active", tid |-> t, generation |-> generation,
                   first |-> 0, last |-> 0, count |-> 0]]
           /\ epoch' = [epoch EXCEPT ![c] = Max({epoch[d] : d \in Chunk}) + 1]
           /\ queue' = [queue EXCEPT ![t] =
                  IF Len(@) = Protected THEN Append(Tail(@), c) ELSE Append(@, c)]
           /\ writer' = [writer EXCEPT ![t].at = "owned", ![t].generation = generation]
    /\ UNCHANGED <<workload, data, directory, slots, flags, next, mutex, log, bad, recovered>>

(* ... the entry of the thread, and reset_chunk_state of the writer.  The  *)
(* first sequence number of the entry stays.                               *)
PublishEntry(t) ==
    /\ At(t, "owned")
    /\ directory' = [directory EXCEPT
           ![t] = [@ EXCEPT !.state = "active", !.last = 0, !.chunk = writer[t].chunk,
                            !.generation = writer[t].generation]]
    /\ mutex' = 0
    /\ writer' = [writer EXCEPT ![t] = [@ EXCEPT !.at = "pair", !.used = 0, !.first = 0,
                                                 !.last = 0, !.defined = FALSE]]
    /\ UNCHANGED <<workload, header, data, slots, flags, next, epoch, queue, log, bad, recovered>>

(* A slot keeps two records, and a coverage gap is not replaced.           *)
InSlot(slot, type, sequence) ==
    LET record == [type |-> type, sequence |-> sequence]
    IN  IF slot # <<>> /\ Last(slot).type = "gap" THEN slot
        ELSE IF Len(slot) = 2 THEN <<slot[2], record>> ELSE Append(slot, record)

(* No chunk can be given out: publish_exhaustion, and the encoder fails.   *)
Exhausted(t) ==
    /\ At(t, "acquire") /\ mutex = 0 /\ Selected = {}
    /\ flags' = TRUE /\ next' = next + 1
    /\ slots' = [slots EXCEPT ![t] = InSlot(@, "gap", next)]
    /\ writer' = [writer EXCEPT ![t].at = "failed"]
    /\ UNCHANGED <<workload, header, data, directory, mutex, epoch, queue, log, bad, recovered>>
-----------------------------------------------------------------------------
(* write_record and append_pair: next_sequence, the record with its commit *)
(* word, and publish_thread_sequence are steps of their own.               *)
Take(t) ==
    /\ next' = next + 1
    /\ writer' = [writer EXCEPT ![t].taken = Append(@, next)]

Stored(t, place, record) ==
    LET c == writer[t].chunk
        stored == [generation |-> writer[t].generation, tid |-> t, chunk |-> c] @@ record
    IN  /\ data' = [data EXCEPT ![c][place] = stored]
        /\ log' = log @@ (record.sequence :> stored)

Begin(t) == [type |-> "begin", sequence |-> writer[t].taken[1]]
Checkpoint(t) == [type |-> "checkpoint", sequence |-> writer[t].taken[2],
                  gpr |-> writer[t].gpr]

TakePair(t) ==
    /\ At(t, "pair") /\ Len(writer[t].taken) < 2
    /\ Take(t)
    /\ UNCHANGED <<workload, file, mutex, epoch, queue, log, bad, recovered>>

(* Mutation: the records of the preamble are committed in their order.     *)
CommitPairInOrder(t) ==
    /\ At(t, "pair") /\ Len(writer[t].taken) = 2
    /\ \/ /\ writer[t].taken[1] \notin DOMAIN log
          /\ Stored(t, 1, Begin(t)) /\ UNCHANGED writer
       \/ /\ writer[t].taken[1] \in DOMAIN log
          /\ Stored(t, 2, Checkpoint(t))
          /\ writer' = [writer EXCEPT ![t].at = "publish", ![t].used = 2]
    /\ UNCHANGED <<workload, header, directory, slots, flags, next, mutex, epoch, queue, bad,
                   recovered>>

CommitPair(t) ==
    /\ At(t, "pair") /\ Len(writer[t].taken) = 2
    /\ \/ /\ writer[t].taken[2] \notin DOMAIN log
          /\ Stored(t, 2, Checkpoint(t)) /\ UNCHANGED writer
       \/ /\ writer[t].taken[2] \in DOMAIN log
          /\ Stored(t, 1, Begin(t))
          /\ writer' = [writer EXCEPT ![t].at = "publish", ![t].used = 2]
    /\ UNCHANGED <<workload, header, directory, slots, flags, next, mutex, epoch, queue, bad,
                   recovered>>

(* The event the encoder has to write next.  An instruction that the chunk *)
(* does not define yet is defined first; the register change that follows  *)
(* an instruction is written when there is one.                            *)
Head1(t) == Head(writer[t].todo)
Kind(t) == IF Head1(t).type = "instruction" /\ ~writer[t].defined THEN "definition"
           ELSE Head1(t).type
Busy(t) == writer[t].todo # <<>>

TakeOne(t) ==
    /\ At(t, "ready") /\ Busy(t) /\ writer[t].used < Capacity
    /\ writer[t].taken = <<>>
    /\ Take(t)
    /\ UNCHANGED <<workload, file, mutex, epoch, queue, log, bad, recovered>>

CommitOne(t) ==
    /\ At(t, "ready") /\ writer[t].taken # <<>>
    /\ Stored(t, writer[t].used + 1,
              [type |-> Kind(t), sequence |-> writer[t].taken[1]]
              @@ [f \in DOMAIN Head1(t) \ {"type"} |-> Head1(t)[f]])
    /\ writer' = [writer EXCEPT ![t].at = "publish", ![t].used = @ + 1]
    /\ UNCHANGED <<workload, header, directory, slots, flags, next, mutex, epoch, queue, bad,
                   recovered>>

(* publish_thread_sequence, and the return to the encoder.                 *)
Written(t, w) ==
    IF Len(w.taken) = 2 \/ w.todo = <<>> THEN w
    ELSE IF Kind(t) = "definition" THEN [w EXCEPT !.defined = TRUE]
    ELSE IF Kind(t) = "delta" THEN [w EXCEPT !.gpr = Head1(t).gpr, !.todo = Tail(@)]
    ELSE [w EXCEPT !.todo = Tail(@)]

Publish(t) ==
    /\ At(t, "publish")
    /\ LET w == writer[t]
           first == IF w.first = 0 THEN w.taken[1] ELSE w.first
           last == Last(w.taken)
           mine == /\ header[w.chunk].generation = w.generation
                   /\ header[w.chunk].tid = t
       IN  \/ /\ mine
              /\ directory' = [directory EXCEPT ![t].last = last,
                                                ![t].first = IF @ = 0 THEN first ELSE @]
              /\ writer' = [writer EXCEPT ![t] =
                     [Written(t, w) EXCEPT !.at = "ready", !.taken = <<>>,
                                           !.first = first, !.last = last]]
              /\ UNCHANGED flags
           \/ /\ ~mine /\ flags' = TRUE
              /\ writer' = [writer EXCEPT ![t].at = "failed"]
              /\ UNCHANGED directory
    /\ UNCHANGED <<workload, header, data, slots, next, mutex, epoch, queue, log, bad, recovered>>

(* NoSpace: seal, rotate, and go on with the event.  A register change is  *)
(* told by the checkpoint of the new chunk instead.                        *)
Sealed(t) == [header EXCEPT ![writer[t].chunk] =
                  [@ EXCEPT !.state = "sealed", !.first = writer[t].first,
                            !.last = writer[t].last, !.count = writer[t].used]]

Rotate(t) ==
    /\ At(t, "ready") /\ Busy(t) /\ writer[t].used = Capacity
    /\ header' = Sealed(t)
    /\ writer' = [writer EXCEPT ![t] =
           IF Kind(t) = "delta"
           THEN [@ EXCEPT !.at = "acquire", !.gpr = Head1(t).gpr, !.todo = Tail(@)]
           ELSE [@ EXCEPT !.at = "acquire"]]
    /\ UNCHANGED <<workload, data, directory, slots, flags, next, mutex, epoch, queue, log, bad,
                   recovered>>
-----------------------------------------------------------------------------
(* What the encoder is asked for.  A child begins with ThreadBegin and     *)
(* ends with ThreadEnd; a long call is written in two fragments.           *)
Instruction(value, gpr) ==
    <<[type |-> "instruction"]>>
    \o (IF value = gpr THEN <<>> ELSE <<[type |-> "delta", gpr |-> value]>>)

Call(id) == [i \in 1..2 |-> [type |-> "fragment", event |-> id, index |-> i]]

Asks(t, todo, ending) ==
    /\ At(t, "ready") /\ ~Busy(t) /\ ~writer[t].ending /\ writer[t].events < workload[t].events
    /\ writer' = [writer EXCEPT ![t] = [@ EXCEPT !.todo = todo, !.ending = ending,
                                                 !.events = @ + 1]]
    /\ UNCHANGED <<workload, file, next, mutex, epoch, queue, log, bad, recovered>>

Child(t) == t # Root
Event(t) ==
    IF Child(t) /\ writer[t].events = 0
    THEN Asks(t, <<[type |-> "thread_begin"]>>, FALSE)
    ELSE \/ \E v \in Values : Asks(t, Instruction(v, writer[t].gpr), FALSE)
         \/ Asks(t, Call(writer[t].events), FALSE)
         \/ Asks(t, IF Child(t) THEN <<[type |-> "thread_end"]>> ELSE <<>>, TRUE)

(* The capture of the thread is over: its last chunk is sealed.            *)
Finish(t) ==
    /\ At(t, "ready") /\ ~Busy(t) /\ writer[t].ending
    /\ header' = Sealed(t)
    /\ writer' = [writer EXCEPT ![t].at = "done"]
    /\ UNCHANGED <<workload, data, directory, slots, flags, next, mutex, epoch, queue, log, bad,
                   recovered>>

(* A signal interrupts the thread and is recorded in the emergency slot:   *)
(* the number is taken before the record is published.                     *)
EmergencyTake(t) ==
    /\ Running /\ writer[t].at # "new" /\ writer[t].emergency = 0
    /\ Len(slots[t]) < workload[t].emergencies
    /\ next' = next + 1
    /\ writer' = [writer EXCEPT ![t].emergency = next]
    /\ UNCHANGED <<workload, file, mutex, epoch, queue, log, bad, recovered>>

EmergencyStore(t) ==
    /\ Running /\ writer[t].emergency # 0
    /\ slots' = [slots EXCEPT ![t] = InSlot(@, "signal", writer[t].emergency)]
    /\ flags' = (flags \/ slots' = slots)
    /\ writer' = [writer EXCEPT ![t].emergency = 0]
    /\ UNCHANGED <<workload, header, data, directory, next, mutex, epoch, queue, log, bad, recovered>>
-----------------------------------------------------------------------------
(* parse_directory: the range of an entry says something when it is not    *)
(* rotating and its ends are both set, or both not.                        *)
Entries == {t \in Threads : directory[t].state # "free"}
Reliable(t) == /\ directory[t].state = "active"
               /\ (directory[t].first = 0) = (directory[t].last = 0)
               /\ directory[t].first <= directory[t].last

(* A chunk whose header is readable, and the records that scan_records     *)
(* accepts: of an active chunk those up to the first without the commit    *)
(* word of its generation, of a sealed chunk all or none.                  *)
Headers == {c \in Chunk : header[c].state # "free"}
Accepts(c, i) == data[c][i].generation = header[c].generation

(* Mutation: the commit word does not depend on the generation.            *)
ScanActiveAnyGeneration(c) ==
    LET n == CHOOSE n \in 0..Capacity :
                 /\ \A i \in 1..n : data[c][i].generation # 0
                 /\ n < Capacity => data[c][n + 1].generation = 0
    IN  SubSeq(data[c], 1, n)

ScanActive(c) ==
    LET n == CHOOSE n \in 0..Capacity :
                 /\ \A i \in 1..n : Accepts(c, i)
                 /\ n < Capacity => ~Accepts(c, n + 1)
    IN  SubSeq(data[c], 1, n)

ScanSealed(c) == SubSeq(data[c], 1, header[c].count)

Increasing(records) == \A i, j \in 1..Len(records) :
                           i < j => records[i].sequence < records[j].sequence

IsDamaged(c) ==
    /\ header[c].state = "sealed"
    /\ \/ c \in bad \/ header[c].count = 0
       \/ ~\A i \in 1..header[c].count : Accepts(c, i)
       \/ ~Increasing(ScanSealed(c))
       \/ data[c][1].sequence # header[c].first
       \/ data[c][header[c].count].sequence # header[c].last

Scan(c) == IF IsDamaged(c) THEN <<>>
           ELSE IF header[c].state = "sealed" THEN ScanSealed(c) ELSE ScanActive(c)

Scans == [c \in Headers |-> Scan(c)]
Regular(scans) == UNION {ToSet(scans[c]) : c \in DOMAIN scans}
Emergency == UNION {{[tid |-> t, chunk |-> 0] @@ r : r \in ToSet(slots[t])} : t \in Threads}
Physical(scans) ==
    Sorted(Regular(scans) \union Emergency, LAMBDA a, b : a.sequence < b.sequence)

(* An entry that is not rotating names a chunk that is no longer its own.  *)
Stale == {t \in Entries :
             LET d == directory[t]
             IN  /\ d.state = "active" /\ d.chunk # 0
                 /\ ~(/\ d.chunk \in Headers /\ header[d.chunk].tid = t
                      /\ header[d.chunk].generation = d.generation)}
-----------------------------------------------------------------------------
(* update_lifecycle and merge_lifecycle, over the chunks in their order.   *)
Of(records, type) == {r.sequence : r \in {r \in ToSet(records) : r.type = type}}
Balance(records) == Cardinality(Of(records, "thread_begin"))
                    - Cardinality(Of(records, "thread_end"))

MergeLifecycle(item, records) ==
    [balance |-> item.balance + Balance(records),
     first |-> IF item.balance <= 0 /\ Balance(records) > 0
               THEN Min(Of(records, "thread_begin")) ELSE item.first]

Lifecycle(scans, t) ==
    LET mine == Sorted({c \in DOMAIN scans : header[c].tid = t}, <)
    IN  FoldLeft(MergeLifecycle, [balance |-> 0, first |-> 0],
                 [i \in DOMAIN mine |-> scans[mine[i]]])

Unterminated(scans) ==
    {<<t, Lifecycle(scans, t).first>> :
         t \in {t \in Threads : Lifecycle(scans, t).balance > 0}}
-----------------------------------------------------------------------------
(* The ranges of sequence numbers that the file tells of: entries, headers *)
(* of sealed chunks.  Those of damaged chunks are reported as damaged.     *)
Interval(first, last) == [first |-> first, last |-> last]
Sealings == {c \in Headers : header[c].state = "sealed" /\ header[c].first # 0}
Hints == {Interval(directory[t].first, directory[t].last) :
              t \in {t \in Entries : Reliable(t) /\ directory[t].first # 0}}
         \union {Interval(header[c].first, header[c].last) : c \in Sealings}

DamageRanges ==
    Sorted({Interval(header[c].first, header[c].last) :
                      c \in {c \in Sealings : IsDamaged(c)}},
                 LAMBDA a, b : a.first < b.first \/ (a.first = b.first /\ a.last < b.last))

Damages == UNION {r.first..r.last : r \in ToSet(DamageRanges)}

HasDamage == \E c \in Headers : IsDamaged(c)
HasIncomplete(scans) ==
    \/ flags \/ Stale # {} \/ Unterminated(scans) # {}
    \/ \E t \in Entries : ~Reliable(t)
HasCoverage == \E r \in Emergency : r.type = "gap"

(* add_missing_without_damage: what of current..last no damaged range      *)
(* holds.  The ranges are sorted and `index` only moves forward, from one  *)
(* gap to the next.  Mutation: it moves past a range that reaches beyond   *)
(* the gap.                                                                *)
RECURSIVE SweepPast(_, _, _, _)
SweepPast(ranges, index, current, last) ==
    IF index > Len(ranges) \/ ranges[index].first > last
    THEN [found |-> current..last, index |-> index]
    ELSE IF ranges[index].last < current THEN SweepPast(ranges, index + 1, current, last)
    ELSE LET rest == SweepPast(ranges, index + 1, ranges[index].last + 1, last)
         IN  [rest EXCEPT !.found = @ \union current..(ranges[index].first - 1)]

RECURSIVE SweepOn(_, _, _, _)
SweepOn(ranges, index, current, last) ==
    IF index <= Len(ranges) /\ ranges[index].last < current
    THEN SweepOn(ranges, index + 1, current, last)
    ELSE IF index > Len(ranges) \/ ranges[index].first > last
    THEN [found |-> current..last, index |-> index]
    ELSE IF ranges[index].last > last
    THEN [found |-> current..(ranges[index].first - 1), index |-> index]
    ELSE LET rest == SweepOn(ranges, index + 1, ranges[index].last + 1, last)
         IN  [rest EXCEPT !.found = @ \union current..(ranges[index].first - 1)]

SweepFrom(ranges, index, current, last) == SweepPast(ranges, index, current, last)
Sweep(ranges, index, current, last) == SweepOn(ranges, index, current, last)

(* add_sequence_completeness: the numbers between the first and the last   *)
(* that were not read, with the reason given for each.                     *)
First(physical) == Min({r.sequence : r \in ToSet(physical)} \union {h.first : h \in Hints})
Final(physical) == Max({r.sequence : r \in ToSet(physical)} \union {h.last : h \in Hints})

Gap(ranges, state, last, cause) ==
    LET swept == Sweep(ranges, state.index, state.cursor, last)
    IN  [cursor |-> last + 2, index |-> swept.index,
         missing |-> state.missing \union {<<s, cause>> : s \in swept.found}]

Missing(physical, cause) ==
    IF physical = <<>> /\ Hints = {} THEN {}
    ELSE LET ranges == DamageRanges
             final == Final(physical)
             step(state, r) ==
                 IF r.sequence = state.cursor THEN [state EXCEPT !.cursor = @ + 1]
                 ELSE Gap(ranges, state, r.sequence - 1,
                          IF r.type = "gap" THEN "Lost" ELSE cause)
             read == FoldLeft(step, [cursor |-> First(physical), index |-> 1,
                                     missing |-> {}], physical)
         IN  IF read.cursor > final THEN read.missing
             ELSE Gap(ranges, read, final, cause).missing

(* add_missing_proofs, and the demand of add_discontinuity_events that     *)
(* every range it reports has a place in the file that speaks of it.       *)
Proofs(missing) == {m \in missing : \E h \in Hints : m[1] \in h.first..h.last}

Runs(set) == {r \in set \X set : /\ r[1]..r[2] \subseteq set /\ r[1] <= r[2]
                                 /\ r[1] - 1 \notin set /\ r[2] + 1 \notin set}
Because(set, cause) == {m[1] : m \in {m \in set : m[2] = cause}}
Proved(missing) ==
    \A cause \in {"Lost", "Overwritten"} :
        Runs(Because(missing, cause)) \subseteq Runs(Because(Proofs(missing), cause))
-----------------------------------------------------------------------------
(* events::decode, one record.  A chunk must begin with its metadata and a *)
(* checkpoint of the registers; without them, or with a second checkpoint, *)
(* what follows in it is damaged.                                          *)
FreshDecoder ==
    [prefix |-> [c \in Chunk |-> "begin"], registers |-> [c \in Chunk |-> Unknown],
     defined |-> {}, final |-> [t \in Threads |-> Unknown], fragments |-> {},
     events |-> {}, damaged |-> {}]

Damage(d, r) == [d EXCEPT !.damaged = @ \union {r.sequence}]
Break(d, r) == Damage([d EXCEPT !.prefix[r.chunk] = "broken"], r)
Emit(d, r) ==
    [d EXCEPT !.events = @ \union {r}, !.final[r.tid] = d.registers[r.chunk]]

DecodeBegin(d, r) == [d EXCEPT !.prefix[r.chunk] = "checkpoint",
                               !.events = @ \union {r}]
DecodeCheckpoint(d, r) == Emit([d EXCEPT !.prefix[r.chunk] = "ready",
                                         !.registers[r.chunk] = r.gpr], r)
DecodeDelta(d, r) == Emit([d EXCEPT !.registers[r.chunk] = r.gpr], r)
DecodeDefinition(d, r) == IF r.chunk \in d.defined THEN Damage(d, r)
                          ELSE Emit([d EXCEPT !.defined = @ \union {r.chunk}], r)
DecodeInstruction(d, r) == IF r.chunk \in d.defined THEN Emit(d, r) ELSE Damage(d, r)
DecodeFragment(d, r) == [d EXCEPT !.fragments = @ \union {r}]
DecodeThreadEvent(d, r) == Emit(d, r)
DecodeEmergency(d, r) == [d EXCEPT !.events = @ \union {r}]

DecodeChunkRecord(d, r) ==
    CASE r.type = "checkpoint" -> DecodeCheckpoint(d, r)
      [] r.type = "delta" -> DecodeDelta(d, r)
      [] r.type = "definition" -> DecodeDefinition(d, r)
      [] r.type = "instruction" -> DecodeInstruction(d, r)
      [] r.type = "fragment" -> DecodeFragment(d, r)
      [] OTHER -> DecodeThreadEvent(d, r)

DecodeRecord(d, r) ==
    IF r.chunk = 0 THEN DecodeEmergency(d, r)
    ELSE LET prefix == d.prefix[r.chunk]
         IN  CASE prefix = "begin" ->
                      IF r.type # "begin" THEN Break(d, r) ELSE DecodeBegin(d, r)
               [] prefix = "checkpoint" /\ r.type # "checkpoint" -> Break(d, r)
               [] prefix = "ready" /\ r.type = "checkpoint" ->
                      Break([d EXCEPT !.registers[r.chunk] = Unknown,
                                      !.final[r.tid] = Unknown], r)
               [] prefix = "broken" -> Damage(d, r)
               [] OTHER -> DecodeChunkRecord(d, r)

(* fragments::finish: an event is put together when each of its fragments  *)
(* was read; the fragments of another one are damaged.                     *)
Groups(fragments) ==
    {{r \in fragments : r.tid = f.tid /\ r.event = f.event} : f \in fragments}

FinishFragments(d) ==
    LET groups == Groups(d.fragments)
        whole == {g \in groups : {r.index : r \in g} = {1, 2}}
        assembled(g) == [type |-> "call", parts |-> g,
                         sequence |-> Max({r.sequence : r \in g})]
    IN  [d EXCEPT !.events = @ \union {assembled(g) : g \in whole},
                  !.damaged = @ \union {r.sequence : r \in UNION (groups \ whole)}]

Decoded(physical) == FinishFragments(FoldLeft(DecodeRecord, FreshDecoder, physical))
-----------------------------------------------------------------------------
(* recover.  It fails when a chunk has no owner, when the records of an    *)
(* active chunk are out of order, and when a loss lacks a proof.           *)
Succeeds(scans, missing) ==
    /\ \A c \in DOMAIN scans : header[c].tid \in Entries /\ Increasing(scans[c])
    /\ Proved(missing)

Recovery ==
    LET scans == Scans
        physical == Physical(scans)
        unterminated == Unterminated(scans)
        missing == Missing(physical, IF HasDamage \/ HasIncomplete(scans) THEN "Lost"
                                     ELSE "Overwritten")
        decoded == Decoded(physical)
    IN  [state |-> IF Succeeds(scans, missing) THEN "recovered" ELSE "failed",
         records |-> ToSet(physical), events |-> decoded.events, missing |-> missing,
         damaged |-> decoded.damaged, registers |-> decoded.final,
         unterminated |-> unterminated,
         complete |-> /\ ~flags /\ ~HasDamage /\ ~HasCoverage /\ Stale = {}
                      /\ decoded.damaged = {}]

(* The file is read: the process is gone.                                  *)
Recover == /\ Running
           /\ recovered' = Recovery
           /\ UNCHANGED <<workload, file, next, mutex, epoch, queue, writer, log, bad>>

(* The data of a sealed chunk does not reach the disk as it was written.   *)
Spoil(set) == /\ Running /\ set # {} /\ \A c \in set : header[c].state = "sealed"
              /\ bad' = set
              /\ recovered' = [state |-> "spoiled"]
              /\ UNCHANGED <<workload, file, next, mutex, epoch, queue, writer, log>>

RecoverSpoiled == /\ recovered.state = "spoiled"
                  /\ recovered' = Recovery
                  /\ UNCHANGED <<workload, file, next, mutex, epoch, queue, writer, log, bad>>

Write(t) == \/ Register(t) \/ Acquire(t) \/ PublishHeader(t) \/ PublishEntry(t)
            \/ Exhausted(t) \/ TakePair(t) \/ CommitPair(t) \/ TakeOne(t)
            \/ CommitOne(t) \/ Publish(t) \/ Rotate(t) \/ Event(t) \/ Finish(t)
            \/ EmergencyTake(t) \/ EmergencyStore(t)

Next == \/ \E t \in Threads : Write(t)
        \/ \E set \in SUBSET Chunk : Spoil(set)
        \/ Recover \/ RecoverSpoiled

Spec == Init /\ [][Next]_vars
-----------------------------------------------------------------------------
Recovered == recovered.state = "recovered"

(* The last life of a chunk: its generation, unless its header was being   *)
(* rewritten.                                                              *)
Current(r) == r.chunk \in Headers /\ header[r.chunk].generation = r.generation
Logged == {log[s] : s \in DOMAIN log}

(* What is recovered is what was committed: every record of a chunk that   *)
(* was not reused since nor damaged, and no record of an earlier life of   *)
(* the chunk.  The first pair of a chunk appears as a whole.               *)
RecoversTheCommitted ==
    Recovered =>
        LET whole == {r \in Logged : /\ Current(r) /\ r.chunk \notin bad
                                     /\ data[r.chunk][1].generation = r.generation}
        IN  {r \in recovered.records : r.chunk # 0} = whole

(* Every number between the first and the last that the file tells of is   *)
(* read, in a damaged range or reported missing, and only one of the last  *)
(* two: the sweep over gaps and damaged ranges misses nothing.             *)
MissingIsAccounted ==
    Recovered /\ (recovered.records # {} \/ Hints # {}) =>
        /\ {m[1] : m \in recovered.missing} =
               LET read == {r.sequence : r \in recovered.records}
                   last == Max(read \union {h.last : h \in Hints})
                   first == Min(read \union {h.first : h \in Hints})
               IN  (first..last \ read) \ Damages
        /\ Cardinality(recovered.missing) = Cardinality({m[1] : m \in recovered.missing})

(* The final registers of a thread are those that its last readable record *)
(* of the registers told, also when the chunk before it is gone; they are  *)
(* known as soon as anything of the thread's chunks is read.               *)
RegistersAreTrue ==
    Recovered =>
        /\ \A r \in recovered.records :
               r.chunk # 0 => recovered.registers[r.tid] # Unknown
        /\ \A t \in Threads :
               LET told == {r \in recovered.records : r.tid = t /\
                                r.type \in {"checkpoint", "delta"}}
                   last == CHOOSE r \in told : \A q \in told : q.sequence <= r.sequence
               IN  IF told = {} THEN recovered.registers[t] = Unknown
                   ELSE recovered.registers[t] = last.gpr

(* Nothing that was committed whole reads as damaged, but the fragments of *)
(* an event whose other fragment is gone; an event is put together of the  *)
(* fragments of one call.                                                  *)
FragmentsAreWhole ==
    Recovered =>
        /\ \A e \in recovered.events :
               e.type = "call" => Cardinality({<<p.tid, p.event>> : p \in e.parts}) = 1
        /\ \A s \in recovered.damaged :
               /\ log[s].type = "fragment"
               /\ ~\E r \in recovered.records :
                      /\ r.type = "fragment" /\ r.tid = log[s].tid
                      /\ r.event = log[s].event /\ r.index # log[s].index

(* A thread is reported as not terminated when its ThreadBegin is read and *)
(* its ThreadEnd is not, in whatever order the ring holds the two.         *)
UnterminatedIsReported ==
    Recovered =>
        \A t \in Threads :
            LET of(type) == {r.sequence : r \in {r \in recovered.records :
                                                     r.type = type /\ r.tid = t}}
                reported == {u \in recovered.unterminated : u[1] = t}
            IN  reported = IF of("thread_end") = {} THEN {<<t, s>> : s \in of("thread_begin")}
                           ELSE {}

(* The process may die at any point and the committed records are read.    *)
RecoverySucceeds == recovered.state # "failed"
=============================================================================
