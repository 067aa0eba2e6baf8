-------------------------- MODULE AsyncTraceWriter --------------------------
(***************************************************************************)
(* AsyncTraceWriter (events/async_trace_writer.cpp): one producer fills a  *)
(* buffer while one consumer thread compresses and writes the other.       *)
(*                                                                         *)
(* A critical section of `mutex` is one step; what happens outside it is   *)
(* a step of its own: reserve and commit on the producer's buffer, and the *)
(* write of a frame.  pthread_cond_wait leaves its thread in `asleep`      *)
(* until a signal (or a spurious wakeup) takes it out.  Bytes are counted  *)
(* and records are the units of content; LZ4 is known by its frame bound.  *)
(***************************************************************************)
EXTENDS Integers, Sequences

CONSTANTS
    BufferBytes,       \* buffer_bytes
    Compression,       \* the values of options.compression_enabled
    Overhead,          \* LZ4F_compressFrameBound(n) - n
    Header,            \* bytes of a skippable frame's header
    Sizes,             \* sizes of the records the producer writes
    MaxRecords,        \* bound: records committed
    MaxFaults          \* bound: failing writes, closes and joins

ASSUME WriterAssumption ==
    /\ BufferBytes \in Nat \ {0} /\ Compression \subseteq BOOLEAN
    /\ Overhead \in Nat /\ Header \in Nat \ {0}
    /\ Sizes \subseteq Nat \ {0} /\ MaxRecords \in Nat /\ MaxFaults \in Nat

VARIABLES
    life,              \* opened, finish_called, and where finish is
    finish_result,     \* finish_result
    error,             \* error # 0
    state,             \* buffers[i].state
    content,           \* buffers[i].data[0 .. used)
    used,              \* buffers[i].used
    order,             \* buffers[i].publication_sequence
    next_order,        \* next_publication_sequence
    active_buffer,     \* active_buffer + 1; 0 is none
    reservation,       \* reservation_capacity; 0 is no active reservation
    producer_done,     \* producer_done
    waiting,           \* the producer's wait: reserve, drain or none
    asleep,            \* threads inside pthread_cond_wait
    consumer,          \* consumer thread: place, buffer, result of the write
    frames,            \* of the file: complete or torn
    written,           \* the records in them
    compressed_bytes,  \* compressed_bytes
    compressed,        \* options.compression_enabled
    target,            \* what final_file_target returned; 0 is not called
    final,             \* the record final_frame_padding measured
    measured,          \* the size of its frame
    padding,           \* what final_frame_padding returned
    released,          \* resources_released
    metrics,           \* encoded_bytes, buffer_swaps, producer_waits
    stream,            \* history: the records committed
    faults             \* bound: failures so far

buffers == <<state, content, used, order>>
producing == <<next_order, active_buffer, reservation, producer_done, waiting>>
sizing == <<compressed, target, final, measured, padding>>
ending == <<life, finish_result, released>>
output == <<frames, written, compressed_bytes>>
wvars == <<buffers, producing, sizing, ending, error, asleep, consumer, output,
           metrics, stream, faults>>

Buffer == {1, 2}
Other(i) == 3 - i

WriterInit ==
    /\ life = "new" /\ finish_result = FALSE /\ released = FALSE
    /\ error = FALSE
    /\ state = [i \in Buffer |-> "Free"]
    /\ content = [i \in Buffer |-> <<>>]
    /\ used = [i \in Buffer |-> 0] /\ order = [i \in Buffer |-> 0]
    /\ next_order = 1 /\ active_buffer = 0 /\ reservation = 0
    /\ producer_done = FALSE /\ waiting = "none" /\ asleep = {}
    /\ consumer = [at |-> "none", buffer |-> 0, ok |-> TRUE]
    /\ frames = <<>> /\ written = <<>> /\ compressed_bytes = 0
    /\ compressed \in Compression
    /\ target = 0 /\ final = <<>> /\ measured = 0 /\ padding = 0
    /\ metrics = [encoded |-> 0, swaps |-> 0, waits |-> 0]
    /\ stream = <<>> /\ faults = 0

Fault == faults < MaxFaults /\ faults' = faults + 1

FrameBound(bytes) == bytes + Overhead
-----------------------------------------------------------------------------
(* open: buffers[0] is the producer's and the consumer runs, or nothing is *)
(* left open.                                                              *)
Open ==
    /\ life = "new"
    /\ \/ /\ life' = "open"
          /\ state' = [state EXCEPT ![1] = "Filling"]
          /\ active_buffer' = 1
          /\ consumer' = [consumer EXCEPT !.at = "scan"]
          /\ UNCHANGED <<error, faults>>
       \/ /\ Fault
          /\ life' = "finished"
          /\ error' = TRUE
          /\ UNCHANGED <<state, active_buffer, consumer>>
    /\ UNCHANGED <<finish_result, released, content, used, order, next_order,
                   reservation, producer_done, waiting, sizing, asleep,
                   output, metrics, stream>>
-----------------------------------------------------------------------------
(* The producer's locked sections.  Publishing hands the buffer over; the  *)
(* loop that follows looks at the buffers `now` and takes one, fails or    *)
(* sleeps on free_changed.                                                 *)
Published(i) == [state EXCEPT ![i] = "Ready"]

Publish(i) ==
    /\ order' = [order EXCEPT ![i] = next_order]
    /\ next_order' = next_order + 1

Take(i, now) ==
    /\ state' = [now EXCEPT ![i] = "Filling"]
    /\ content' = [content EXCEPT ![i] = <<>>]
    /\ used' = [used EXCEPT ![i] = 0]
    /\ active_buffer' = i

Leave(now) ==
    state' = now /\ active_buffer' = 0 /\ UNCHANGED <<content, used>>

(* counted_wait: a call counts as one wait however often it sleeps.        *)
Metrics(swapped, waited) ==
    [metrics EXCEPT !.swaps = @ + (IF swapped THEN 1 ELSE 0),
                    !.waits = @ + (IF waited THEN 1 ELSE 0)]

(* The producer leaves the section asleep exactly when it waits; a buffer  *)
(* it published woke the consumer.                                         *)
Sleep(swapped) ==
    asleep' = (IF waiting' = "none" THEN {} ELSE {"producer"})
              \union (IF swapped THEN {} ELSE asleep \intersect {"consumer"})

FirstFree(now) == {i \in Buffer : /\ now[i] = "Free"
                                  /\ \A j \in Buffer : j < i => now[j] # "Free"}

(* The loop of publish_and_acquire: the first free buffer is taken whole.  *)
AcquireLoop(now, swapped) ==
    /\ \/ /\ error
          /\ Leave(now) /\ waiting' = "none" /\ reservation' = 0
       \/ /\ ~error
          /\ \E i \in FirstFree(now) : Take(i, now)
          /\ waiting' = "none" /\ reservation' = BufferBytes
       \/ /\ ~error /\ FirstFree(now) = {}
          /\ Leave(now) /\ waiting' = "reserve" /\ reservation' = 0
    /\ metrics' = Metrics(swapped, waiting = "none" /\ waiting' = "reserve")
    /\ Sleep(swapped)

(* The loop of drain: every buffer is free, and buffers[0] is taken.       *)
DrainLoop(now, swapped) ==
    /\ \/ /\ error
          /\ Leave(now) /\ waiting' = "none"
       \/ /\ ~error /\ \A i \in Buffer : now[i] = "Free"
          /\ Take(1, now) /\ waiting' = "none"
       \/ /\ ~error /\ \E i \in Buffer : now[i] # "Free"
          /\ Leave(now) /\ waiting' = "drain"
    /\ metrics' = Metrics(swapped, waiting = "check" /\ waiting' = "drain")
    /\ Sleep(swapped)
    /\ UNCHANGED reservation

SectionFrame == UNCHANGED <<producer_done, sizing, ending, error, consumer,
                            output, stream, faults>>
-----------------------------------------------------------------------------
(* The producer's calls.                                                   *)
Idle == life = "open" /\ waiting = "none"

Reservable(minimum) ==
    /\ Idle /\ ~error /\ reservation = 0 /\ active_buffer # 0
    /\ minimum <= BufferBytes

(* reserve when the rest of the buffer is large enough.                    *)
ReserveFits(minimum) ==
    /\ Reservable(minimum)
    /\ BufferBytes - used[active_buffer] >= minimum
    /\ reservation' = BufferBytes - used[active_buffer]
    /\ UNCHANGED <<buffers, next_order, active_buffer, producer_done, waiting,
                   sizing, ending, error, asleep, consumer, output, metrics,
                   stream, faults>>

(* reserve when it is not: publish_and_acquire.                            *)
ReserveSwaps(minimum) ==
    /\ Reservable(minimum)
    /\ BufferBytes - used[active_buffer] < minimum
    /\ Publish(active_buffer)
    /\ AcquireLoop(Published(active_buffer), TRUE)
    /\ SectionFrame

(* commit of one record; its size is at most what was reserved.            *)
Commit(record) ==
    /\ Idle /\ reservation # 0 /\ active_buffer # 0
    /\ record.size <= reservation
    /\ content' = [content EXCEPT ![active_buffer] = Append(@, record)]
    /\ used' = [used EXCEPT ![active_buffer] = @ + record.size]
    /\ metrics' = [metrics EXCEPT !.encoded = @ + record.size]
    /\ stream' = Append(stream, record)
    /\ reservation' = 0
    /\ UNCHANGED <<state, order, next_order, active_buffer, producer_done,
                   waiting, sizing, ending, error, asleep, consumer, output,
                   faults>>

(* Mutation: a failure does not wake the threads that wait.                *)
SetFailureQuietly == /\ error' = TRUE
                     /\ state' = [i \in Buffer |-> "Free"]
                     /\ UNCHANGED asleep

(* set_failure_locked: every buffer is dropped and everyone is woken.      *)
SetFailure == /\ error' = TRUE
              /\ state' = [i \in Buffer |-> "Free"]
              /\ asleep' = {}

(* commit without a reservation, or of more than was reserved.             *)
CommitMisuse ==
    /\ Idle
    /\ SetFailure
    /\ UNCHANGED <<content, used, order, producing, sizing, ending, consumer,
                   output, metrics, stream, faults>>

(* commit(0) after a record that could not be encoded.                     *)
CommitNothing ==
    /\ Idle /\ reservation # 0 /\ active_buffer # 0
    /\ reservation' = 0
    /\ UNCHANGED <<buffers, next_order, active_buffer, producer_done, waiting,
                   sizing, ending, error, asleep, consumer, output, metrics,
                   stream, faults>>

(* drain: the checks, and then the locked section, which does not look at  *)
(* `error` again before it publishes.                                      *)
DrainCheck ==
    /\ Idle /\ ~error /\ reservation = 0 /\ active_buffer # 0
    /\ waiting' = "check"
    /\ UNCHANGED <<buffers, next_order, active_buffer, reservation,
                   producer_done, sizing, ending, error, asleep, consumer,
                   output, metrics, stream, faults>>

DrainSection ==
    /\ waiting = "check"
    /\ \/ /\ used[active_buffer] # 0
          /\ Publish(active_buffer)
          /\ DrainLoop(Published(active_buffer), TRUE)
       \/ /\ used[active_buffer] = 0
          /\ DrainLoop([state EXCEPT ![active_buffer] = "Free"], FALSE)
          /\ UNCHANGED <<order, next_order>>
    /\ SectionFrame

(* The producer is woken in either loop.                                   *)
ProducerWakes ==
    /\ "producer" \notin asleep
    /\ \/ waiting = "reserve" /\ AcquireLoop(state, FALSE)
       \/ waiting = "drain" /\ DrainLoop(state, FALSE)
    /\ UNCHANGED <<order, next_order>>
    /\ SectionFrame
-----------------------------------------------------------------------------
(* consumer_entry.                                                         *)
Ready == {i \in Buffer : state[i] = "Ready"}

(* Mutation: the ready buffer with the lower index goes first.             *)
OldestByIndex == {i \in Ready : \A j \in Ready : i <= j}

Oldest == {i \in Ready : \A j \in Ready : order[i] <= order[j]}

(* The loop around ready_changed.                                          *)
Scan ==
    /\ consumer.at = "scan" /\ "consumer" \notin asleep
    /\ \/ /\ error \/ (Ready = {} /\ producer_done)
          /\ consumer' = [consumer EXCEPT !.at = "exited"]
          /\ UNCHANGED <<state, asleep>>
       \/ /\ ~error
          /\ \E i \in Oldest :
                /\ consumer' = [consumer EXCEPT !.at = "write", !.buffer = i]
                /\ state' = [state EXCEPT ![i] = "Writing"]
          /\ UNCHANGED asleep
       \/ /\ ~error /\ Ready = {} /\ ~producer_done
          /\ asleep' = asleep \union {"consumer"}
          /\ UNCHANGED <<state, consumer>>
    /\ UNCHANGED <<content, used, order, producing, sizing, ending, error,
                   output, metrics, stream, faults>>

(* LZ4 (external): how large the frame of these bytes is.  The same bytes  *)
(* give the same frame, so the one that was measured is known; the size of *)
(* another only adds to what final_file_target reads, so one size will do. *)
FrameSize(records, bytes) ==
    IF ~compressed THEN bytes
    ELSE IF records = final /\ final # <<>> THEN measured
    ELSE FrameBound(bytes)

WriteFails == /\ Fault
              /\ consumer' = [consumer EXCEPT !.at = "release", !.ok = FALSE]
              /\ UNCHANGED output

(* write_frame or write_all: the first write, and the last one.            *)
WriteBegins ==
    /\ consumer.at = "write"
    /\ \/ /\ frames' = Append(frames, "torn")
          /\ written' = written \o content[consumer.buffer]
          /\ consumer' = [consumer EXCEPT !.at = "finish"]
          /\ UNCHANGED <<compressed_bytes, faults>>
       \/ WriteFails
    /\ UNCHANGED <<buffers, producing, sizing, ending, error, asleep, metrics,
                   stream>>

WriteEnds ==
    /\ consumer.at = "finish"
    /\ \/ /\ frames' = [frames EXCEPT ![Len(frames)] = "complete"]
          /\ compressed_bytes' = compressed_bytes
                + FrameSize(content[consumer.buffer], used[consumer.buffer])
          /\ consumer' = [consumer EXCEPT !.at = "release", !.ok = TRUE]
          /\ UNCHANGED <<written, faults>>
       \/ WriteFails
    /\ UNCHANGED <<buffers, producing, sizing, ending, error, asleep, metrics,
                   stream>>

(* The buffer is free again; a failed write ends the consumer.             *)
Release ==
    /\ consumer.at = "release"
    /\ used' = [used EXCEPT ![consumer.buffer] = 0]
    /\ content' = [content EXCEPT ![consumer.buffer] = <<>>]
    /\ \/ /\ consumer.ok
          /\ state' = [state EXCEPT ![consumer.buffer] = "Free"]
          /\ asleep' = asleep \ {"producer"}
          /\ consumer' = [consumer EXCEPT !.at = "scan", !.buffer = 0]
          /\ UNCHANGED error
       \/ /\ ~consumer.ok
          /\ SetFailure
          /\ consumer' = [consumer EXCEPT !.at = "exited", !.buffer = 0]
    /\ UNCHANGED <<order, producing, sizing, ending, output, metrics, stream,
                   faults>>

Consumer == Scan \/ WriteBegins \/ WriteEnds \/ Release
-----------------------------------------------------------------------------
(* The size of the finished file, announced before the last frame exists.  *)
Drained == /\ Idle /\ ~error /\ reservation = 0
           /\ active_buffer # 0 /\ used[active_buffer] = 0
           /\ state[Other(active_buffer)] = "Free"

SizingFrame == UNCHANGED <<compressed, buffers, producing, ending, asleep,
                           consumer, output, metrics, stream>>

FinalFileTarget(bytes) ==
    /\ Drained
    /\ target' = compressed_bytes + (IF compressed THEN FrameBound(bytes) + Header
                                                   ELSE bytes)
    /\ UNCHANGED <<final, measured, padding, error, faults>>
    /\ SizingFrame

(* The record is compressed for its size; a failure is latched, nobody is  *)
(* woken.                                                                  *)
FinalFramePadding(record) ==
    /\ Drained
    /\ \/ /\ compressed
          /\ \E size \in {1, FrameBound(record.size)} :
                /\ measured' = size
                /\ padding' = FrameBound(record.size) + Header - size
          /\ final' = <<record>>
          /\ UNCHANGED <<error, faults>>
       \/ /\ ~compressed
          /\ padding' = 0
          /\ UNCHANGED <<final, measured, error, faults>>
       \/ /\ compressed /\ Fault
          /\ error' = TRUE
          /\ UNCHANGED <<final, measured, padding>>
    /\ UNCHANGED target
    /\ SizingFrame
-----------------------------------------------------------------------------
(* finish(padding).  The first section: what is left is published, unless  *)
(* there is an error or a reservation nobody committed.                    *)
FinishFrame == UNCHANGED <<order, next_order, metrics>>

FinishPublishes ==
    \/ /\ reservation # 0
       /\ SetFailure /\ FinishFrame
    \/ /\ reservation = 0
       /\ \/ /\ ~error /\ active_buffer # 0 /\ used[active_buffer] # 0
             /\ Publish(active_buffer)
             /\ state' = Published(active_buffer)
             /\ metrics' = Metrics(TRUE, FALSE)
          \/ /\ ~error /\ active_buffer # 0 /\ used[active_buffer] = 0
             /\ state' = [state EXCEPT ![active_buffer] = "Free"]
             /\ FinishFrame
          \/ /\ error \/ active_buffer = 0
             /\ UNCHANGED state
             /\ FinishFrame
       /\ asleep' = {}
       /\ UNCHANGED error

FinishBegin ==
    /\ Idle
    /\ FinishPublishes
    /\ active_buffer' = 0 /\ producer_done' = TRUE
    /\ life' = "joining"
    /\ UNCHANGED <<finish_result, released, content, used, reservation,
                   waiting, sizing, consumer, output, stream, faults>>

(* pthread_join; when it fails the consumer may still run, and everything  *)
(* it uses is kept.                                                        *)
FinishJoin ==
    /\ life = "joining"
    /\ \/ /\ consumer.at = "exited"
          /\ life' = "joined"
          /\ UNCHANGED <<error, faults>>
       \/ /\ Fault
          /\ error' = TRUE
          /\ life' = "unjoined"
    /\ UNCHANGED <<finish_result, released, buffers, producing, sizing,
                   asleep, consumer, output, metrics, stream>>

(* The padding frame, then the release of memory and file.                 *)
Pad == /\ frames' = Append(frames, "complete")
       /\ compressed_bytes' = compressed_bytes + padding
       /\ UNCHANGED written

NoPad == UNCHANGED output

FinishRelease ==
    /\ life = "joined"
    /\ life' = "finished" /\ released' = TRUE
    /\ IF ~error /\ padding # 0
       THEN \/ Pad /\ UNCHANGED <<error, faults>>
            \/ (Pad \/ NoPad) /\ Fault /\ error' = TRUE
       ELSE \/ NoPad /\ UNCHANGED <<error, faults>>
            \/ NoPad /\ Fault /\ error' = TRUE
    /\ finish_result' = ~error'
    /\ UNCHANGED <<buffers, producing, sizing, asleep, consumer, metrics,
                   stream>>

(* ~AsyncTraceWriter after a failed join: it joins, or it waits for        *)
(* consumer_exited.                                                        *)
DestroyWriter ==
    /\ life = "unjoined" /\ consumer.at = "exited"
    /\ life' = "destroyed" /\ released' = TRUE
    /\ UNCHANGED <<finish_result, buffers, producing, sizing, error, asleep,
                   consumer, output, metrics, stream, faults>>

(* A thread leaves pthread_cond_wait for no reason.                        *)
SpuriousWakeup ==
    /\ \E thread \in asleep : asleep' = asleep \ {thread}
    /\ UNCHANGED <<buffers, producing, sizing, ending, error, consumer,
                   output, metrics, stream, faults>>
-----------------------------------------------------------------------------
(* The steps the writer takes by itself, and a producer that may call      *)
(* anything at any time (but measures one frame at most, and asks for no   *)
(* file size: BinaryTraceWriter does).                                     *)
Retirement == FinishJoin \/ FinishRelease \/ DestroyWriter

Internal == Consumer \/ DrainSection \/ ProducerWakes \/ Retirement

Records == IF Len(stream) < MaxRecords
           THEN [id : {Len(stream) + 1}, size : Sizes] ELSE {}

Client ==
    \/ Open \/ DrainCheck \/ FinishBegin \/ CommitMisuse \/ CommitNothing
    \/ \E size \in Sizes : ReserveFits(size) \/ ReserveSwaps(size)
    \/ \E record \in Records : \/ Commit(record)
                               \/ final = <<>> /\ FinalFramePadding(record)

WriterNext == Internal \/ SpuriousWakeup \/ Client

(* The consumer is scheduled and its writes return; the producer's thread  *)
(* goes on inside a call it made.                                          *)
WriterFairness == /\ WF_wvars(Consumer)
                  /\ WF_wvars(DrainSection \/ ProducerWakes)
                  /\ WF_wvars(Retirement)

WriterSpec == WriterInit /\ [][WriterNext]_wvars /\ WriterFairness
-----------------------------------------------------------------------------
(* Properties.                                                             *)

(* The file is at any time a prefix of what was committed, in order and    *)
(* without repetition, made of whole frames except for the last: this is   *)
(* all a reader of a killed process has.                                   *)
FileIsPrefix ==
    /\ Len(written) <= Len(stream)
    /\ written = SubSeq(stream, 1, Len(written))
    /\ \A k \in 1..(Len(frames) - 1) : frames[k] = "complete"

(* finish() returns true only when everything committed is in the file, in *)
(* whole frames: no failure of a write, a close or a join is lost.         *)
FinishIsTruthful ==
    finish_result => /\ life = "finished"
                     /\ written = stream
                     /\ \A k \in 1..Len(frames) : frames[k] = "complete"

(* The producer's buffer is never the one the consumer reads, also when a  *)
(* failure frees every buffer under the consumer's hands.                  *)
BuffersAreExclusive ==
    consumer.buffer # 0 => active_buffer # consumer.buffer
=============================================================================
