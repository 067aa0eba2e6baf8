-------------------------- MODULE BinaryTraceWriter --------------------------
(***************************************************************************)
(* BinaryTraceWriter (events/binary_trace_writer.cpp) on top of its        *)
(* AsyncTraceWriter: records, the instruction dictionary, the terminal     *)
(* record that announces the totals of a file not finished yet, and the    *)
(* metrics sidecar.  A call runs on the target's thread and is a sequence  *)
(* of reserve, encode and commit steps between which the consumer runs.    *)
(***************************************************************************)
EXTENDS AsyncTraceWriter, FiniteSets

CONSTANTS
    Opcodes,           \* instruction opcodes of the target
    DictionarySlots,   \* slot_count_ of the dictionary
    MaxBytes           \* largest encoding of each kind of record

Kinds == {"header", "begin", "module", "event", "definition", "instruction",
          "terminal"}

ASSUME FacadeAssumption ==
    /\ DictionarySlots \in Nat
    /\ \A kind \in Kinds : MaxBytes[kind] \in 1..BufferBytes

VARIABLES
    opened, began,     \* opened_, began_
    termination,       \* termination_
    close_called, close_result,
    failed,            \* facade_failed_
    dictionary,        \* opcodes with a committed definition
    call,              \* the call in progress and what it still has to append
    footer,            \* the totals in the terminal record
    sidecar            \* the .metrics file

facade == <<opened, began, termination, close_called, close_result, failed,
            dictionary, call, footer, sidecar>>
fvars == <<wvars, facade>>

NoTotals == [encoded |-> 0, swaps |-> 0, waits |-> 0, compressed |-> 0]

(* What one append writes: a kind of record, for an opcode.                *)
Item(kind, op) == [kind |-> kind, op |-> op]
Last(records) == records[Len(records)]
Idling == [name |-> "idle", todo |-> <<>>]

FacadeInit ==
    /\ WriterInit
    /\ opened = FALSE /\ began = FALSE /\ termination = "None"
    /\ close_called = FALSE /\ close_result = FALSE /\ failed = FALSE
    /\ dictionary = {} /\ call = Idling /\ footer = NoTotals
    /\ sidecar = "none"

Healthy == ~failed /\ ~error

Writable == opened /\ began /\ termination = "None" /\ ~close_called /\ Healthy
NoCall == call = Idling

(* fail(), and the call returns false.                                     *)
Fail == /\ failed' = TRUE
        /\ call' = Idling
        /\ UNCHANGED <<opened, began, termination, close_called, close_result,
                       dictionary, footer, sidecar>>

Enter(name, todo) ==
    /\ call' = [name |-> name, todo |-> todo]
    /\ UNCHANGED <<wvars, opened, began, termination, close_called,
                   close_result, failed, dictionary, footer, sidecar>>
-----------------------------------------------------------------------------
(* open_prepared.                                                          *)
OpenPrepared ==
    /\ NoCall /\ ~opened /\ ~close_called
    /\ Open
    /\ opened' = (life' = "open")
    /\ failed' = (failed \/ life' # "open")
    /\ UNCHANGED <<began, termination, close_called, close_result, dictionary,
                   call, footer, sidecar>>

Begin ==
    /\ NoCall /\ opened /\ ~began /\ termination = "None" /\ ~close_called
    /\ Healthy
    /\ \E rule \in {<<>>, <<Item("event", 0)>>} :     \* calls_only
         Enter("begin", <<Item("header", 0), Item("begin", 0),
                          Item("module", 0)>> \o rule)

(* An instruction, with its definition the first time.                     *)
InstructionRecords(op) ==
    (IF op \in dictionary THEN <<>> ELSE <<Item("definition", op)>>)
        \o <<Item("instruction", op)>>

Instruction(op) ==
    /\ NoCall /\ Writable
    /\ \/ /\ op \in dictionary \/ Cardinality(dictionary) < DictionarySlots
          /\ Enter("event", InstructionRecords(op))
       \/ /\ op \notin dictionary /\ Cardinality(dictionary) >= DictionarySlots
          /\ Fail /\ UNCHANGED wvars

(* memory, call, rule and error; a long detail is written in chunks.       *)
Event(chunks) ==
    /\ NoCall /\ Writable
    /\ Enter("event", [k \in 1..chunks |-> Item("event", 0)])
-----------------------------------------------------------------------------
(* One append of the call in progress.                                     *)
Appending == call.todo # <<>> /\ call.name \in {"begin", "event", "seal"}
Next1 == Head(call.todo)

(* reserve; the producer may have to wait for the consumer.                *)
AppendReserve ==
    /\ Appending /\ reservation = 0
    /\ ReserveFits(MaxBytes[Next1.kind]) \/ ReserveSwaps(MaxBytes[Next1.kind])
    /\ UNCHANGED facade

(* reserve returned nothing: an error, also one met while waiting.         *)
AppendRefused ==
    /\ Appending /\ Idle /\ reservation = 0
    /\ error \/ active_buffer = 0
    /\ Fail /\ UNCHANGED wvars

EncodeFails ==
    /\ Appending /\ call.name # "seal"
    /\ CommitNothing
    /\ Fail

(* A call that has nothing left to append returns true.                    *)
Returns(rest) ==
    /\ call' = IF rest = <<>> THEN Idling ELSE [call EXCEPT !.todo = rest]
    /\ began' = (began \/ Next1.kind = "module")

Sizes1(item) == IF item.kind \in {"terminal", "header"} THEN {MaxBytes[item.kind]}
                ELSE 1..MaxBytes[item.kind]

Encoded(item, size) == [kind |-> item.kind, op |-> item.op, size |-> size]

AppendCommit ==
    /\ Appending
    /\ \E size \in Sizes1(Next1) : Commit(Encoded(Next1, size))
    /\ \/ error /\ Fail
       \/ /\ ~error
          /\ Returns(Tail(call.todo))
          /\ dictionary' = IF Next1.kind = "definition"
                           THEN dictionary \union {Next1.op} ELSE dictionary
          /\ termination' = IF Next1.kind = "terminal" THEN Next1.op
                            ELSE termination
          /\ UNCHANGED <<opened, close_called, close_result, failed, footer,
                         sidecar>>
-----------------------------------------------------------------------------
(* end and stop: finalize_terminal.                                        *)
Terminate(kind, ok) ==
    /\ NoCall /\ opened /\ began /\ termination = "None" /\ ~close_called
    /\ \/ /\ kind = "Completed" /\ ~ok
          /\ Fail /\ UNCHANGED wvars
       \/ /\ kind = "Stopped" \/ ok
          /\ Healthy
          /\ Enter("drain", <<Item("terminal", kind)>>)

FacadeDrain ==
    /\ call.name = "drain"
    /\ DrainCheck
    /\ call' = [call EXCEPT !.name = "target"]
    /\ UNCHANGED <<opened, began, termination, close_called, close_result,
                   failed, dictionary, footer, sidecar>>

(* Mutation: the swap of the last buffer is not announced.                 *)
TotalsAtDrain == [encoded |-> metrics.encoded + MaxBytes["terminal"],
                  swaps |-> metrics.swaps, waits |-> metrics.waits,
                  compressed |-> target']

(* What the counters will be once the terminal record is written.          *)
Totals == [encoded |-> metrics.encoded + MaxBytes["terminal"],
           swaps |-> metrics.swaps + 1, waits |-> metrics.waits,
           compressed |-> target']

FacadeTarget ==
    /\ call.name = "target"
    /\ FinalFileTarget(MaxBytes["terminal"])
    /\ footer' = Totals
    /\ call' = [call EXCEPT !.name = "padding"]
    /\ UNCHANGED <<opened, began, termination, close_called, close_result,
                   failed, dictionary, sidecar>>

FacadePadding ==
    /\ call.name = "padding"
    /\ FinalFramePadding(Encoded(Next1, MaxBytes["terminal"]))
    /\ \/ error' /\ Fail
       \/ /\ ~error'
          /\ call' = [call EXCEPT !.name = "seal"]
          /\ UNCHANGED <<opened, began, termination, close_called,
                         close_result, failed, dictionary, footer, sidecar>>

(* drain, final_file_target or final_frame_padding returned false.         *)
TerminateFails ==
    /\ call.name \in {"drain", "target", "padding"}
    /\ Idle /\ error
    /\ Fail /\ UNCHANGED wvars
-----------------------------------------------------------------------------
(* close: finish the file, then write the sidecar of a terminated trace.   *)
Close ==
    /\ NoCall /\ ~close_called
    /\ close_called' = TRUE
    /\ IF opened
       THEN /\ FinishBegin
            /\ call' = [name |-> "close", todo |-> <<>>]
       ELSE UNCHANGED <<wvars, call>>
    /\ UNCHANGED <<opened, began, termination, close_result, failed,
                   dictionary, footer, sidecar>>

CloseResult(metrics_ok) ==
    /\ close_result' = (finish_result /\ termination # "None" /\ Healthy
                        /\ metrics_ok)
    /\ failed' = (failed \/ ~finish_result \/ ~metrics_ok)
    /\ call' = Idling
    /\ opened' = FALSE
    /\ UNCHANGED <<began, termination, close_called, dictionary, footer>>

WantsSidecar == termination # "None" /\ finish_result

CloseFrame == UNCHANGED <<buffers, producing, sizing, ending, error, asleep,
                          consumer, output, metrics, stream>>

SidecarFails == Fault /\ sidecar' = "none" /\ CloseResult(FALSE)

CloseFinished ==
    /\ call.name = "close" /\ life \in {"finished", "unjoined", "destroyed"}
    /\ sidecar = "none"
    /\ \/ /\ WantsSidecar
          /\ sidecar' = "partial"
          /\ UNCHANGED <<opened, began, termination, close_called,
                         close_result, failed, dictionary, call, footer,
                         faults>>
       \/ WantsSidecar /\ SidecarFails
       \/ ~WantsSidecar /\ CloseResult(TRUE) /\ UNCHANGED <<sidecar, faults>>
    /\ CloseFrame

CloseSidecar ==
    /\ call.name = "close" /\ sidecar = "partial"
    /\ \/ sidecar' = "complete" /\ CloseResult(TRUE) /\ UNCHANGED faults
       \/ SidecarFails
    /\ CloseFrame
-----------------------------------------------------------------------------
(* The bound leaves room for the terminal record.                          *)
Room(records) == Len(stream) + records < MaxRecords

Calls ==
    \/ OpenPrepared \/ Begin \/ Close
    \/ \E op \in Opcodes : Room(2) /\ Instruction(op)
    \/ \E chunks \in 1..2 : Room(chunks) /\ Event(chunks)
    \/ \E ok \in BOOLEAN : Terminate("Completed", ok)
    \/ Terminate("Stopped", TRUE)

Proceed == AppendReserve \/ AppendRefused \/ EncodeFails \/ AppendCommit
           \/ FacadeDrain \/ FacadeTarget \/ FacadePadding \/ TerminateFails
           \/ CloseFinished \/ CloseSidecar

FacadeNext == \/ Calls \/ Proceed
              \/ (Internal \/ SpuriousWakeup) /\ UNCHANGED facade

(* A call in progress goes on: nothing but the consumer makes it wait.     *)
FacadeFairness == /\ WF_fvars(Proceed)
                  /\ WF_fvars(Consumer /\ UNCHANGED facade)
                  /\ WF_fvars((DrainSection \/ ProducerWakes) /\ UNCHANGED facade)
                  /\ WF_fvars(Retirement /\ UNCHANGED facade)

FacadeSpec == FacadeInit /\ [][FacadeNext]_fvars /\ FacadeFairness
-----------------------------------------------------------------------------
(* Properties.                                                             *)

(* close() returns true only for a file that ends with its terminal record,*)
(* and that record's totals, computed before the last frame was compressed *)
(* and the last buffer swapped, are the totals of the finished file.       *)
FooterIsTrue ==
    close_result =>
        /\ written # <<>> /\ Last(written).kind = "terminal"
        /\ Last(written).op = termination
        /\ footer = [encoded |-> metrics.encoded, swaps |-> metrics.swaps,
                     waits |-> metrics.waits, compressed |-> compressed_bytes]

(* However much of the stream reaches the file, a reader finds the         *)
(* definition of an instruction before the first use of it.                *)
InstructionsAreDefined ==
    \A k \in 1..Len(written) : written[k].kind = "instruction" =>
        \E j \in 1..(k - 1) : /\ written[j].kind = "definition"
                              /\ written[j].op = written[k].op

(* The sidecar appears only beside a finished file that has its terminal   *)
(* record, even when the process dies while it is written.                 *)
SidecarMeansSealed ==
    sidecar # "none" => /\ finish_result /\ written = stream
                        /\ Last(stream).kind = "terminal"

(* At every instant the file is a prefix of what was published, although   *)
(* the buffers are reused: no buffer is filled while it is compressed.     *)
(* The instructions in it follow their definitions.                        *)
FileIsReadable == FileIsPrefix /\ BuffersAreExclusive /\ InstructionsAreDefined

(* finish and close return true only for a file that is whole and ends     *)
(* with a terminal whose totals are those of the finished file, and the    *)
(* sidecar appears only beside such a file.                                *)
CloseIsTruthful == FinishIsTruthful /\ FooterIsTrue /\ SidecarMeansSealed

(* Every call of the writer returns.                                       *)
CallsReturn == (call # Idling) ~> (call = Idling)
=============================================================================
