--------------------------- MODULE TraceFileProofs ---------------------------
(***************************************************************************)
(* Proofs about the trace file: what the consumer has written is always a  *)
(* prefix of what was committed, and a close that returns true has left a  *)
(* whole file whose announced totals are the real ones.  They hold for     *)
(* every size of the buffers and the records, every number of records and  *)
(* failures, with and without compression.                                 *)
(***************************************************************************)
EXTENDS TraceWriterProofs

(* The calls of the facade.                                                *)
Names == {"idle", "begin", "event", "drain", "target", "padding", "seal", "close"}
Items == [kind : Kinds, op : Opcodes \union {0, "Completed", "Stopped"}]
Ending == {"drain", "target", "padding", "seal"}

FacadeTypeOK ==
    /\ call \in [name : Names, todo : Seq(Items)]
    /\ termination \in {"None", "Completed", "Stopped"}
    /\ sidecar \in {"none", "partial", "complete"}

(* What a call still has to append.                                        *)
CallIsOf(todo) ==
    /\ call.name \in {"idle", "close"} => todo = <<>>
    /\ call.name = "begin" => \A k \in 1..Len(todo) :
           todo[k].kind \in {"header", "begin", "module", "event"}
    /\ call.name = "event" =>
           \/ \A k \in 1..Len(todo) : todo[k].kind = "event"
           \/ Len(todo) = 1 /\ todo[1].kind = "instruction" /\ todo[1].op \in dictionary
           \/ /\ Len(todo) = 2 /\ todo[1].kind = "definition"
              /\ todo[2] = Item("instruction", todo[1].op)
    /\ call.name \in Ending => /\ Len(todo) = 1 /\ todo[1].kind = "terminal"
                               /\ todo[1].op \in {"Completed", "Stopped"}

Defined(str, op, before) ==
    \E j \in 1..before : str[j].kind = "definition" /\ str[j].op = op

DefinitionsPrecede ==
    /\ \A op \in dictionary : Defined(stream, op, Len(stream))
    /\ \A k \in 1..Len(stream) :
           stream[k].kind = "instruction" => Defined(stream, stream[k].op, k - 1)

TerminalBytes == MaxBytes["terminal"]
TerminalRecord(op) == Encoded(Item("terminal", op), TerminalBytes)

(* What final_file_target adds for the last frame, and what it takes.      *)
Reserved == IF compressed THEN FrameBound(TerminalBytes) + Header ELSE TerminalBytes
LastFrame == IF compressed THEN measured ELSE TerminalBytes

Announced(encoded, swaps) ==
    footer = [encoded |-> encoded, swaps |-> swaps, waits |-> metrics.waits,
              compressed |-> target]

(* Nothing is on its way to the file.                                      *)
Quiet == /\ life = "open" /\ active_buffer # 0 /\ waiting = "none"
         /\ state[Other(active_buffer)] = "Free" /\ consumer.buffer = 0
         /\ target = compressed_bytes + Reserved

TotalsAreAnnounced ==
    call.name \in {"padding", "seal"} /\ ~error =>
        /\ Quiet /\ used[active_buffer] = 0
        /\ Announced(metrics.encoded + TerminalBytes, metrics.swaps + 1)

(* The terminal record was measured as it will be written.                 *)
Measured(op) == /\ Reserved = LastFrame + padding
                /\ compressed => final = <<TerminalRecord(op)>>

TerminalIsMeasured ==
    call.name = "seal" /\ ~error => Measured(call.todo[1].op)

(* The buffer with the terminal record, on its way to the file.            *)
TerminalIn(i) == content[i] = <<TerminalRecord(termination)>> /\ used[i] = TerminalBytes

TerminalOnItsWay ==
    \E i \in Buffer :
        /\ TerminalIn(i) /\ state[Other(i)] = "Free"
        /\ \/ state[i] = "Ready" /\ consumer.buffer = 0
           \/ consumer.buffer = i /\ consumer.at \in {"write", "finish"}

TotalsComeTrue ==
    termination # "None" /\ Sound =>
        /\ Measured(termination)
        /\ \/ /\ Quiet /\ TerminalIn(active_buffer) /\ reservation = 0
              /\ Announced(metrics.encoded, metrics.swaps + 1)
           \/ /\ life # "open" /\ Announced(metrics.encoded, metrics.swaps)
              /\ \/ /\ life = "joining" /\ TerminalOnItsWay
                    /\ target = compressed_bytes + Reserved
                 \/ /\ life \in {"joining", "joined"} /\ Ready = {}
                    /\ consumer.at \in {"release", "scan", "exited"}
                    /\ target = compressed_bytes + padding
                 \/ life = "finished" /\ target = compressed_bytes

TerminalIsLast ==
    termination # "None" => /\ call.name \in {"idle", "close"}
                            /\ stream # <<>>
                            /\ Last(stream) = TerminalRecord(termination)

CloseFollows ==
    /\ close_result => finish_result /\ termination # "None"
    /\ sidecar # "none" => finish_result /\ termination # "None"

FInv == /\ FacadeTypeOK /\ CallIsOf(call.todo) /\ DefinitionsPrecede
        /\ TotalsAreAnnounced /\ TerminalIsMeasured /\ TotalsComeTrue
        /\ TerminalIsLast /\ CloseFollows
-----------------------------------------------------------------------------
(* The bytes an append asks for.                                           *)
LEMMA BytesOfKinds ==
    /\ \A kind \in Kinds : MaxBytes[kind] \in Nat \ {0} /\ MaxBytes[kind] <= BufferBytes
    /\ TerminalBytes \in Nat \ {0} /\ TerminalBytes <= BufferBytes
    /\ "terminal" \in Kinds
<1>1. BufferBytes \in Nat
  BY WriterAssumption
<1>2. QED
  BY <1>1, FacadeAssumption DEF Kinds, TerminalBytes

(* The record an append writes, and what is left to append after it.       *)
LEMMA NextRecord ==
    ASSUME FacadeTypeOK, call.todo # <<>>
    PROVE  /\ Next1 \in Items /\ Next1 = call.todo[1]
           /\ Len(call.todo) \in Nat \ {0}
           /\ Tail(call.todo) \in Seq(Items)
           /\ Len(Tail(call.todo)) = Len(call.todo) - 1
           /\ \A k \in 1..(Len(call.todo) - 1) : Tail(call.todo)[k] = call.todo[k + 1]
           /\ \A size \in Sizes1(Next1) : Encoded(Next1, size) \in RecordSet
<1>1. call.todo \in Seq(Items)
  BY DEF FacadeTypeOK
<1>2. /\ Next1 = call.todo[1] /\ Len(call.todo) \in Nat \ {0}
      /\ Tail(call.todo) \in Seq(Items)
      /\ Len(Tail(call.todo)) = Len(call.todo) - 1
      /\ \A k \in 1..(Len(call.todo) - 1) : Tail(call.todo)[k] = call.todo[k + 1]
  BY <1>1 DEF Next1
<1>3. Next1 \in Items
  BY <1>1, <1>2
<1>4. /\ Next1.kind \in Kinds
      /\ Next1.op \in Opcodes \union {0, "Completed", "Stopped"}
  BY <1>3 DEF Items
<1>5. ASSUME NEW size \in Sizes1(Next1)
      PROVE  size \in Nat \ {0}
  BY <1>4, <1>5, BytesOfKinds DEF Sizes1
<1>6. QED
  BY <1>2, <1>3, <1>4, <1>5, Zenon DEF Encoded, RecordSet

(* The terminal record is the one that finalize_terminal appends.          *)
LEMMA NextTerminal ==
    ASSUME FacadeTypeOK, CallIsOf(call.todo), call.name \in Ending
    PROVE  /\ call.todo # <<>> /\ Next1 = Item("terminal", call.todo[1].op)
           /\ call.todo[1].op \in {"Completed", "Stopped"}
           /\ Next1.kind = "terminal" /\ Next1.op = call.todo[1].op
           /\ Tail(call.todo) = <<>>
           /\ Encoded(Next1, TerminalBytes) = TerminalRecord(call.todo[1].op)
           /\ Encoded(Next1, TerminalBytes) \in RecordSet
<1>1. /\ Len(call.todo) = 1 /\ call.todo[1].kind = "terminal"
      /\ call.todo[1].op \in {"Completed", "Stopped"}
  BY DEF CallIsOf
<1>2. call.todo # <<>> /\ call.todo \in Seq(Items)
  BY <1>1 DEF FacadeTypeOK
<1>3. /\ Next1 \in Items /\ Next1 = call.todo[1] /\ Tail(call.todo) \in Seq(Items)
      /\ Len(Tail(call.todo)) = 0
  BY <1>1, <1>2, NextRecord
<1>4. Tail(call.todo) = <<>>
  BY Zenon, <1>3, NoElements
<1>5. Next1 = Item("terminal", call.todo[1].op)
  BY <1>1, <1>3 DEF Items, Item
<1>6. Encoded(Next1, TerminalBytes) = TerminalRecord(call.todo[1].op)
  BY <1>5 DEF TerminalRecord
<1>7. Encoded(Next1, TerminalBytes) \in RecordSet
  <2>1. /\ Next1.kind \in Kinds
        /\ Next1.op \in Opcodes \union {0, "Completed", "Stopped"}
    BY <1>3 DEF Items
  <2>2. QED
    BY <2>1, BytesOfKinds, Zenon DEF Encoded, RecordSet
<1>8. QED
  BY Zenon, <1>1, <1>2, <1>3, <1>4, <1>5, <1>6, <1>7

LEMMA FacadeStepsWriter ==
    ASSUME FacadeTypeOK, CallIsOf(call.todo), FacadeNext
    PROVE  WriterStep
<1>1. UNCHANGED wvars => CloseFrame
  BY DEF wvars, CloseFrame
<1>2. CASE Calls
  BY Zenon, <1>1, <1>2 DEF Calls, OpenPrepared, Begin, Close, Instruction, Event,
                    Terminate, Enter, WriterStep
<1>3. CASE AppendReserve
  <2>1. call.todo # <<>> /\ Next1 \in Items
    BY <1>3, NextRecord DEF AppendReserve, Appending
  <2>2. MaxBytes[Next1.kind] \in Int
    BY <2>1, BytesOfKinds DEF Items
  <2>3. QED
    BY <1>3, <2>2 DEF AppendReserve, WriterStep
<1>4. CASE AppendCommit
  <2>1. \A size \in Sizes1(Next1) : Encoded(Next1, size) \in RecordSet
    BY <1>4, NextRecord DEF AppendCommit, Appending
  <2>2. QED
    BY <1>4, <2>1 DEF AppendCommit, WriterStep
<1>5. CASE FacadeTarget
  BY <1>5, BytesOfKinds DEF FacadeTarget, WriterStep, TerminalBytes
<1>6. CASE FacadePadding
  <2>1. Encoded(Next1, TerminalBytes) \in RecordSet
    BY <1>6, NextTerminal DEF FacadePadding, Ending
  <2>2. QED
    BY <1>6, <2>1 DEF FacadePadding, WriterStep, TerminalBytes
<1>7. CASE AppendRefused \/ EncodeFails \/ FacadeDrain \/ TerminateFails
           \/ CloseFinished \/ CloseSidecar
  BY Zenon, <1>1, <1>7 DEF AppendRefused, EncodeFails, FacadeDrain, TerminateFails,
                    CloseFinished, CloseSidecar, WriterStep
<1>8. CASE (Internal \/ SpuriousWakeup) /\ UNCHANGED facade
  BY <1>8 DEF WriterStep
<1>9. QED
  BY <1>2, <1>3, <1>4, <1>5, <1>6, <1>7, <1>8 DEF FacadeNext, Proceed
-----------------------------------------------------------------------------
(* The calls.                                                              *)

(* Nothing is left of a call that returned.                                *)
LEMMA IdlingIsEmpty ==
    /\ Idling.name = "idle" /\ Idling.todo = <<>>
    /\ Idling \in [name : Names, todo : Seq(Items)]
<1>1. <<>> \in Seq(Items) /\ "idle" \in Names
  BY DEF Names
<1>2. QED
  BY <1>1 DEF Idling

(* A call that is entered appends what it should.                          *)
LEMMA CallsKeepShape ==
    ASSUME FacadeTypeOK, CallIsOf(call.todo), Calls
    PROVE  FacadeTypeOK' /\ CallIsOf(call.todo)'
<1>1. /\ termination \in {"None", "Completed", "Stopped"}
      /\ sidecar \in {"none", "partial", "complete"}
      /\ call \in [name : Names, todo : Seq(Items)]
  BY DEF FacadeTypeOK
<1>2. ASSUME UNCHANGED <<termination, sidecar, dictionary>>,
             call' = Idling \/ call' = [name |-> "close", todo |-> <<>>]
      PROVE  FacadeTypeOK' /\ CallIsOf(call.todo)'
  <2>1. /\ call'.name \in {"idle", "close"} /\ call'.todo = <<>>
        /\ call' \in [name : Names, todo : Seq(Items)]
    BY <1>2, IdlingIsEmpty DEF Names
  <2>2. QED
    BY <1>1, <1>2, <2>1 DEF FacadeTypeOK, CallIsOf, Ending
<1>3. CASE OpenPrepared
  BY <1>3 DEF OpenPrepared, FacadeTypeOK, CallIsOf
<1>4. CASE Close
  <2>1. CASE UNCHANGED call
    BY <1>4, <2>1 DEF Close, FacadeTypeOK, CallIsOf
  <2>2. CASE call' = [name |-> "close", todo |-> <<>>]
    BY <1>2, <1>4, <2>2 DEF Close
  <2>3. QED
    BY <1>4, <2>1, <2>2 DEF Close
<1>5. CASE Fail
  BY <1>2, <1>5 DEF Fail
<1>6. ASSUME NEW name \in Names, NEW todo \in Seq(Items), Enter(name, todo)
      PROVE  /\ FacadeTypeOK' /\ call'.name = name /\ call'.todo = todo
             /\ dictionary' = dictionary
  <2>1. call' = [name |-> name, todo |-> todo] /\ UNCHANGED <<termination, sidecar, dictionary>>
    BY <1>6 DEF Enter
  <2>2. QED
    BY <1>1, <2>1 DEF FacadeTypeOK
<1>7. {"begin", "event", "drain"} \subseteq Names
  BY DEF Names
<1>8. CASE Begin
  <2>1. PICK rule \in {<<>>, <<Item("event", 0)>>} :
            Enter("begin", <<Item("header", 0), Item("begin", 0),
                             Item("module", 0)>> \o rule)
    BY Zenon, <1>8 DEF Begin
  <2> DEFINE first == <<Item("header", 0), Item("begin", 0), Item("module", 0)>>
             S == {item \in Items : item.kind \in {"header", "begin", "module", "event"}}
  <2>2. /\ Item("header", 0) \in S /\ Item("begin", 0) \in S
        /\ Item("module", 0) \in S /\ Item("event", 0) \in S
    BY DEF Item, Items, Kinds
  <2> HIDE DEF S
  <2>3. first \in Seq(S) /\ rule \in Seq(S)
    <3>1. first \in Seq(S)
      BY <2>2, ShortSequences
    <3>2. <<>> \in Seq(S) /\ <<Item("event", 0)>> \in Seq(S)
      BY <2>2, ShortSequences
    <3>3. QED
      BY Zenon, <2>1, <3>1, <3>2
  <2> HIDE DEF first
  <2>4. first \o rule \in Seq(S)
    BY <2>3
  <2>5. /\ first \o rule \in Seq(Items)
        /\ \A k \in 1..Len(first \o rule) :
               (first \o rule)[k].kind \in {"header", "begin", "module", "event"}
    BY <2>4 DEF S
  <2>6. Enter("begin", first \o rule)
    BY <2>1 DEF first
  <2>7. FacadeTypeOK' /\ call'.name = "begin" /\ call'.todo = first \o rule
    BY Zenon, <1>6, <1>7, <2>5, <2>6
  <2>8. QED
    BY <2>5, <2>7 DEF CallIsOf, Ending
<1>9. ASSUME NEW op \in Opcodes, Enter("event", InstructionRecords(op))
      PROVE  FacadeTypeOK' /\ CallIsOf(call.todo)'
  <2>1. /\ Item("definition", op) \in Items /\ Item("instruction", op) \in Items
        /\ Item("definition", op).kind = "definition"
        /\ Item("definition", op).op = op
        /\ Item("instruction", op).kind = "instruction"
        /\ Item("instruction", op).op = op
    BY DEF Item, Items, Kinds
  <2>2. CASE op \in dictionary
    <3>1. InstructionRecords(op) = <<Item("instruction", op)>>
      BY <2>1, <2>2, ShortSequences DEF InstructionRecords
    <3>2. /\ FacadeTypeOK' /\ call'.name = "event" /\ dictionary' = dictionary
          /\ call'.todo = <<Item("instruction", op)>>
      <4>1. <<Item("instruction", op)>> \in Seq(Items)
        BY <2>1, ShortSequences
      <4>2. "event" \in Names
        BY <1>7
      <4>3. QED
        BY <1>6, <1>9, <3>1, <4>1, <4>2, Zenon
    <3>3. QED
      BY <2>1, <2>2, <3>2 DEF CallIsOf, Ending
  <2>3. CASE op \notin dictionary
    <3>1. InstructionRecords(op) = <<Item("definition", op), Item("instruction", op)>>
      BY <2>1, <2>3, ShortSequences DEF InstructionRecords
    <3>2. /\ FacadeTypeOK' /\ call'.name = "event" /\ dictionary' = dictionary
          /\ call'.todo = <<Item("definition", op), Item("instruction", op)>>
      <4>1. <<Item("definition", op), Item("instruction", op)>> \in Seq(Items)
        BY <2>1, ShortSequences
      <4>2. "event" \in Names
        BY <1>7
      <4>3. QED
        BY <1>6, <1>9, <3>1, <4>1, <4>2, Zenon
    <3>3. QED
      BY <2>1, <2>3, <3>2 DEF CallIsOf, Ending
  <2>4. QED
    BY <2>2, <2>3
<1>10. ASSUME NEW chunks \in 1..2, Event(chunks)
       PROVE  FacadeTypeOK' /\ CallIsOf(call.todo)'
  <2> DEFINE todo == [k \in 1..chunks |-> Item("event", 0)]
  <2>1. Item("event", 0) \in Items /\ Item("event", 0).kind = "event"
    BY DEF Item, Items, Kinds
  <2>2. /\ todo \in Seq(Items) /\ \A k \in 1..Len(todo) : todo[k].kind = "event"
    BY <2>1
  <2>3. Enter("event", todo)
    BY <1>10 DEF Event
  <2> HIDE DEF todo
  <2>4. FacadeTypeOK' /\ call'.name = "event" /\ call'.todo = todo
    BY <1>6, <1>7, <2>2, <2>3
  <2>5. QED
    BY Zenon, <2>2, <2>4 DEF CallIsOf, Ending
<1>11. ASSUME NEW kind \in {"Completed", "Stopped"},
              Enter("drain", <<Item("terminal", kind)>>)
       PROVE  FacadeTypeOK' /\ CallIsOf(call.todo)'
  <2>1. /\ Item("terminal", kind) \in Items /\ Item("terminal", kind).kind = "terminal"
        /\ Item("terminal", kind).op = kind
    BY <1>11 DEF Item, Items, Kinds
  <2>2. /\ FacadeTypeOK' /\ call'.name = "drain"
        /\ call'.todo = <<Item("terminal", kind)>>
    <3>1. <<Item("terminal", kind)>> \in Seq(Items)
      BY <2>1, ShortSequences
    <3>2. "drain" \in Names
      BY <1>7
    <3>3. QED
      BY <1>6, <1>11, <3>1, <3>2, Zenon
  <2>3. QED
    BY <1>11, <2>1, <2>2 DEF CallIsOf, Ending
<1>12. QED
  BY <1>3, <1>4, <1>5, <1>8, <1>9, <1>10, <1>11 DEF Calls, Instruction, Terminate

(* The steps of a call.                                                    *)
LEMMA AppendKeepsShape ==
    ASSUME FacadeTypeOK, CallIsOf(call.todo), AppendCommit, ~error
    PROVE  /\ FacadeTypeOK' /\ CallIsOf(call.todo)'
           /\ call.name = "seal" => /\ call' = Idling
                                    /\ termination' = call.todo[1].op
           /\ call.name # "seal" => termination' = termination
<1>1. /\ call.todo # <<>> /\ call.name \in {"begin", "event", "seal"}
      /\ call' = IF Tail(call.todo) = <<>> THEN Idling
                 ELSE [call EXCEPT !.todo = Tail(call.todo)]
      /\ dictionary' = IF Next1.kind = "definition"
                       THEN dictionary \union {Next1.op} ELSE dictionary
      /\ termination' = IF Next1.kind = "terminal" THEN Next1.op ELSE termination
      /\ sidecar' = sidecar
  BY DEF AppendCommit, Appending, Returns
<1>2. /\ Next1 \in Items /\ Next1 = call.todo[1]
      /\ Len(call.todo) \in Nat \ {0}
      /\ Tail(call.todo) \in Seq(Items)
      /\ Len(Tail(call.todo)) = Len(call.todo) - 1
      /\ \A k \in 1..(Len(call.todo) - 1) : Tail(call.todo)[k] = call.todo[k + 1]
  BY <1>1, NextRecord
<1>3. call \in [name : Names, todo : Seq(Items)] /\ 1 \in 1..Len(call.todo)
  BY <1>2 DEF FacadeTypeOK
<1>4. /\ call' \in [name : Names, todo : Seq(Items)]
      /\ \/ call'.name = "idle" /\ call'.todo = <<>>
         \/ call'.name = call.name /\ call'.todo = Tail(call.todo)
  <2>1. CASE Tail(call.todo) = <<>>
    BY <1>1, <2>1, IdlingIsEmpty
  <2>2. CASE Tail(call.todo) # <<>>
    BY Zenon, <1>1, <1>2, <1>3, <2>2
  <2>3. QED
    BY <2>1, <2>2
<1>5. CASE call.name = "seal"
  <2>1. /\ Tail(call.todo) = <<>> /\ Next1.kind = "terminal"
        /\ Next1.op = call.todo[1].op /\ call.todo[1].op \in {"Completed", "Stopped"}
    BY Zenon, <1>5, NextTerminal DEF Ending
  <2>2. call' = Idling /\ termination' = call.todo[1].op
    BY <1>1, <2>1
  <2>3. call'.name = "idle" /\ call'.todo = <<>>
    BY <2>2, IdlingIsEmpty
  <2>4. QED
    BY <1>1, <1>4, <1>5, <2>1, <2>2, <2>3 DEF FacadeTypeOK, CallIsOf, Ending
<1>6. CASE call.name = "begin"
  <2>1. \A k \in 1..Len(call.todo) :
            call.todo[k].kind \in {"header", "begin", "module", "event"}
    BY <1>6 DEF CallIsOf
  <2>2. Next1.kind # "terminal" /\ Next1.kind # "definition"
    BY <1>2, <1>3, <2>1
  <2>3. \A k \in 1..Len(Tail(call.todo)) :
            Tail(call.todo)[k].kind \in {"header", "begin", "module", "event"}
    <3>1. \A k \in 1..(Len(call.todo) - 1) : k + 1 \in 1..Len(call.todo)
      BY <1>2
    <3>2. QED
      BY Zenon, <1>2, <2>1, <3>1
  <2>4. FacadeTypeOK'
    BY <1>1, <1>4, <2>2 DEF FacadeTypeOK
  <2>5. QED
    BY Zenon, <1>1, <1>4, <1>6, <2>2, <2>3, <2>4 DEF CallIsOf, Ending
<1>7. CASE call.name = "event"
  <2>1. CASE \A k \in 1..Len(call.todo) : call.todo[k].kind = "event"
    <3>1. Next1.kind = "event"
      BY <1>2, <1>3, <2>1
    <3>2. \A k \in 1..Len(Tail(call.todo)) : Tail(call.todo)[k].kind = "event"
      <4>1. \A k \in 1..(Len(call.todo) - 1) : k + 1 \in 1..Len(call.todo)
        BY <1>2
      <4>2. QED
        BY <1>2, <2>1, <4>1
    <3>3. FacadeTypeOK'
      BY Zenon, <1>1, <1>4, <3>1 DEF FacadeTypeOK
    <3>4. QED
      BY Zenon, <1>1, <1>4, <1>7, <3>1, <3>2, <3>3 DEF CallIsOf, Ending
  <2>2. CASE Len(call.todo) = 1 /\ call.todo[1].kind = "instruction"
    <3>1. Tail(call.todo) = <<>> /\ Next1.kind = "instruction"
      <4>1. Len(Tail(call.todo)) = 0
        BY <1>2, <2>2
      <4>2. QED
        BY Zenon, <1>2, <2>2, <4>1, NoElements
    <3>2. FacadeTypeOK' /\ call'.name = "idle" /\ call'.todo = <<>>
      BY <1>1, <1>4, <3>1, IdlingIsEmpty DEF FacadeTypeOK
    <3>3. QED
      BY <1>1, <1>7, <3>1, <3>2 DEF CallIsOf, Ending
  <2>3. CASE /\ Len(call.todo) = 2 /\ call.todo[1].kind = "definition"
             /\ call.todo[2] = Item("instruction", call.todo[1].op)
    <3>1. /\ Len(Tail(call.todo)) = 1 /\ Next1.kind = "definition"
          /\ Tail(call.todo)[1] = Item("instruction", Next1.op)
      BY <1>2, <2>3
    <3>2. /\ Item("instruction", Next1.op).kind = "instruction"
          /\ Item("instruction", Next1.op).op = Next1.op
      BY DEF Item
    <3>3. Next1.op \in dictionary'
      BY <1>1, <3>1
    <3>4. FacadeTypeOK'
      BY <1>1, <1>4, <3>1 DEF FacadeTypeOK
    <3>5. termination' = termination
      BY <1>1, <3>1
    <3>6. CASE call'.name = "idle" /\ call'.todo = <<>>
      BY Zenon, <1>7, <3>4, <3>5, <3>6 DEF CallIsOf, Ending
    <3>7. CASE call'.name = "event" /\ call'.todo = Tail(call.todo)
      <4>1. /\ Len(call'.todo) = 1 /\ call'.todo[1].kind = "instruction"
            /\ call'.todo[1].op \in dictionary'
        BY Zenon, <3>1, <3>2, <3>3, <3>7
      <4>2. CallIsOf(call.todo)'
        BY Zenon, <3>7, <4>1 DEF CallIsOf, Ending
      <4>3. QED
        BY <1>7, <3>4, <3>5, <4>2
    <3>8. QED
      BY Zenon, <1>4, <1>7, <3>6, <3>7
  <2>4. QED
    BY Zenon, <1>7, <2>1, <2>2, <2>3 DEF CallIsOf
<1>8. QED
  BY Zenon, <1>1, <1>5, <1>6, <1>7

LEMMA ShapeKept ==
    ASSUME FacadeTypeOK, CallIsOf(call.todo), FacadeNext
    PROVE  FacadeTypeOK' /\ CallIsOf(call.todo)'
<1>1. /\ termination \in {"None", "Completed", "Stopped"}
      /\ sidecar \in {"none", "partial", "complete"}
      /\ call \in [name : Names, todo : Seq(Items)]
  BY DEF FacadeTypeOK
<1>2. ASSUME UNCHANGED <<termination, dictionary>>, call' = Idling,
             sidecar' \in {"none", "partial", "complete"}
      PROVE  FacadeTypeOK' /\ CallIsOf(call.todo)'
  <2>1. /\ call'.name = "idle" /\ call'.todo = <<>>
        /\ call' \in [name : Names, todo : Seq(Items)]
    BY <1>2, IdlingIsEmpty
  <2>2. QED
    BY Zenon, <1>1, <1>2, <2>1 DEF FacadeTypeOK, CallIsOf, Ending
<1>3. ASSUME UNCHANGED <<termination, dictionary, call>>,
             sidecar' \in {"none", "partial", "complete"}
      PROVE  FacadeTypeOK' /\ CallIsOf(call.todo)'
  BY Zenon, <1>3 DEF FacadeTypeOK, CallIsOf
<1>4. CASE Calls
  BY <1>4, CallsKeepShape
<1>5. CASE Fail
  BY <1>1, <1>2, <1>5 DEF Fail
<1>6. CASE AppendCommit /\ ~error
  BY <1>6, AppendKeepsShape
<1>7. CASE AppendReserve \/ ((Internal \/ SpuriousWakeup) /\ UNCHANGED facade)
  BY Zenon, <1>1, <1>3, <1>7 DEF AppendReserve, facade
<1>8. ASSUME NEW name \in Ending, call.name \in Ending,
             call' = [call EXCEPT !.name = name],
             UNCHANGED <<termination, dictionary, sidecar>>
      PROVE  FacadeTypeOK' /\ CallIsOf(call.todo)'
  <2>1. /\ call'.name = name /\ call'.todo = call.todo /\ name \in Names
        /\ call' \in [name : Names, todo : Seq(Items)]
    BY <1>1, <1>8 DEF Ending, Names
  <2>2. QED
    BY <1>1, <1>8, <2>1 DEF FacadeTypeOK, CallIsOf, Ending
<1>9. CASE FacadeDrain \/ FacadeTarget
  BY <1>8, <1>9 DEF FacadeDrain, FacadeTarget, Ending
<1>10. CASE FacadePadding /\ ~Fail
  BY <1>8, <1>10 DEF FacadePadding, Ending
<1>11. CASE CloseFinished \/ CloseSidecar
  BY Zenon, <1>1, <1>2, <1>3, <1>11 DEF CloseFinished, CloseSidecar, CloseResult, SidecarFails
<1>12. QED
  BY Zenon, <1>4, <1>5, <1>6, <1>7, <1>9, <1>10, <1>11
     DEF FacadeNext, Proceed, AppendRefused, EncodeFails, AppendCommit, TerminateFails
-----------------------------------------------------------------------------
(* Definitions come before their uses.                                     *)

LEMMA DefinedLater ==
    ASSUME NEW S, NEW str \in Seq(S), NEW r \in S, NEW op, NEW before \in Nat,
           NEW later \in Nat, before <= Len(str), before <= later,
           Defined(str, op, before)
    PROVE  Defined(Append(str, r), op, later)
<1>1. PICK j \in 1..before : str[j].kind = "definition" /\ str[j].op = op
  BY DEF Defined
<1>2. j \in 1..later /\ Append(str, r)[j] = str[j]
  OBVIOUS
<1>3. QED
  BY Zenon, <1>1, <1>2 DEF Defined

(* Only a commit adds to the stream, to the dictionary or the termination. *)
LEMMA OnlyAppendsCommit ==
    ASSUME FacadeNext, ~AppendCommit
    PROVE  UNCHANGED <<stream, dictionary, termination>>
<1>1. CASE Calls
  BY Zenon, <1>1 DEF Calls, OpenPrepared, Begin, Close, Instruction, Event, Terminate,
              Enter, Fail, Open, FinishBegin, wvars
<1>2. CASE AppendReserve \/ AppendRefused \/ EncodeFails
  BY Zenon, <1>2 DEF AppendReserve, AppendRefused, EncodeFails, Fail, ReserveFits,
              ReserveSwaps, SectionFrame, CommitNothing, wvars, facade
<1>3. CASE FacadeDrain \/ FacadeTarget \/ FacadePadding \/ TerminateFails
  BY Zenon, <1>3 DEF FacadeDrain, FacadeTarget, FacadePadding, TerminateFails, Fail,
              DrainCheck, FinalFileTarget, FinalFramePadding, SizingFrame, wvars
<1>4. CASE CloseFinished \/ CloseSidecar
  BY Zenon, <1>4 DEF CloseFinished, CloseSidecar, CloseResult, SidecarFails, CloseFrame
<1>5. CASE (Internal \/ SpuriousWakeup) /\ UNCHANGED facade
  BY Zenon, <1>5 DEF Internal, Consumer, Scan, WriteBegins, WriteEnds, Release,
              DrainSection, ProducerWakes, SectionFrame, Retirement, FinishJoin,
              FinishRelease, DestroyWriter, SpuriousWakeup, facade
<1>6. QED
  BY <1>1, <1>2, <1>3, <1>4, <1>5 DEF FacadeNext, Proceed

LEMMA DefinitionsKept ==
    ASSUME WInv, FacadeTypeOK, CallIsOf(call.todo), DefinitionsPrecede, FacadeNext
    PROVE  DefinitionsPrecede'
<1>1. CASE ~AppendCommit
  BY <1>1, OnlyAppendsCommit DEF DefinitionsPrecede
<1>2. CASE AppendCommit
  <2>1. /\ call.todo # <<>> /\ call.name \in {"begin", "event", "seal"}
        /\ \/ dictionary' = dictionary
           \/ Next1.kind = "definition" /\ dictionary' = dictionary \union {Next1.op}
    BY Zenon, <1>2 DEF AppendCommit, Appending, Fail
  <2>2. PICK size \in Sizes1(Next1) : Commit(Encoded(Next1, size))
    BY Zenon, <1>2 DEF AppendCommit
  <2> DEFINE r == Encoded(Next1, size)
             n == Len(stream)
  <2>3. r \in RecordSet /\ Next1 = call.todo[1] /\ Len(call.todo) \in Nat \ {0}
    BY Zenon, <2>1, <2>2, NextRecord
  <2>4. r.kind = Next1.kind /\ r.op = Next1.op
    BY DEF Encoded
  <2>5. stream' = Append(stream, r)
    BY <2>2 DEF Commit
  <2>6. Next1.kind = "instruction" => Next1.op \in dictionary
    <3>1. 1 \in 1..Len(call.todo)
      BY <2>3
    <3>2. QED
      BY Zenon, <2>1, <2>3, <3>1 DEF CallIsOf, Ending
  <2> HIDE DEF r
  <2>7. /\ stream \in Seq(RecordSet) /\ n \in Nat /\ Len(stream') = n + 1
        /\ stream'[n + 1] = r /\ \A k \in 1..n : stream'[k] = stream[k]
    BY <2>3, <2>5 DEF WInv, WriterTypeOK
  <2> HIDE DEF n
  <2>8. ASSUME NEW op \in dictionary'
        PROVE  Defined(stream', op, n + 1)
    <3>1. CASE op \in dictionary
      <4>1. Defined(stream, op, n)
        BY Zenon, <3>1 DEF DefinitionsPrecede, n
      <4>2. n <= Len(stream) /\ n <= n + 1 /\ n + 1 \in Nat
        BY <2>7 DEF n
      <4>3. QED
        BY Zenon, <2>3, <2>5, <2>7, <4>1, <4>2, DefinedLater
    <3>2. CASE op \notin dictionary
      <4>1. op = Next1.op /\ Next1.kind = "definition"
        BY <2>1, <2>8, <3>2
      <4>2. n + 1 \in 1..(n + 1)
        BY <2>7
      <4>3. QED
        BY Zenon, <2>4, <2>7, <4>1, <4>2 DEF Defined
    <3>3. QED
      BY <3>1, <3>2
  <2>9. ASSUME NEW k \in 1..(n + 1), stream'[k].kind = "instruction"
        PROVE  Defined(stream', stream'[k].op, k - 1)
    <3>1. CASE k = n + 1
      <4>1. Next1.op \in dictionary /\ stream'[k].op = Next1.op
        BY Zenon, <2>4, <2>6, <2>7, <2>9, <3>1
      <4>2. Defined(stream, Next1.op, n) /\ n <= Len(stream) /\ n <= n
        BY <2>7, <4>1 DEF DefinitionsPrecede, n
      <4>3. k - 1 = n
        BY <2>7, <3>1
      <4>4. QED
        BY Zenon, <2>3, <2>5, <2>7, <4>1, <4>2, <4>3, DefinedLater
    <3>2. CASE k # n + 1
      <4>1. k \in 1..n /\ k - 1 \in Nat /\ k - 1 <= n
        BY <2>7, <3>2
      <4>2. stream'[k] = stream[k]
        BY <2>7, <4>1
      <4>3. Defined(stream, stream[k].op, k - 1)
        BY <2>9, <4>1, <4>2 DEF DefinitionsPrecede, n
      <4>4. k - 1 <= Len(stream) /\ k - 1 <= k - 1
        BY <4>1 DEF n
      <4>5. QED
        BY Zenon, <2>3, <2>5, <2>7, <4>1, <4>2, <4>3, <4>4, DefinedLater
    <3>3. QED
      BY <3>1, <3>2
  <2>10. QED
    BY Zenon, <2>7, <2>8, <2>9 DEF DefinitionsPrecede
<1>3. QED
  BY <1>1, <1>2
-----------------------------------------------------------------------------
(* The totals of the terminal record.                                      *)

(* While nothing is on its way to the file the consumer only sleeps.       *)
LEMMA QuietStays ==
    ASSUME WInv, Quiet, ~error', Internal \/ SpuriousWakeup
    PROVE  UNCHANGED <<buffers, producing, sizing, ending, error, consumer,
                       output, metrics, stream>>
<1>1. /\ life = "open" /\ waiting = "none" /\ consumer.buffer = 0
      /\ active_buffer \in Buffer /\ state[Other(active_buffer)] = "Free"
  BY DEF Quiet, WInv, WriterTypeOK, Buffer
<1>2. /\ consumer.at \notin {"write", "finish", "release"} /\ ~producer_done
  BY Zenon, <1>1 DEF WInv, BuffersAreOwned, PhasesAgree
<1>3. ASSUME ~error
      PROVE  Ready = {}
  <2>1. state[active_buffer] = "Filling"
    BY Zenon, <1>1, <1>3 DEF WInv, BuffersAreOwned
  <2>2. QED
    BY <1>1, <2>1 DEF Ready, Buffer, Other
<1>4. CASE Scan
  <2>1. ~error
    BY Zenon, <1>4 DEF Scan
  <2>2. QED
    BY Zenon, <1>2, <1>3, <1>4, <2>1 DEF Scan, Oldest, buffers
<1>5. CASE SpuriousWakeup
  BY Zenon, <1>5 DEF SpuriousWakeup
<1>6. ~(WriteBegins \/ WriteEnds \/ Release \/ DrainSection \/ ProducerWakes
        \/ Retirement)
  BY <1>1, <1>2 DEF WriteBegins, WriteEnds, Release, DrainSection, ProducerWakes,
                    Retirement, FinishJoin, FinishRelease, DestroyWriter
<1>7. QED
  BY Zenon, <1>4, <1>5, <1>6 DEF Internal, Consumer

(* An error is never taken back.                                           *)
LEMMA ErrorsStay ==
    ASSUME WInv, WriterStep, error
    PROVE  error'
<1>1. CASE Open \/ CommitNothing \/ DrainCheck \/ FinishBegin \/ CloseFrame
  BY Zenon, <1>1 DEF Open, CommitNothing, DrainCheck, FinishBegin, FinishPublishes,
              SetFailure, CloseFrame
<1>2. CASE \E minimum \in Int : ReserveFits(minimum) \/ ReserveSwaps(minimum)
  BY <1>2 DEF ReserveFits, ReserveSwaps, Reservable
<1>3. CASE \/ \E bytes \in Int : FinalFileTarget(bytes)
           \/ \E record \in RecordSet : Commit(record) \/ FinalFramePadding(record)
  BY Zenon, <1>3 DEF FinalFileTarget, Commit, FinalFramePadding, Drained
<1>4. CASE Internal \/ SpuriousWakeup
  BY Zenon, <1>4 DEF Internal, Consumer, Scan, WriteBegins, WriteEnds, Release, SetFailure,
              DrainSection, ProducerWakes, SectionFrame, Retirement, FinishJoin,
              FinishRelease, DestroyWriter, SpuriousWakeup
<1>5. QED
  BY <1>1, <1>2, <1>3, <1>4 DEF WriterStep

(* A sleeping producer, in the calls that announce and write the terminal. *)
LEMMA QuietWhileTerminating ==
    ASSUME WInv, FInv, FacadeNext, ~error', UNCHANGED call,
           call.name \in {"padding", "seal"}
    PROVE  /\ UNCHANGED <<buffers, next_order, active_buffer, producer_done, waiting,
                          sizing, ending, error, consumer, output, metrics, stream>>
           /\ UNCHANGED <<footer, termination>>
<1>1. ~error
  BY FacadeStepsWriter, ErrorsStay DEF FInv
<1>2. Quiet /\ used[active_buffer] = 0
  BY <1>1 DEF FInv, TotalsAreAnnounced
<1>3. call.name # "idle" /\ call # Idling
  BY IdlingIsEmpty
<1>4. ~Calls
  BY Zenon, <1>3 DEF Calls, OpenPrepared, Begin, Close, Instruction, Event, Terminate, NoCall
<1>5. ~(AppendRefused \/ EncodeFails \/ TerminateFails \/ Fail)
  BY Zenon, <1>3 DEF AppendRefused, EncodeFails, TerminateFails, Fail
<1>6. ~(FacadeDrain \/ FacadeTarget \/ CloseFinished \/ CloseSidecar)
  BY Zenon DEF FacadeDrain, FacadeTarget, CloseFinished, CloseSidecar
<1>7. ~FacadePadding
  <2>1. SUFFICES ASSUME FacadePadding PROVE FALSE
    OBVIOUS
  <2>2. call.name = "padding" /\ call' = [call EXCEPT !.name = "seal"]
    BY <1>5, <2>1 DEF FacadePadding
  <2>3. call'.name = "seal"
    BY <2>2 DEF FInv, FacadeTypeOK
  <2>4. QED
    BY <2>2, <2>3
<1>8. ~AppendCommit
  <2>1. SUFFICES ASSUME AppendCommit PROVE FALSE
    OBVIOUS
  <2>2. call' = Idling
    BY Zenon, <1>1, <2>1, AppendKeepsShape DEF FInv, AppendCommit, Appending
  <2>3. QED
    BY <1>3, <2>2
<1>9. CASE AppendReserve
  <2>1. call.name = "seal" /\ UNCHANGED facade
    BY Zenon, <1>9 DEF AppendReserve, Appending
  <2>2. MaxBytes[Next1.kind] = TerminalBytes
    BY Zenon, <2>1, NextTerminal DEF FInv, Ending, TerminalBytes
  <2>3. /\ TerminalBytes <= BufferBytes /\ TerminalBytes \in Nat /\ BufferBytes \in Nat
    BY BytesOfKinds, WriterAssumption
  <2>4. ~ReserveSwaps(TerminalBytes)
    <3>1. ~(BufferBytes - used[active_buffer] < TerminalBytes)
      BY <1>2, <2>3
    <3>2. QED
      BY Zenon, <3>1 DEF ReserveSwaps
  <2>5. ReserveFits(TerminalBytes)
    BY Zenon, <1>9, <2>2, <2>4 DEF AppendReserve
  <2>6. QED
    BY <2>1, <2>5 DEF ReserveFits, facade
<1>10. CASE (Internal \/ SpuriousWakeup) /\ UNCHANGED facade
  BY Zenon, <1>2, <1>10, QuietStays DEF facade, producing
<1>11. QED
  BY <1>4, <1>5, <1>6, <1>7, <1>8, <1>9, <1>10 DEF FacadeNext, Proceed

(* Calls that announce or write the terminal record follow one another.    *)
LEMMA TerminatingCalls ==
    ASSUME FInv, FacadeNext, call'.name \in {"padding", "seal"}
    PROVE  FacadeTarget \/ (FacadePadding /\ ~Fail) \/ UNCHANGED call
<1>1. call' # Idling /\ call' # [name |-> "close", todo |-> <<>>]
  BY IdlingIsEmpty
<1>2. ~Fail
  BY <1>1 DEF Fail
<1>3. CASE Calls
  <2>1. \A name, todo : Enter(name, todo) => call'.name = name
    BY DEF Enter
  <2>2. QED
    BY Zenon, <1>1, <1>2, <1>3, <2>1
       DEF Calls, OpenPrepared, Begin, Close, Instruction, Event, Terminate
<1>4. CASE AppendCommit
  <2>1. call.name \in {"begin", "event", "seal"}
    BY Zenon, <1>4 DEF AppendCommit, Appending
  <2>2. ~error /\ call' = [call EXCEPT !.todo = Tail(call.todo)]
    BY <1>1, <1>2, <1>4 DEF AppendCommit, Returns
  <2>3. call'.name = call.name
    BY <2>2 DEF FInv, FacadeTypeOK
  <2>4. call.name = "seal"
    BY <2>1, <2>3
  <2>5. QED
    BY <1>1, <1>4, <2>2, <2>4, AppendKeepsShape DEF FInv
<1>5. CASE FacadeDrain
  BY <1>5 DEF FacadeDrain, FInv, FacadeTypeOK
<1>6. CASE CloseFinished \/ CloseSidecar
  BY Zenon, <1>1, <1>6 DEF CloseFinished, CloseSidecar, CloseResult, SidecarFails
<1>7. QED
  BY Zenon, <1>2, <1>3, <1>4, <1>5, <1>6
     DEF FacadeNext, Proceed, AppendReserve, AppendRefused, EncodeFails,
         TerminateFails, FacadePadding, facade

LEMMA AnnouncementKept ==
    ASSUME WInv, FInv, FacadeNext
    PROVE  TotalsAreAnnounced' /\ TerminalIsMeasured'
<1> SUFFICES ASSUME call'.name \in {"padding", "seal"}, ~error'
             PROVE  /\ Quiet' /\ used'[active_buffer'] = 0
                    /\ Announced(metrics.encoded + TerminalBytes, metrics.swaps + 1)'
                    /\ call'.name = "seal" => Measured(call.todo[1].op)'
  BY Zenon DEF TotalsAreAnnounced, TerminalIsMeasured
<1>1. ~error
  BY FacadeStepsWriter, ErrorsStay DEF FInv
<1>2. CASE UNCHANGED call
  <2>1. /\ UNCHANGED <<buffers, active_buffer, waiting, sizing, ending, consumer,
                       output, metrics, footer>>
    BY <1>2, QuietWhileTerminating
  <2>2. /\ Quiet /\ used[active_buffer] = 0
        /\ Announced(metrics.encoded + TerminalBytes, metrics.swaps + 1)
        /\ call.name = "seal" => Measured(call.todo[1].op)
    BY Zenon, <1>1, <1>2 DEF FInv, TotalsAreAnnounced, TerminalIsMeasured
  <2>3. Quiet' /\ used'[active_buffer'] = 0
    BY Zenon, <2>1, <2>2 DEF Quiet, Reserved, buffers, sizing, ending, output
  <2>4. Announced(metrics.encoded + TerminalBytes, metrics.swaps + 1)'
    BY Zenon, <2>1, <2>2 DEF Announced, sizing
  <2>5. call'.name = "seal" => Measured(call.todo[1].op)'
    BY Zenon, <1>2, <2>1, <2>2 DEF Measured, Reserved, LastFrame, sizing
  <2>6. QED
    BY Zenon, <2>3, <2>4, <2>5
<1>3. CASE FacadeTarget
  <2>1. /\ Drained /\ SizingFrame /\ error' = error
        /\ target' = compressed_bytes + Reserved
        /\ footer' = Totals /\ call' = [call EXCEPT !.name = "padding"]
    BY <1>3 DEF FacadeTarget, FinalFileTarget, Reserved, TerminalBytes
  <2>2. call'.name = "padding"
    BY <2>1 DEF FInv, FacadeTypeOK
  <2>3. consumer.buffer = 0
    <3>1. active_buffer \in Buffer /\ consumer.buffer \in 0..2
      BY <2>1 DEF WInv, WriterTypeOK, ConsumerSet, Drained, Buffer
    <3>2. /\ state[active_buffer] = "Filling" /\ state[Other(active_buffer)] = "Free"
          /\ Other(active_buffer) \in Buffer
      BY <1>1, <2>1, <3>1 DEF WInv, BuffersAreOwned, Drained, Other, Buffer
    <3>3. consumer.buffer # active_buffer /\ consumer.buffer # Other(active_buffer)
      BY Zenon, <1>1, <3>1, <3>2 DEF WInv, BuffersAreOwned
    <3>4. QED
      BY <3>1, <3>3 DEF Other, Buffer
  <2>4. Quiet' /\ used'[active_buffer'] = 0
    BY <2>1, <2>3 DEF Quiet, Reserved, Drained, Idle, SizingFrame, buffers,
                      producing, ending, output
  <2>5. Announced(metrics.encoded + TerminalBytes, metrics.swaps + 1)'
    BY <2>1 DEF Announced, Totals, SizingFrame, TerminalBytes
  <2>6. QED
    BY Zenon, <2>2, <2>4, <2>5
<1>4. CASE FacadePadding /\ ~Fail
  <2>1. /\ call.name = "padding" /\ call' = [call EXCEPT !.name = "seal"]
        /\ UNCHANGED footer
        /\ FinalFramePadding(Encoded(Next1, TerminalBytes))
    BY <1>4 DEF FacadePadding, TerminalBytes
  <2>2. call'.name = "seal" /\ call'.todo = call.todo
    BY <2>1 DEF FInv, FacadeTypeOK
  <2>3. Encoded(Next1, TerminalBytes) = TerminalRecord(call.todo[1].op)
    BY <2>1, NextTerminal DEF FInv, Ending
  <2>4. Encoded(Next1, TerminalBytes).size = TerminalBytes
    BY Zenon DEF Encoded
  <2>5. /\ SizingFrame /\ UNCHANGED target /\ UNCHANGED error
    BY <1>1, <2>1 DEF FinalFramePadding
  <2>6. /\ Quiet /\ used[active_buffer] = 0
        /\ Announced(metrics.encoded + TerminalBytes, metrics.swaps + 1)
    BY <1>1, <2>1 DEF FInv, TotalsAreAnnounced
  <2>7. Quiet' /\ used'[active_buffer'] = 0
    BY Zenon, <2>5, <2>6 DEF Quiet, Reserved, SizingFrame, buffers, producing, ending, output
  <2>8. Announced(metrics.encoded + TerminalBytes, metrics.swaps + 1)'
    BY <2>1, <2>5, <2>6 DEF Announced, SizingFrame
  <2>9. Measured(call.todo[1].op)'
    <3>1. TerminalBytes \in Nat /\ Overhead \in Nat /\ Header \in Nat
      BY BytesOfKinds, WriterAssumption
    <3>2. FrameBound(TerminalBytes) \in Nat
      BY <3>1 DEF FrameBound
    <3>3. compressed' = compressed
      BY Zenon, <2>5 DEF SizingFrame
    <3>4. CASE compressed
      <4>1. PICK size \in {1, FrameBound(TerminalBytes)} :
                /\ measured' = size
                /\ padding' = FrameBound(TerminalBytes) + Header - size
        BY <1>1, <2>1, <2>4, <2>5, <3>4 DEF FinalFramePadding
      <4>2. final' = <<TerminalRecord(call.todo[1].op)>>
        BY <1>1, <2>1, <2>3, <2>5, <3>4 DEF FinalFramePadding
      <4>3. FrameBound(TerminalBytes) + Header = measured' + padding'
        BY <3>1, <3>2, <4>1
      <4>4. QED
        BY Zenon, <2>2, <3>3, <3>4, <4>2, <4>3 DEF Measured, Reserved, LastFrame
    <3>5. CASE ~compressed
      <4>1. padding' = 0
        BY <2>1, <3>5 DEF FinalFramePadding
      <4>2. TerminalBytes = TerminalBytes + 0
        BY <3>1
      <4>3. QED
        BY Zenon, <3>3, <3>5, <4>1, <4>2 DEF Measured, Reserved, LastFrame
    <3>6. QED
      BY Zenon, <3>4, <3>5
  <2>10. QED
    BY Zenon, <2>7, <2>8, <2>9
<1>5. QED
  BY Zenon, <1>2, <1>3, <1>4, TerminatingCalls

(* What has to be shown of a step once the terminal record is committed.   *)
LEMMA EndingSteps ==
    ASSUME WInv, FInv, FacadeNext, termination' # "None"
    PROVE  \/ AppendCommit /\ ~error /\ call.name = "seal"
           \/ /\ termination # "None"
              /\ UNCHANGED <<termination, stream, footer>>
              /\ call'.name \in {"idle", "close"}
              /\ \/ FinishBegin \/ CloseFrame
                 \/ Internal \/ SpuriousWakeup
<1>1. CASE AppendCommit /\ ~error /\ call.name # "seal"
  <2>1. termination' = termination
    BY <1>1, AppendKeepsShape DEF FInv
  <2>2. call.name \in {"idle", "close"}
    BY <2>1 DEF FInv, TerminalIsLast
  <2>3. QED
    BY Zenon, <1>1, <2>2 DEF AppendCommit, Appending
<1>2. CASE AppendCommit /\ error
  <2>1. termination' = termination
    BY <1>2 DEF AppendCommit, Fail
  <2>2. call.name \in {"idle", "close"}
    BY <2>1 DEF FInv, TerminalIsLast
  <2>3. QED
    BY Zenon, <1>2, <2>2 DEF AppendCommit, Appending
<1>3. CASE ~AppendCommit
  <2>1. UNCHANGED <<stream, termination>>
    BY <1>3, OnlyAppendsCommit
  <2>2. termination # "None" /\ call.name \in {"idle", "close"}
    BY <2>1 DEF FInv, TerminalIsLast
  <2>3. ~(AppendReserve \/ AppendRefused \/ EncodeFails \/ FacadeDrain
          \/ FacadeTarget \/ FacadePadding \/ TerminateFails)
    BY <2>2 DEF AppendReserve, AppendRefused, EncodeFails, Appending,
                FacadeDrain, FacadeTarget, FacadePadding, TerminateFails
  <2>4. CASE (Internal \/ SpuriousWakeup) /\ UNCHANGED facade
    BY <2>1, <2>2, <2>4 DEF facade
  <2>5. CASE CloseFinished \/ CloseSidecar
    <3>1. CloseFrame /\ UNCHANGED footer /\ (call' = call \/ call' = Idling)
      BY Zenon, <2>5 DEF CloseFinished, CloseSidecar, CloseResult, SidecarFails
    <3>2. call'.name \in {"idle", "close"}
      BY <2>2, <3>1, IdlingIsEmpty
    <3>3. QED
      BY <2>1, <2>2, <3>1, <3>2
  <2>6. CASE Close
    <3>1. UNCHANGED footer /\ (FinishBegin \/ UNCHANGED wvars)
      BY Zenon, <2>6 DEF Close
    <3>2. call'.name \in {"idle", "close"}
      BY <2>2, <2>6 DEF Close
    <3>3. UNCHANGED wvars => CloseFrame
      BY DEF wvars, CloseFrame
    <3>4. QED
      BY <2>1, <2>2, <3>1, <3>2, <3>3
  <2>7. ~OpenPrepared
    <3>1. SUFFICES ASSUME life = "new" PROVE FALSE
      BY DEF OpenPrepared, Open
    <3>2. ~error /\ consumer.at = "none"
      BY Zenon, <3>1 DEF WInv, PhasesAgree
    <3>3. Sound
      BY <3>2 DEF Sound
    <3>4. QED
      BY Zenon, <2>2, <3>1, <3>3 DEF FInv, TotalsComeTrue, Quiet
  <2>8. ~(\/ Begin \/ \E op \in Opcodes : Instruction(op)
          \/ \E chunks \in 1..2 : Event(chunks)
          \/ \E kind, ok : Terminate(kind, ok))
    BY Zenon, <2>2 DEF Begin, Instruction, Event, Terminate, Writable
  <2>9. QED
    BY Zenon, <1>3, <2>3, <2>4, <2>5, <2>6, <2>7, <2>8 DEF FacadeNext, Proceed, Calls
<1>4. QED
  BY Zenon, <1>1, <1>2, <1>3

(* The terminal record is committed to an empty buffer.                    *)
LEMMA TerminalCommitted ==
    ASSUME WInv, FInv, AppendCommit, ~error, call.name = "seal"
    PROVE  TotalsComeTrue' /\ TerminalIsLast'
<1>a. PICK op : op = call.todo[1].op
  OBVIOUS
<1>b. PICK i : i = active_buffer
  OBVIOUS
<1>1. call' = Idling /\ termination' = op
  BY Zenon, <1>a, AppendKeepsShape DEF FInv
<1>2. /\ call.todo # <<>> /\ Next1.kind = "terminal" /\ op \in {"Completed", "Stopped"}
      /\ Encoded(Next1, TerminalBytes) = TerminalRecord(op)
      /\ Encoded(Next1, TerminalBytes) \in RecordSet
  BY Zenon, <1>a, NextTerminal DEF FInv, Ending
<1>3. Sizes1(Next1) = {TerminalBytes}
  BY Zenon, <1>2 DEF Sizes1, TerminalBytes
<1>4. Commit(TerminalRecord(op)) /\ TerminalRecord(op) \in RecordSet
  BY Zenon, <1>2, <1>3 DEF AppendCommit
<1>5. /\ Quiet /\ used[i] = 0 /\ Measured(op)
      /\ Announced(metrics.encoded + TerminalBytes, metrics.swaps + 1)
  BY Zenon, <1>a, <1>b DEF FInv, TotalsAreAnnounced, TerminalIsMeasured
<1>6. i \in Buffer /\ content[i] = <<>>
  <2>1. active_buffer \in 0..2 /\ active_buffer # 0
    BY Zenon, <1>5 DEF Quiet, WInv, WriterTypeOK
  <2>2. i \in Buffer
    BY <1>b, <2>1 DEF Buffer
  <2>3. QED
    BY Zenon, <1>5, <2>2 DEF WInv, BuffersAreOwned
<1>7. TerminalRecord(op).size = TerminalBytes /\ TerminalBytes \in Nat
  BY Zenon, BytesOfKinds DEF TerminalRecord, Encoded
<1>8. /\ content' = [content EXCEPT ![i] = Append(@, TerminalRecord(op))]
      /\ used' = [used EXCEPT ![i] = @ + TerminalRecord(op).size]
      /\ metrics' = [metrics EXCEPT !.encoded = @ + TerminalRecord(op).size]
      /\ stream' = Append(stream, TerminalRecord(op)) /\ reservation' = 0
      /\ UNCHANGED <<state, active_buffer, waiting, sizing, ending, error,
                     consumer, output>>
  BY <1>4, <1>b DEF Commit
<1>9. /\ content \in [Buffer -> Seq(RecordSet)] /\ used \in [Buffer -> Nat]
      /\ metrics \in MetricSet /\ stream \in Seq(RecordSet)
  BY Zenon DEF WInv, WriterTypeOK
<1>10. content'[i] = <<TerminalRecord(op)>> /\ used'[i] = TerminalBytes
  <2>1. used'[i] = 0 + TerminalBytes
    BY <1>5, <1>6, <1>7, <1>8, <1>9
  <2>2. content'[i] = Append(<<>>, TerminalRecord(op))
    BY <1>6, <1>8, <1>9
  <2>3. Append(<<>>, TerminalRecord(op)) = <<TerminalRecord(op)>>
    OBVIOUS
  <2>4. QED
    BY <1>7, <2>1, <2>2, <2>3
<1>11. TerminalIn(i)'
  BY <1>1, <1>8, <1>10 DEF TerminalIn
<1>12. Quiet'
  BY <1>5, <1>8 DEF Quiet, Reserved, sizing, ending, output
<1>13. Measured(op)'
  BY <1>5, <1>8 DEF Measured, Reserved, LastFrame, sizing
<1>14. Announced(metrics.encoded, metrics.swaps + 1)'
  <2>1. /\ metrics'.encoded = metrics.encoded + TerminalBytes
        /\ metrics'.swaps = metrics.swaps /\ metrics'.waits = metrics.waits
    BY <1>7, <1>8, <1>9 DEF MetricSet
  <2>2. footer' = footer
    BY Zenon DEF AppendCommit, Fail
  <2>3. QED
    BY <1>5, <1>8, <2>1, <2>2 DEF Announced, sizing
<1>15. TotalsComeTrue'
  BY <1>1, <1>8, <1>11, <1>12, <1>13, <1>14, <1>b DEF TotalsComeTrue
<1>16. TerminalIsLast'
  <2>1. stream' # <<>> /\ Last(stream') = TerminalRecord(op)
    <3>1. /\ Len(stream') = Len(stream) + 1 /\ Len(stream) \in Nat
          /\ stream'[Len(stream) + 1] = TerminalRecord(op)
      BY <1>4, <1>8, <1>9
    <3>2. stream' # <<>>
      BY <3>1
    <3>3. QED
      BY <3>1, <3>2 DEF Last
  <2>2. QED
    BY Zenon, <1>1, <2>1, IdlingIsEmpty DEF TerminalIsLast
<1>17. QED
  BY <1>15, <1>16

(* finish publishes the buffer with the terminal record.                   *)
LEMMA TerminalPublished ==
    ASSUME WInv, FInv, termination # "None", UNCHANGED <<termination, footer>>,
           FinishBegin, Sound'
    PROVE  TotalsComeTrue'
<1>a. PICK i : i = active_buffer
  OBVIOUS
<1>1. life = "open" /\ life' = "joining" /\ UNCHANGED <<consumer, sizing, output, content, used>>
  BY Zenon DEF FinishBegin, Idle
<1>2. ~error' /\ ~error
  <2>1. ~error'
    BY DEF Sound
  <2>2. error' = TRUE \/ error' = error
    BY Zenon DEF FinishBegin, FinishPublishes, SetFailure
  <2>3. QED
    BY <2>1, <2>2
<1>3. Sound
  BY <1>1, <1>2 DEF Sound
<1>4. /\ Measured(termination) /\ Quiet /\ TerminalIn(i) /\ reservation = 0
      /\ Announced(metrics.encoded, metrics.swaps + 1)
  BY Zenon, <1>1, <1>3, <1>a DEF FInv, TotalsComeTrue
<1>5. i \in Buffer /\ used[i] # 0
  <2>1. TerminalBytes # 0
    BY BytesOfKinds
  <2>2. QED
    BY <1>4, <1>a, <2>1 DEF Quiet, TerminalIn, WInv, WriterTypeOK, Buffer
<1>6. /\ state' = [state EXCEPT ![i] = "Ready"] /\ metrics' = Metrics(TRUE, FALSE)
  BY Zenon, <1>2, <1>4, <1>5, <1>a
     DEF FinishBegin, FinishPublishes, SetFailure, Published, Quiet
<1>7. /\ metrics'.encoded = metrics.encoded /\ metrics'.swaps = metrics.swaps + 1
      /\ metrics'.waits = metrics.waits
  <2>1. metrics \in MetricSet
    BY Zenon DEF WInv, WriterTypeOK
  <2>2. /\ metrics'.encoded = metrics.encoded
        /\ metrics'.swaps = metrics.swaps + (IF TRUE THEN 1 ELSE 0)
        /\ metrics'.waits = metrics.waits + (IF FALSE THEN 1 ELSE 0)
    BY Zenon, <1>6, <2>1, MetricsTyped
  <2>3. QED
    BY <2>1, <2>2 DEF MetricSet
<1>8. TerminalOnItsWay'
  <2>1. state \in [Buffer -> States]
    BY Zenon DEF WInv, WriterTypeOK
  <2>2. state'[i] = "Ready" /\ state'[Other(i)] = "Free"
    BY <1>4, <1>5, <1>6, <1>a, <2>1 DEF Quiet, Other, Buffer
  <2>3. TerminalIn(i)'
    BY Zenon, <1>1, <1>4 DEF TerminalIn
  <2>4. consumer'.buffer = 0
    BY Zenon, <1>1, <1>4 DEF Quiet
  <2>5. QED
    BY <1>5, <2>2, <2>3, <2>4 DEF TerminalOnItsWay
<1>9. Measured(termination)' /\ target' = compressed_bytes' + Reserved'
  BY Zenon, <1>1, <1>4 DEF Measured, Reserved, LastFrame, Quiet, sizing, output
<1>10. Announced(metrics.encoded, metrics.swaps)'
  BY Zenon, <1>1, <1>4, <1>7 DEF Announced, sizing
<1>11. QED
  BY Zenon, <1>1, <1>8, <1>9, <1>10 DEF TotalsComeTrue

(* The consumer's and the finishing thread's steps with the terminal.      *)
LEMMA TerminalWritten ==
    ASSUME WInv, FInv, termination # "None", UNCHANGED <<termination, footer>>,
           Internal \/ SpuriousWakeup, Sound'
    PROVE  TotalsComeTrue'
<1>1. WInv' /\ ~error' /\ ~error
  <2>1. WriterStep
    BY DEF WriterStep
  <2>2. QED
    BY <2>1, WriterStepKeeps, ErrorsStay DEF Sound
<1>2. Sound
  <2>1. SUFFICES ASSUME consumer.at = "release", ~consumer.ok PROVE FALSE
    BY Zenon, <1>1 DEF Sound
  <2>2. ~(Scan \/ WriteBegins \/ WriteEnds)
    BY <2>1 DEF Scan, WriteBegins, WriteEnds
  <2>3. ~Release
    BY <1>1, <2>1 DEF Release, SetFailure
  <2>4. UNCHANGED consumer
    BY Zenon, <2>2, <2>3 DEF Internal, Consumer, DrainSection, ProducerWakes, SectionFrame,
                      Retirement, FinishJoin, FinishRelease, DestroyWriter, SpuriousWakeup
  <2>5. QED
    BY <2>1, <2>4 DEF Sound
<1>3. CASE /\ Quiet /\ TerminalIn(active_buffer) /\ reservation = 0
           /\ Announced(metrics.encoded, metrics.swaps + 1)
  <2>1. UNCHANGED <<buffers, producing, sizing, ending, consumer, output, metrics>>
    BY Zenon, <1>1, <1>3, QuietStays
  <2>2. Measured(termination)'
    BY Zenon, <1>2, <2>1 DEF FInv, TotalsComeTrue, Measured, Reserved, LastFrame, sizing
  <2>3. Quiet'
    BY Zenon, <1>3, <2>1 DEF Quiet, Reserved, buffers, producing, sizing, ending, output
  <2>4. TerminalIn(active_buffer)' /\ reservation' = 0
    BY Zenon, <1>3, <2>1 DEF TerminalIn, buffers, producing
  <2>5. Announced(metrics.encoded, metrics.swaps + 1)'
    BY Zenon, <1>3, <2>1 DEF Announced, sizing
  <2>6. QED
    BY Zenon, <2>2, <2>3, <2>4, <2>5 DEF TotalsComeTrue
<1>4. CASE life # "open" /\ Announced(metrics.encoded, metrics.swaps)
  <2>1. waiting = "none"
    BY Zenon, <1>4 DEF WInv, PhasesAgree
  <2>2. ~(DrainSection \/ ProducerWakes)
    BY Zenon, <2>1 DEF DrainSection, ProducerWakes
  <2>3. UNCHANGED <<sizing, metrics>>
    BY Zenon, <2>2 DEF Internal, Consumer, Scan, WriteBegins, WriteEnds, Release,
                Retirement, FinishJoin, FinishRelease, DestroyWriter, SpuriousWakeup
  <2>4. life' # "open"
    BY Zenon, <1>4, <2>2 DEF Internal, Consumer, Scan, WriteBegins, WriteEnds, Release, ending,
                Retirement, FinishJoin, FinishRelease, DestroyWriter, SpuriousWakeup
  <2>5. Measured(termination) /\ Measured(termination)'
    BY Zenon, <1>2, <2>3 DEF FInv, TotalsComeTrue, Measured, Reserved, LastFrame, sizing
  <2>6. Announced(metrics.encoded, metrics.swaps)'
    BY Zenon, <1>4, <2>3 DEF Announced, sizing
  <2>7. target' = target /\ padding' = padding /\ Reserved' = Reserved
    BY <2>3 DEF sizing, Reserved
  <2>8. SUFFICES
          \/ /\ life' = "joining" /\ TerminalOnItsWay'
             /\ target = compressed_bytes' + Reserved
          \/ /\ life' \in {"joining", "joined"} /\ Ready' = {}
             /\ consumer'.at \in {"release", "scan", "exited"}
             /\ target = compressed_bytes' + padding
          \/ life' = "finished" /\ target = compressed_bytes'
    BY Zenon, <2>4, <2>5, <2>6, <2>7 DEF TotalsComeTrue
  <2>9. /\ consumer \in ConsumerSet /\ consumer.buffer \in 0..2
        /\ state \in [Buffer -> States]
        /\ {compressed_bytes, target, padding} \subseteq Int
    BY Zenon DEF WInv, WriterTypeOK, ConsumerSet
  <2>10. CASE SpuriousWakeup
    <3>1. UNCHANGED <<life, state, content, used, consumer, compressed_bytes>>
      BY Zenon, <2>10 DEF SpuriousWakeup, buffers, ending, output
    <3>2. TerminalOnItsWay' = TerminalOnItsWay /\ Ready' = Ready
      BY Zenon, <3>1 DEF TerminalOnItsWay, TerminalIn, Ready
    <3>3. QED
      BY Zenon, <1>2, <1>4, <3>1, <3>2 DEF FInv, TotalsComeTrue, Quiet
  <2>11. CASE life = "joining" /\ TerminalOnItsWay /\ target = compressed_bytes + Reserved
    <3>1. PICK i \in Buffer :
              /\ TerminalIn(i) /\ state[Other(i)] = "Free"
              /\ \/ state[i] = "Ready" /\ consumer.buffer = 0
                 \/ consumer.buffer = i /\ consumer.at \in {"write", "finish"}
      BY Zenon, <2>11 DEF TerminalOnItsWay
    <3>2. Other(i) \in Buffer /\ Buffer = {i, Other(i)} /\ i # Other(i) /\ i # 0
      BY DEF Buffer, Other
    <3>3. CASE Scan
      <4>1. consumer.at = "scan" /\ consumer.buffer = 0 /\ state[i] = "Ready"
        BY Zenon, <3>1, <3>3 DEF Scan, WInv, BuffersAreOwned
      <4>2. Ready = {i} /\ Oldest \subseteq {i}
        BY Zenon, <3>1, <3>2, <4>1 DEF Ready, Oldest
      <4>3. /\ consumer' = [consumer EXCEPT !.at = "write", !.buffer = i]
            /\ UNCHANGED <<life, compressed_bytes, content, used>>
            /\ state' = [state EXCEPT ![i] = "Writing"]
        BY Zenon, <1>1, <3>3, <4>2 DEF Scan, ending, output
      <4>4. consumer'.buffer = i /\ consumer'.at = "write"
        BY <2>9, <4>3, Zenon DEF ConsumerSet
      <4>5. state'[Other(i)] = "Free"
        BY <2>9, <3>1, <3>2, <4>3
      <4>6. TerminalIn(i)'
        BY <3>1, <4>3 DEF TerminalIn
      <4>7. TerminalOnItsWay'
        BY <4>4, <4>5, <4>6 DEF TerminalOnItsWay
      <4>8. QED
        BY <2>11, <4>3, <4>7
    <3>4. CASE WriteBegins
      <4>1. consumer.at = "write" /\ consumer.buffer = i
        BY <3>1, <3>4 DEF WriteBegins, WInv, BuffersAreOwned
      <4>2. ~WriteFails
        <5>1. SUFFICES ASSUME WriteFails PROVE FALSE
          OBVIOUS
        <5>2. consumer'.at = "release" /\ consumer'.ok = FALSE
          BY <2>9, <5>1, Zenon DEF WriteFails, ConsumerSet
        <5>3. QED
          BY Zenon, <5>2 DEF Sound
      <4>3. /\ consumer' = [consumer EXCEPT !.at = "finish"]
            /\ UNCHANGED <<life, compressed_bytes, content, used, state>>
        BY <3>4, <4>2 DEF WriteBegins, ending, buffers
      <4>4. consumer'.buffer = i /\ consumer'.at = "finish"
        BY <2>9, <4>1, <4>3 DEF ConsumerSet
      <4>5. TerminalIn(i)' /\ state'[Other(i)] = "Free"
        BY <3>1, <4>3 DEF TerminalIn
      <4>6. TerminalOnItsWay'
        BY Zenon, <4>4, <4>5 DEF TerminalOnItsWay
      <4>7. QED
        BY <2>11, <4>3, <4>6
    <3>5. CASE WriteEnds
      <4>1. consumer.at = "finish" /\ consumer.buffer = i
        BY Zenon, <3>1, <3>5 DEF WriteEnds, WInv, BuffersAreOwned
      <4>2. ~WriteFails
        <5>1. SUFFICES ASSUME WriteFails PROVE FALSE
          OBVIOUS
        <5>2. consumer'.at = "release" /\ consumer'.ok = FALSE
          BY <2>9, <5>1, Zenon DEF WriteFails, ConsumerSet
        <5>3. QED
          BY <5>2 DEF Sound
      <4>3. /\ consumer' = [consumer EXCEPT !.at = "release", !.ok = TRUE]
            /\ compressed_bytes' = compressed_bytes + FrameSize(content[i], used[i])
            /\ UNCHANGED <<life, state>>
        BY <3>5, <4>1, <4>2 DEF WriteEnds, ending, buffers
      <4>4. consumer'.at = "release"
        BY <2>9, <4>3, Zenon DEF ConsumerSet
      <4>5. FrameSize(content[i], used[i]) = LastFrame
        <5>1. content[i] # <<>>
          BY <3>1 DEF TerminalIn
        <5>2. QED
          BY Zenon, <2>5, <3>1, <5>1 DEF FrameSize, LastFrame, Measured, TerminalIn
      <4>6. target = compressed_bytes' + padding
        <5>1. LastFrame \in Int
          <6>1. TerminalBytes \in Int
            BY BytesOfKinds
          <6>2. QED
            BY Zenon, <6>1 DEF WInv, WriterTypeOK, LastFrame
        <5>2. Reserved = LastFrame + padding
          BY <2>5 DEF Measured
        <5>3. QED
          BY <2>9, <2>11, <4>3, <4>5, <5>1, <5>2
      <4>7. Ready' = {}
        <5>1. state[i] = "Writing"
          BY Zenon, <1>1, <4>1 DEF WInv, BuffersAreOwned
        <5>2. QED
          BY <3>1, <3>2, <4>3, <5>1 DEF Ready
      <4>8. QED
        BY <2>11, <4>3, <4>4, <4>6, <4>7
    <3>6. ~Release
      BY <3>1 DEF Release, WInv, BuffersAreOwned
    <3>7. ~Retirement
      <4>1. consumer.at # "exited"
        <5>1. SUFFICES ASSUME consumer.at = "exited" PROVE FALSE
          OBVIOUS
        <5>2. state[i] = "Ready" /\ Ready = {}
          BY Zenon, <1>1, <3>1, <5>1 DEF WInv, PhasesAgree
        <5>3. QED
          BY Zenon, <5>2 DEF Ready
      <4>2. QED
        BY Zenon, <1>1, <2>11, <4>1 DEF Retirement, FinishJoin, FinishRelease, DestroyWriter
    <3>8. QED
      BY Zenon, <2>2, <2>10, <3>3, <3>4, <3>5, <3>6, <3>7 DEF Internal, Consumer
  <2>12. CASE /\ life \in {"joining", "joined"} /\ Ready = {}
              /\ consumer.at \in {"release", "scan", "exited"}
              /\ target = compressed_bytes + padding
    <3>1. ~(WriteBegins \/ WriteEnds)
      BY <2>12 DEF WriteBegins, WriteEnds
    <3>2. CASE Scan
      <4>1. /\ UNCHANGED <<life, state, compressed_bytes>>
            /\ \/ consumer' = [consumer EXCEPT !.at = "exited"]
               \/ UNCHANGED consumer
        BY <2>12, <3>2 DEF Scan, Oldest, ending, output
      <4>2. consumer'.at \in {"release", "scan", "exited"}
        BY <2>9, <2>12, <4>1 DEF ConsumerSet
      <4>3. QED
        BY <2>12, <4>1, <4>2 DEF Ready
    <3>3. CASE Release
      <4>1. /\ UNCHANGED <<life, compressed_bytes>>
            /\ state' = [state EXCEPT ![consumer.buffer] = "Free"]
            /\ consumer' = [consumer EXCEPT !.at = "scan", !.buffer = 0]
        BY <1>1, <3>3 DEF Release, SetFailure, ending, output
      <4>2. consumer'.at = "scan"
        BY <2>9, <4>1, Zenon DEF ConsumerSet
      <4>3. Ready' = {}
        BY <2>9, <2>12, <4>1 DEF Ready
      <4>4. QED
        BY <2>12, <4>1, <4>2, <4>3
    <3>4. CASE FinishJoin
      <4>1. life' = "joined" /\ UNCHANGED <<state, consumer, compressed_bytes>>
        BY Zenon, <1>1, <3>4 DEF FinishJoin, buffers, output
      <4>2. QED
        BY Zenon, <2>12, <4>1 DEF Ready
    <3>5. CASE FinishRelease
      <4>1. /\ life' = "finished"
            /\ \/ padding # 0 /\ compressed_bytes' = compressed_bytes + padding
               \/ padding = 0 /\ UNCHANGED compressed_bytes
        BY Zenon, <1>1, <3>5 DEF FinishRelease, Pad, NoPad, output
      <4>2. QED
        BY <2>9, <2>12, <4>1
    <3>6. ~DestroyWriter
      BY Zenon, <2>12 DEF DestroyWriter
    <3>7. QED
      BY Zenon, <2>2, <2>10, <3>1, <3>2, <3>3, <3>4, <3>5, <3>6
         DEF Internal, Consumer, Retirement
  <2>13. CASE life = "finished" /\ target = compressed_bytes
    <3>1. consumer.at \in {"exited", "none"}
      BY Zenon, <2>13 DEF WInv, PhasesAgree
    <3>2. ~(Consumer \/ Retirement)
      BY Zenon, <2>13, <3>1 DEF Consumer, Scan, WriteBegins, WriteEnds, Release,
                         Retirement, FinishJoin, FinishRelease, DestroyWriter
    <3>3. QED
      BY Zenon, <2>2, <2>10, <3>2 DEF Internal
  <2>14. QED
    BY Zenon, <1>2, <1>4, <2>11, <2>12, <2>13 DEF FInv, TotalsComeTrue, Quiet
<1>5. QED
  BY Zenon, <1>2, <1>3, <1>4 DEF FInv, TotalsComeTrue

LEMMA TotalsKept ==
    ASSUME WInv, FInv, FacadeNext
    PROVE  TotalsComeTrue' /\ TerminalIsLast'
<1>1. CASE termination' = "None"
  BY Zenon, <1>1 DEF TotalsComeTrue, TerminalIsLast
<1>2. CASE AppendCommit /\ ~error /\ call.name = "seal"
  BY <1>2, TerminalCommitted
<1>3. CASE /\ termination # "None" /\ UNCHANGED <<termination, stream, footer>>
           /\ call'.name \in {"idle", "close"}
           /\ FinishBegin \/ CloseFrame \/ Internal \/ SpuriousWakeup
  <2>1. TerminalIsLast'
    BY Zenon, <1>3 DEF FInv, TerminalIsLast
  <2>2. CASE CloseFrame
    <3>1. UNCHANGED <<buffers, producing, sizing, ending, error, consumer, output, metrics>>
      BY Zenon, <2>2 DEF CloseFrame
    <3>2. Sound' = Sound /\ Quiet' = Quiet /\ Measured(termination)' = Measured(termination)
      BY Zenon, <1>3, <3>1 DEF Sound, Quiet, Measured, Reserved, LastFrame, buffers,
                        producing, sizing, ending, output
    <3>3. /\ TerminalIn(active_buffer)' = TerminalIn(active_buffer)
          /\ TerminalOnItsWay' = TerminalOnItsWay /\ Ready' = Ready
          /\ Reserved' = Reserved
      BY Zenon, <1>3, <3>1 DEF TerminalIn, TerminalOnItsWay, Ready, Reserved, buffers,
                        producing, sizing
    <3>4. /\ Announced(metrics.encoded, metrics.swaps)'
                = Announced(metrics.encoded, metrics.swaps)
          /\ Announced(metrics.encoded, metrics.swaps + 1)'
                = Announced(metrics.encoded, metrics.swaps + 1)
      BY Zenon, <1>3, <3>1 DEF Announced, sizing
    <3>5. TotalsComeTrue'
      BY Zenon, <1>3, <3>1, <3>2, <3>3, <3>4 DEF FInv, TotalsComeTrue, sizing, ending,
                                          output, producing
    <3>6. QED
      BY <2>1, <3>5
  <2>3. CASE ~Sound'
    BY Zenon, <2>1, <2>3 DEF TotalsComeTrue
  <2>4. CASE FinishBegin /\ Sound'
    BY Zenon, <1>3, <2>1, <2>4, TerminalPublished
  <2>5. CASE (Internal \/ SpuriousWakeup) /\ Sound'
    BY Zenon, <1>3, <2>1, <2>5, TerminalWritten
  <2>6. QED
    BY <1>3, <2>2, <2>3, <2>4, <2>5
<1>4. QED
  BY Zenon, <1>1, <1>2, <1>3, EndingSteps
-----------------------------------------------------------------------------
(* The result of close and the sidecar.                                    *)

LEMMA CloseKept ==
    ASSUME WInv, FInv, FacadeNext
    PROVE  CloseFollows'
<1>1. WriterStep
  BY FacadeStepsWriter DEF FInv
<1>2. termination # "None" => termination' # "None"
  <2>1. CASE ~AppendCommit
    BY <2>1, OnlyAppendsCommit
  <2>2. CASE AppendCommit
    <3>1. call.name \notin {"idle", "close"}
      BY Zenon, <2>2 DEF AppendCommit, Appending
    <3>2. QED
      BY <3>1 DEF FInv, TerminalIsLast
  <2>3. QED
    BY <2>1, <2>2
<1>3. finish_result => finish_result'
  BY <1>1, ResultStays
<1>4. CASE UNCHANGED <<close_result, sidecar>>
  BY Zenon, <1>2, <1>3, <1>4 DEF FInv, CloseFollows
<1>5. CASE CloseFinished \/ CloseSidecar
  <2>1. UNCHANGED <<termination, finish_result>>
    BY Zenon, <1>5 DEF CloseFinished, CloseSidecar, CloseResult, SidecarFails,
                       CloseFrame, ending
  <2>2. sidecar' # "none" => WantsSidecar
    BY Zenon, <1>5 DEF CloseFinished, CloseSidecar, CloseResult, SidecarFails, FInv,
                CloseFollows, WantsSidecar
  <2>3. close_result' => WantsSidecar \/ close_result
    BY Zenon, <1>5 DEF CloseFinished, CloseSidecar, CloseResult, SidecarFails, WantsSidecar
  <2>4. QED
    BY <2>1, <2>2, <2>3 DEF FInv, CloseFollows, WantsSidecar
<1>6. QED
  BY Zenon, <1>4, <1>5 DEF FacadeNext, Proceed, Calls, OpenPrepared, Begin, Close,
     Instruction, Event, Terminate, Enter, Fail, AppendReserve, AppendRefused,
     EncodeFails, AppendCommit, FacadeDrain, FacadeTarget, FacadePadding,
     TerminateFails, facade
-----------------------------------------------------------------------------
(* The theorems.                                                           *)

LEMMA FacadeBegins ==
    ASSUME FacadeInit
    PROVE  FInv
<1>1. FacadeTypeOK /\ CallIsOf(call.todo)
  BY Zenon, IdlingIsEmpty DEF FacadeInit, FacadeTypeOK, CallIsOf, Ending
<1>2. DefinitionsPrecede
  <2>1. stream = <<>> /\ Len(<<>>) = 0 /\ dictionary = {}
    BY Zenon DEF FacadeInit, WriterInit
  <2>2. QED
    BY <2>1 DEF DefinitionsPrecede
<1>3. call.name = "idle"
  BY IdlingIsEmpty DEF FacadeInit
<1>4. TotalsAreAnnounced /\ TerminalIsMeasured
  BY Zenon, <1>3 DEF TotalsAreAnnounced, TerminalIsMeasured
<1>5. TotalsComeTrue /\ TerminalIsLast /\ CloseFollows
  BY Zenon DEF FacadeInit, TotalsComeTrue, TerminalIsLast, CloseFollows
<1>6. QED
  BY <1>1, <1>2, <1>4, <1>5 DEF FInv

(* The inductive invariant: the file, the published buffers and the        *)
(* producer's buffer make up what was committed, and the totals in the     *)
(* terminal record are those the file will have.                           *)
THEOREM WriterInvariant == FacadeSpec => [](WInv /\ FInv)
<1>1. FacadeInit => WInv /\ FInv
  BY Zenon, WriterBegins, FacadeBegins DEF FacadeInit
<1>2. WInv /\ FInv /\ [FacadeNext]_fvars => (WInv /\ FInv)'
  <2>1. ASSUME WInv, FInv, FacadeNext
        PROVE  WInv' /\ FInv'
    <3>1. WInv'
      BY <2>1, FacadeStepsWriter, WriterStepKeeps DEF FInv
    <3>2. FacadeTypeOK' /\ CallIsOf(call.todo)'
      BY Zenon, <2>1, ShapeKept DEF FInv
    <3>3. DefinitionsPrecede'
      BY Zenon, <2>1, DefinitionsKept DEF FInv
    <3>4. TotalsAreAnnounced' /\ TerminalIsMeasured'
      BY <2>1, AnnouncementKept
    <3>5. TotalsComeTrue' /\ TerminalIsLast' /\ CloseFollows'
      BY <2>1, TotalsKept, CloseKept
    <3>6. QED
      BY Zenon, <3>1, <3>2, <3>3, <3>4, <3>5 DEF FInv
  <2>2. ASSUME WInv, FInv, UNCHANGED fvars
        PROVE  WInv' /\ FInv'
    <3>1. CloseFrame /\ UNCHANGED facade
      BY <2>2 DEF fvars, wvars, CloseFrame
    <3>2. WInv'
      BY <2>2, <3>1, StutterKeeps
    <3>3. UNCHANGED <<buffers, producing, sizing, ending, error, consumer, output,
                      metrics, stream, facade>>
      BY Zenon, <3>1 DEF CloseFrame
    <3>4. /\ FacadeTypeOK' /\ CallIsOf(call.todo)' /\ DefinitionsPrecede'
          /\ TerminalIsLast' /\ CloseFollows'
      BY Zenon, <2>2, <3>3 DEF FInv, FacadeTypeOK, CallIsOf, DefinitionsPrecede,
                        TerminalIsLast, CloseFollows, facade, ending
    <3>5. /\ Sound' = Sound /\ Quiet' = Quiet /\ Reserved' = Reserved
          /\ LastFrame' = LastFrame /\ Ready' = Ready
          /\ TerminalOnItsWay' = TerminalOnItsWay
          /\ TerminalIn(active_buffer)' = TerminalIn(active_buffer)
      BY Zenon, <3>3 DEF Sound, Quiet, Reserved, LastFrame, Ready, TerminalOnItsWay,
                  TerminalIn, buffers, producing, sizing, ending, output, facade
    <3>6. TotalsAreAnnounced' /\ TerminalIsMeasured'
      BY Zenon, <2>2, <3>3, <3>5 DEF FInv, TotalsAreAnnounced, TerminalIsMeasured, Measured,
         Announced, buffers, producing, sizing, facade
    <3>7. TotalsComeTrue'
      BY Zenon, <2>2, <3>3, <3>5 DEF FInv, TotalsComeTrue, Measured, Announced, producing,
         sizing, ending, output, facade
    <3>8. QED
      BY Zenon, <3>2, <3>4, <3>6, <3>7 DEF FInv
  <2>3. QED
    BY Zenon, <2>1, <2>2
<1>3. QED
  BY <1>1, <1>2, PTL DEF FacadeSpec

(* At every instant the file is a prefix of what was committed in whole    *)
(* frames but for the last, no buffer is filled while it is written, and   *)
(* an instruction in the file comes after its definition.                  *)
THEOREM FileStaysReadable == FacadeSpec => []FileIsReadable
<1>1. ASSUME WInv, FInv
      PROVE  FileIsReadable
  <2>1. stream \in Seq(RecordSet) /\ written \in Seq(RecordSet) /\ LiesAt(stream, written, 0)
    BY Zenon, <1>1 DEF WInv, WriterTypeOK, FileFollows
  <2>2. /\ Len(written) <= Len(stream) /\ written = SubSeq(stream, 1, Len(written))
        /\ \A k \in 1..Len(written) : stream[k] = written[k]
        /\ Len(written) \in Nat /\ Len(stream) \in Nat
    BY <2>1, LiesFirst
  <2>3. FileIsPrefix
    BY Zenon, <1>1, <2>2 DEF FileIsPrefix, WInv, FramesFollow
  <2>4. BuffersAreExclusive
    BY Zenon, <1>1 DEF BuffersAreExclusive, WInv, BuffersAreOwned
  <2>5. InstructionsAreDefined
    <3>1. SUFFICES ASSUME NEW k \in 1..Len(written), written[k].kind = "instruction"
                   PROVE  \E j \in 1..(k - 1) : /\ written[j].kind = "definition"
                                                /\ written[j].op = written[k].op
      BY Zenon DEF InstructionsAreDefined
    <3>2. k \in 1..Len(stream) /\ stream[k] = written[k]
      BY <2>2
    <3>3. PICK j \in 1..(k - 1) : stream[j].kind = "definition" /\ stream[j].op = stream[k].op
      BY Zenon, <1>1, <3>1, <3>2 DEF FInv, DefinitionsPrecede, Defined
    <3>4. j \in 1..Len(written)
      BY <2>2
    <3>5. QED
      BY Zenon, <2>2, <3>2, <3>3, <3>4
  <2>6. QED
    BY <2>3, <2>4, <2>5 DEF FileIsReadable
<1>2. QED
  BY <1>1, WriterInvariant, PTL

(* finish and close return true only for a whole file that ends with its   *)
(* terminal record, whose totals are the real ones, and the sidecar        *)
(* appears only beside such a file.                                        *)
THEOREM CloseStaysTruthful == FacadeSpec => []CloseIsTruthful
<1>1. ASSUME WInv, FInv, finish_result
      PROVE  /\ life = "finished" /\ ~error /\ Sound /\ written = stream
             /\ \A k \in 1..Len(frames) : frames[k] = "complete"
  <2>1. /\ life = "finished" /\ ~error /\ consumer.at = "exited" /\ Sound
    BY <1>1 DEF WInv, ResultFollows, Sound
  <2>2. /\ stream \in Seq(RecordSet) /\ written \in Seq(RecordSet)
        /\ LiesAt(stream, written, 0) /\ Chain(stream, Base, state, content, order)
        /\ frames \in Seq({"torn", "complete"})
    BY Zenon, <1>1, <2>1 DEF WInv, WriterTypeOK, FileFollows
  <2>3. Base = Len(written) /\ Len(written) \in Nat /\ Len(stream) \in Nat
    BY <2>1, <2>2 DEF Base
  <2>4. \A i \in Buffer : ~Holds(i, state)
    <3>1. active_buffer = 0 /\ Ready = {}
      BY Zenon, <1>1, <2>1 DEF WInv, PhasesAgree
    <3>2. QED
      BY Zenon, <1>1, <2>1, <3>1 DEF WInv, BuffersAreOwned, Holds, Ready, Buffer
  <2>5. Len(written) = Len(stream)
    BY <2>2, <2>3, <2>4 DEF Chain, Held, Buffer
  <2>6. written = stream
    BY Zenon, <2>2, <2>5, LiesFirst
  <2>7. \A k \in 1..Len(frames) : frames[k] = "complete"
    BY <1>1, <2>1, <2>2 DEF WInv, FramesFollow
  <2>8. QED
    BY Zenon, <2>1, <2>6, <2>7
<1>2. ASSUME WInv, FInv, finish_result, termination # "None"
      PROVE  /\ written # <<>> /\ Last(written) = TerminalRecord(termination)
             /\ written = stream
             /\ footer = [encoded |-> metrics.encoded, swaps |-> metrics.swaps,
                          waits |-> metrics.waits, compressed |-> compressed_bytes]
  <2>1. /\ life = "finished" /\ Sound /\ written = stream
    BY <1>1, <1>2
  <2>2. stream # <<>> /\ Last(stream) = TerminalRecord(termination)
    BY <1>2 DEF FInv, TerminalIsLast
  <2>3. Announced(metrics.encoded, metrics.swaps) /\ target = compressed_bytes
    BY Zenon, <1>2, <2>1 DEF FInv, TotalsComeTrue, Quiet
  <2>4. QED
    BY Zenon, <2>1, <2>2, <2>3 DEF Announced
<1>3. TerminalRecord(termination).kind = "terminal"
      /\ TerminalRecord(termination).op = termination
  BY Zenon DEF TerminalRecord, Encoded, Item
<1>4. ASSUME WInv, FInv
      PROVE  CloseIsTruthful
  <2>1. FinishIsTruthful
    BY <1>1, <1>4 DEF FinishIsTruthful
  <2>2. FooterIsTrue
    BY Zenon, <1>2, <1>3, <1>4 DEF FooterIsTrue, FInv, CloseFollows
  <2>3. SidecarMeansSealed
    BY Zenon, <1>2, <1>3, <1>4 DEF SidecarMeansSealed, FInv, CloseFollows
  <2>4. QED
    BY <2>1, <2>2, <2>3 DEF CloseIsTruthful
<1>5. QED
  BY <1>4, WriterInvariant, PTL
=============================================================================
