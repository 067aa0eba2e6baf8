--------------------------- MODULE MemoryAnalyzer ---------------------------
(***************************************************************************)
(* The memory pane (qtrace-analysis/src/memory.rs): the bytes of a range   *)
(* before and after an event, from the accesses that the trace has         *)
(* captured and the losses it reports.                                     *)
(*                                                                         *)
(* `memory` is the real memory.  A step of a thread changes it and is      *)
(* executed for the trace; `cause` keeps for every byte what changed it    *)
(* last.  In an ordered trace (capabilities().global_ordering) its row     *)
(* follows the others; in any other it follows those of its own thread.    *)
(***************************************************************************)
EXTENDS Integers, FiniteSets, SequencesExt

CONSTANTS
    Threads,
    None,                     \* no thread, or no value
    MemorySize,               \* bytes of memory, at the addresses 0..MemorySize - 1
    MAX_MEMORY_HISTORY_ROWS,
    MaxRows                   \* bound: rows of a trace

MemoryAssumption ==
    /\ None \notin Threads \union Nat
    /\ {MemorySize, MAX_MEMORY_HISTORY_ROWS, MaxRows} \subseteq Nat

VARIABLES
    ordered,     \* the trace orders the threads
    memory,
    cause,
    executed,    \* what the threads did, in that order
    rows         \* the trace: steps, as indexes of `executed`

vars == <<ordered, memory, cause, executed, rows>>

Address == 0..MemorySize - 1
-----------------------------------------------------------------------------
unknown == [value |-> None, provenance |-> "unknown", evidence |-> 0]

(* overlay: the first `count` bytes of the step.                           *)
Overlay(state, step, bytes, count, provenance, row) ==
    [a \in DOMAIN state |->
        IF a \in step.address..step.address + count - 1
        THEN [value |-> bytes[a], provenance |-> provenance, evidence |-> row]
        ELSE state[a]]

Extent(step) == step.address..step.address + step.size - 1

(* mark_damaged.                                                           *)
MarkDamaged(state, step, row) ==
    [a \in DOMAIN state |->
        IF a \in Extent(step)
        THEN [value |-> None, provenance |-> "damaged", evidence |-> row]
        ELSE state[a]]

(* capture_bytes and what is done for each of its outcomes: a capture may  *)
(* be shorter than the access.                                             *)
ApplyCapture(state, step, bytes, provenance, row) ==
    CASE step.capture = "captured" ->
             Overlay(state, step, bytes, step.captured, provenance, row)
      [] step.capture = "unavailable" -> MarkDamaged(state, step, row)
      [] step.capture = "not_captured" -> state

(* apply_temporal_discontinuity.                                           *)
ApplyTemporalDiscontinuity(state, step, tid) ==
    LET affected == IF step.domain = "memory" THEN step.bounds ELSE Address
        loses(cell) == \/ step.tid = None \/ cell.evidence = 0
                       \/ executed[rows[cell.evidence]].tid = step.tid
    IN  IF step.tid \notin {None, tid} THEN state
        ELSE [a \in DOMAIN state |->
                 IF a \in affected /\ loses(state[a])
                 THEN [unknown EXCEPT !.provenance = "damaged"] ELSE state[a]]

Step(row) == executed[rows[row]]

(* The posting of the range, and the discontinuities up to the target.     *)
MemoryRows(range) ==
    {row \in 1..Len(rows) : Step(row).kind = "access" /\ Extent(Step(row)) \intersect range # {}}
Discontinuities(target) == {row \in 1..target : Step(row).kind = "discontinuity"}

(* The rows of other threads whose place among those of `tid` is unknown.  *)
Unordered(range, tid) ==
    IF ordered THEN {}
    ELSE {row \in MemoryRows(range) : Step(row).tid # tid /\ Step(row).direction = "write"}

(* record_unordered_overlap and apply_unordered_conflicts: of the writes   *)
(* of a byte the last is named.  Mutation: only those before the target.   *)
WithConflictsBefore(state, unordered, target) ==
    [a \in DOMAIN state |->
        LET writes == {row \in unordered : row < target /\ a \in Extent(Step(row))}
        IN  IF writes = {} THEN state[a]
            ELSE [value |-> None, provenance |-> "damaged", evidence |-> Max(writes)]]

WithConflicts(state, unordered, target) ==
    [a \in DOMAIN state |->
        LET writes == {row \in unordered : a \in Extent(Step(row))}
        IN  IF writes = {} THEN state[a]
            ELSE [value |-> None, provenance |-> "damaged", evidence |-> Max(writes)]]

(* The loop of state_at up to the target: writes and losses in row order.  *)
AppliedRow(state, row, target) ==
    CASE Step(row).kind = "discontinuity" ->
             ApplyTemporalDiscontinuity(state, Step(row), Step(target).tid)
      [] /\ Step(row).kind = "access" /\ Step(row).direction = "write"
         /\ row < target /\ (ordered \/ Step(row).tid = Step(target).tid) ->
             ApplyCapture(state, Step(row), Step(row).now, "derived", row)
      [] OTHER -> state

LastWritten(target, range) ==
    FoldLeft(LAMBDA state, row : AppliedRow(state, row, target),
             [a \in range |-> unknown], [i \in 1..target |-> i])

(* What the access of the target itself shows: of the bytes before it, and *)
(* after it.                                                               *)
Captured(state, target, bytes, shows) ==
    IF shows THEN ApplyCapture(state, Step(target), bytes, "captured", target) ELSE state

Views(target, accesses, observed, before, last, unordered) ==
    [refused |-> FALSE,
     observed |-> IF accesses /\ Step(target).metadata
                  THEN Overlay(observed, Step(target), Step(target).now,
                               Step(target).size, "captured", target)
                  ELSE observed,
     before |-> WithConflicts(before, unordered, target),
     after |-> WithConflicts(
                   Captured(before, target, Step(target).now,
                            accesses /\ Step(target).direction = "write"),
                   unordered, target),
     last_written |-> WithConflicts(last, unordered, target)]

Shown(target, range, accesses, last) ==
    Views(target, accesses, [a \in range |-> unknown],
          Captured(last, target, Step(target).was, accesses), last,
          Unordered(range, Step(target).tid))

(* state_at, or the refusal of a range with too much history.              *)
StateAt(target, range) ==
    IF \/ Cardinality(MemoryRows(range)) > MAX_MEMORY_HISTORY_ROWS
       \/ Cardinality(Discontinuities(target)) > MAX_MEMORY_HISTORY_ROWS
    THEN [refused |-> TRUE]
    ELSE Shown(target, range, target \in MemoryRows(range), LastWritten(target, range))

(* history.                                                                *)
History(target, range) == {row \in MemoryRows(range) : row <= target}
-----------------------------------------------------------------------------
Init == /\ ordered \in BOOLEAN
        /\ memory = [a \in Address |-> 0]
        /\ cause = [a \in Address |-> [how |-> "recorded", tid |-> None]]
        /\ executed = <<>> /\ rows = <<>>

(* The places in the trace for a row of thread t.                          *)
Places(t) == {place \in 1..Len(rows) + 1 :
                 \A row \in place..Len(rows) : ~ordered /\ Step(row).tid # t}

Executes(step, now, causes) ==
    /\ Len(executed) < MaxRows
    /\ memory' = now /\ cause' = causes
    /\ executed' = Append(executed, step)
    /\ \E place \in Places(step.tid) : rows' = InsertAt(rows, place, Len(executed) + 1)
    /\ UNCHANGED ordered

Changed(addresses) ==
    [a \in Address |-> IF a \in addresses THEN Len(executed) + 1 ELSE memory[a]]
Caused(addresses, how, tid) ==
    [a \in Address |-> IF a \in addresses THEN [how |-> how, tid |-> tid] ELSE cause[a]]

Access(t, direction, address, size, capture, captured) ==
    [kind |-> "access", tid |-> t, direction |-> direction, address |-> address,
     size |-> size, capture |-> capture, captured |-> captured,
     metadata |-> capture # "unavailable", domain |-> "none", bounds |-> {}]

Lasting(step, was, causes, now, caused) ==
    step @@ [was |-> was, was_cause |-> causes, now |-> now, now_cause |-> caused]

Reads(t, address, size) ==
    LET step == Access(t, "read", address, size, "captured", size)
    IN  Executes(Lasting(step, memory, cause, memory, cause), memory, cause)

(* A write, of whose bytes the trace has the first `captured`.             *)
Writes(t, address, size, capture, captured) ==
    LET step == Access(t, "write", address, size, capture, captured)
        now == Changed(Extent(step))
        kept == IF capture = "unavailable" THEN size
                ELSE IF capture = "captured" THEN captured ELSE 0
        caused == [Caused(Extent(step), "uncaptured", t) EXCEPT
                      ![address] = IF kept > 0 THEN [how |-> "recorded", tid |-> t] ELSE @,
                      ![address + size - 1] =
                          IF kept >= size THEN [how |-> "recorded", tid |-> t] ELSE @]
    IN  Executes(Lasting(step, memory, cause, now, caused), now, caused)

(* Writes of a thread, or of any, are lost, and the loss is reported as    *)
(* one of rows or of these addresses.                                      *)
Loses(t, domain, addresses) ==
    LET now == Changed(addresses)
        caused == Caused(addresses, "lost", t)
        step == [Access(t, "none", 0, 0, "not_captured", 0) EXCEPT
                    !.kind = "discontinuity", !.domain = domain,
                    !.bounds = IF domain = "memory" THEN addresses ELSE {}]
    IN  Executes(Lasting(step, now, caused, now, caused), now, caused)

Next ==
    \/ \E t \in Threads, address \in Address, size \in {1, 2} :
           /\ address + size <= MemorySize
           /\ \/ Reads(t, address, size)
              \/ \E capture \in {"unavailable", "not_captured"} :
                     Writes(t, address, size, capture, 0)
              \/ \E captured \in 1..size : Writes(t, address, size, "captured", captured)
    \/ \E t \in Threads \union {n \in {None} : ordered},
          domain \in {"memory", "sequence"}, addresses \in SUBSET Address \ {{}} :
           Loses(t, domain, addresses)

Spec == Init /\ [][Next]_vars
-----------------------------------------------------------------------------
Ranges == {start..end - 1 : start \in Address, end \in 0..MemorySize}

(* The byte has changed in a way that the view of the target cannot show:  *)
(* by the part of a write that was not captured, or by lost writes of a    *)
(* thread, unless they are those of the target's own bytes.                *)
Unseen(cell, change, tid) ==
    \/ change.how = "uncaptured" /\ (ordered \/ change.tid = tid)
    \/ /\ change.how = "lost" /\ change.tid # None
       /\ change.tid # tid \/ Step(cell.evidence).tid # tid

Right(cell, byte, change, tid) ==
    cell.value \in {None, byte} \/ Unseen(cell, change, tid)

RightView(at, step, target, range) ==
    at.refused \/
        \A a \in range :
            /\ step.tid # None =>
                   /\ Right(at.before[a], step.was[a], step.was_cause[a], step.tid)
                   /\ Right(at.after[a], step.now[a], step.now_cause[a], step.tid)
                   /\ at.observed[a].value \in {None, step.now[a]}
            /\ at.after[a].value # None => at.after[a].evidence \in History(target, range)

(* A byte that is shown with a value is the byte of the real memory before *)
(* and after the event, however the threads were merged, unless its change *)
(* could not be seen; and its evidence is part of the history.             *)
ShownIsTrue ==
    \A target \in 1..Len(rows), range \in Ranges :
        RightView(StateAt(target, range), Step(target), target, range)
=============================================================================
