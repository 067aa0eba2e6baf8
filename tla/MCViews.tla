------------------------------ MODULE MCViews -------------------------------
(* What the panes show of an event, for TLC: the call tree ("calls"), the  *)
(* registers ("registers") and the memory ("memory"), each against the     *)
(* threads that were traced.  `part` says which of them a behaviour is     *)
(* about; the variables of the others keep their initial values.           *)
EXTENDS CallTree

CONSTANTS Threads, None, Slots, CHECKPOINT_EVENTS, MaxReplayRows,
          MemorySize, MAX_MEMORY_HISTORY_ROWS, MaxMemoryRows

VARIABLES part, r_format, r_machine, r_rows, r_scopes,
          m_ordered, m_memory, m_cause, m_executed, m_rows

register_vars == <<r_format, r_machine, r_rows, r_scopes>>
memory_vars == <<m_ordered, m_memory, m_cause, m_executed, m_rows>>

Registers == INSTANCE RegisterReplay WITH
    MaxRows <- MaxReplayRows,
    format <- r_format, machine <- r_machine, rows <- r_rows, scopes <- r_scopes

Memory == INSTANCE MemoryAnalyzer WITH
    MaxRows <- MaxMemoryRows,
    ordered <- m_ordered, memory <- m_memory, cause <- m_cause,
    executed <- m_executed, rows <- m_rows

ASSUME CallTreeAssumption /\ Registers!ReplayAssumption /\ Memory!MemoryAssumption

(* Neither the threads nor the registers have names that matter.           *)
Symmetry == Permutations(Threads) \union Permutations(Slots)

MCInit == /\ part \in {"calls", "registers", "memory"}
          /\ Init /\ Registers!Init /\ Memory!Init
          /\ part # "calls" => pc = CHOOSE e \in Entries : TRUE
          /\ part # "registers" => r_format = "qtrb"
          /\ part # "memory" => m_ordered

MCNext ==
    \/ part = "calls" /\ Next /\ UNCHANGED <<part, register_vars, memory_vars>>
    \/ part = "registers" /\ Registers!Next /\ UNCHANGED <<part, vars, memory_vars>>
    \/ part = "memory" /\ Memory!Next /\ UNCHANGED <<part, vars, register_vars>>

MCSpec == MCInit /\ [][MCNext]_<<part, vars, register_vars, memory_vars>>
-----------------------------------------------------------------------------
(* The tree is what the thread did: no frame reaches over a gap, a signal  *)
(* or the end of the thread, and unless the rows could be read in two ways *)
(* every frame has its parent, target and end.                             *)
CallsAreTrue == NoBoundaryIsCrossed /\ FramesAreTrue

(* The checkpoints and skipped events of the replay change nothing, and    *)
(* every half of a register shown as known is that of the real register,   *)
(* before and after the event.                                             *)
KnownRegistersAreTrue == Registers!KnownIsTrue

(* A byte that is shown with a value is the byte of the real memory before *)
(* and after the event, however the threads were merged, unless the trace  *)
(* has not captured its last change; and its evidence is in the history.   *)
ShownBytesAreTrue == Memory!ShownIsTrue
=============================================================================
