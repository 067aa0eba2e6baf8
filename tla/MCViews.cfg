\* A thread of four rows in two functions; two threads with two registers and
\* four rows; two threads with two bytes of memory and three rows.
\* A behaviour ends with its last row.
SPECIFICATION MCSpec
CHECK_DEADLOCK FALSE
CONSTANTS
    Entries = {10, 20}
    Size = 3
    Untraced = TRUE
    InferTailCalls = TRUE
    MaxRows = 4
    Threads = {t1, t2}
    None = none
    Slots = {x0, x1}
    CHECKPOINT_EVENTS = 2
    MaxReplayRows = 4
    MemorySize = 2
    MAX_MEMORY_HISTORY_ROWS = 3
    MaxMemoryRows = 3
INVARIANTS
    
    KnownRegistersAreTrue
    ShownBytesAreTrue
SYMMETRY Symmetry
