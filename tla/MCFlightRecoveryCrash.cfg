\* Two threads that register, take their first chunk and die.
SPECIFICATION Spec
CONSTANTS
    Threads = {t1, t2}
    Root = t1
    ChunkCount = 3
    Capacity = 4
    Protected = 2
    Values = {0, 1}
    t1 = t1
    t2 = t2
    Workloads <- Beginning
INVARIANTS
    RecoverySucceeds
CHECK_DEADLOCK FALSE
