\* Flight: two threads on three chunks.  Qtrace: five records and a terminal.
\* A behaviour ends when the artifact has been read.
SPECIFICATION ReadersSpec
CHECK_DEADLOCK FALSE
CONSTANTS
    Threads = {t1, t2}
    Root = t1
    ChunkCount = 3
    Capacity = 4
    Protected = 2
    Values = {0, 1}
    t1 = t1
    t2 = t2
    Workloads <- MCWorkloads
    Opcodes = {add, ldr}
    MaxDictionary = 2
    MaxRecords = 5
INVARIANTS
    ReadsAPrefix
    EndIsTruthful
    RecoversTheCommitted
    RegistersAreTrue
    RecoveryIsTruthful
