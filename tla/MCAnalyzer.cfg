\* Nine small alphabets of events; a trace of seven events with every filter on one or two
\* fields; two threads with one open, two queries and a close.
\* A behaviour ends when the trace is reopened or every command has been given.
SPECIFICATION MCSpec
CHECK_DEADLOCK FALSE
CONSTANTS
    Workloads <- AllWorkloads
    MinEvents = 1
    BlockRows = 2
    MaxArena = 3
    Slots = 2
    MaxRows = 3
    Points = {0, 1, 3, 4}
    Threads = {t1, t2}
    Nobody = none
    MaxActive = 2
    MaxRetained = 2
    KeepOfWorkspace = 1
    KeepTerminal = 1
    MaxProjections = 1
    MaxArtifacts = 2
    Trees = {a, b}
    MaxOpens = 1
    MaxRequests = 2
    MaxCloses = 1
    Workers = {w1}
    MaxPending = 1
    MaxWord = 7
    MaxTerms = 4
    MaxPairs = 2
    MaxScanBytes = 8
    Limits = {1, 2}
INVARIANTS
    ResolvesInScope
    QueriesAreExact
    ReopensAsBuilt
    JobListIsTruthful
    TimelineIsExact
PROPERTIES
    NothingIsTakenBack
    AnalysesEnd
