\* Two analyzers that open a cache three times in all; two commands on the
\* annotations.  Nobody has to open anything again.
SPECIFICATION MCSpec
CHECK_DEADLOCK FALSE
CONSTANTS
    Procs = {p1, p2}
    MaxOpens = 3
    MaxFaults = 1
    Faults = {"cancel", "fsync", "setup", "crash", "power", "rot", "clear"}
    s1 = s1
    s2 = s2
    x = x
    y = y
    Stores = {s1, s2}
    Process <- OneOrTwo
    MAX_QUARANTINES = 8
    MaxOps = 2
    AnnotationFaults = 2
INVARIANTS
    CachesAreWhole
    AnnotationsAreKept
PROPERTIES
    ValidIsKept
    CacheOpensEnd
