\* A timed generation, which stops when it is destroyed; under the Flight
\* coordinator the stop may be reported and the coordinator end.
SPECIFICATION MCSpec
SYMMETRY Symmetry
CHECK_DEADLOCK FALSE
CONSTANTS
    s1 = s1
    s2 = s2
    t1 = t1
    t2 = t2
    Scenes = {s1, s2}
    Tids = {t1, t2}
    ActiveCapacity = 2
    MaxSerial = 3
    Timed = TRUE
    FlightScenes = {s1}
    FlightSerial = 2
    MaxThreads = 2
    OwnerReports = TRUE
INVARIANTS
    ActiveIsOpen
    TerminalOutcome
    StoppingHasOwner
    FlightStopIsTruthful
PROPERTIES
    
    ImplementsLifecycle
