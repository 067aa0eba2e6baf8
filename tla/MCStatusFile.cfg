\* A captured call and two failures, each a publication or the start of the
\* worker; metadata without them; three snapshots after a legacy one, with
\* failing system calls and crashes.  The object stops when destroyed.
SPECIFICATION MCSpec
CHECK_DEADLOCK FALSE
CONSTANTS
    s1 = s1
    t1 = t1
    Scenes = {s1}
    Tids = {t1}
    ActiveCapacity = 1
    MaxSerial = 1
    Timed = TRUE
    Kinds = {}
    Texts = {}
    MetadataCapacity = 1
    MaxFailures = 2
    NoStatus = NoStatus
    MaxPublish = 3
    MaxFaults = 3
    MaxCrashes = 2
    Absent = Absent
    Partial = Partial
    Marker = Marker
INVARIANTS
    StatusIsCurrent
    StopIsConsistent
    AcknowledgedSurvives
    FailureNeedsFault
PROPERTIES
    PublishedStatusMonotone
    TerminalReachesTheFile
