\* The file: begin, up to four more records and a terminal one in three-byte
\* buffers, with and without compression.  The stops: two threads and two
\* admissions of one scene, against the deadline; one Flight slot.  A
\* behaviour may end: no thread has to call its scene again.
SPECIFICATION MCSpec
CHECK_DEADLOCK FALSE
CONSTANTS
    BufferBytes = 3
    Compression = {TRUE, FALSE}
    Overhead = 1
    Header = 1
    Sizes = {1}
    MaxRecords = 7
    MaxFaults = 1
    Opcodes = {1, 2}
    DictionarySlots = 1
    MaxBytes <- MCMaxBytes
    s1 = s1
    t1 = t1
    t2 = t2
    Scenes = {s1}
    Tids = {t1, t2}
    ActiveCapacity = 2
    MaxSerial = 2
    Timed = TRUE
    MaxThreads = 1
    OwnerReports = FALSE
INVARIANTS
    FileIsReadable
    CloseIsTruthful
    NormalStopIsTruthful
PROPERTIES
    WriterCallsReturn
    NormalStopsEnd
    OwnersAcknowledge
