\* The host rule on a snapshot torn between phase_ and stop_token_.
SPECIFICATION StatusSpec
CHECK_DEADLOCK FALSE
CONSTANTS
    s1 = s1
    t1 = t1
    Scenes = {s1}
    Tids = {t1}
    ActiveCapacity = 1
    MaxSerial = 1
    Timed = TRUE
    Kinds = {}
    Texts = {}
    MetadataCapacity = 1
    MaxFailures = 0
    NoStatus = NoStatus
INVARIANT
    RunningStatusAccepted
