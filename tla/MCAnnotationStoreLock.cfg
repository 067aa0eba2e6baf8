\* Three commands that each open and use the annotations.
SPECIFICATION Spec
CONSTANTS
    s1 = s1
    s2 = s2
    s3 = s3
    x = x
    y = y
    Stores = {s1, s2, s3}
    Process <- TwoAndOne
    MAX_QUARANTINES = 8
    MaxOps = 3
    MaxFaults = 0
INVARIANTS
    OneUser
CHECK_DEADLOCK FALSE
