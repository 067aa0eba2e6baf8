\* The same coordinator: nothing but the end of a thread retires an idle owner.
SPECIFICATION FairCoordinatorSpec
CHECK_DEADLOCK FALSE
CONSTANTS
    s1 = s1
    t1 = t1
    t2 = t2
    Scenes = {s1}
    Tids = {t1, t2}
    ActiveCapacity = 2
    MaxSerial = 2
    Timed = TRUE
    MaxThreads = 1
    OwnerReports = FALSE
PROPERTY
    StopsEnd
