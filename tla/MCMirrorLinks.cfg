CONSTANTS
    Threads = {t1, t2}
    Visitor = t1
    MaxVersion = 2
    LastRemoval = 1
    MaxLocks = 2
    MaxTasks = 1
SPECIFICATION FairSpec
INVARIANT OneReleasePerLock
PROPERTY CatchesUp
CHECK_DEADLOCK FALSE
