CONSTANTS
    s = s
    m = m
    StageFiles = {s}
    MirrorFiles = {m}
    Threads = {t1}
    Visitors = {v}
    QueueLimit = 0
    DeletedSize = 1
    Histories <- ReuploadHistories
    MaxCrashes = 0
SPECIFICATION Spec
INVARIANT ReuploadsKept
CHECK_DEADLOCK FALSE
