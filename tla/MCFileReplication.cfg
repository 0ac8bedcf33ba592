CONSTANTS
    s = s
    m = m
    StageFiles = {s}
    MirrorFiles = {m}
    Threads = {t1}
    Visitors = {v}
    QueueLimit = 0
    DeletedSize = 1
    Histories <- DeletionHistories
    MaxCrashes = 1
SPECIFICATION FairSpec
INVARIANTS NothingForgotten OrphansExplained
PROPERTIES FilesArrive
CHECK_DEADLOCK FALSE
