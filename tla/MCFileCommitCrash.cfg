CONSTANTS
    p1 = p1
    p2 = p2
    p3 = p3
    t1 = t1
    t2 = t2
    Paths = {p1, p2, p3}
    Threads = {t1, t2}
    MayWrite <- OwnPaths
    MaxCrashes = 1
    NoThread = NoThread
    Clean = Clean
    Written = Written
    Deleted = Deleted
    NoEntry = NoEntry
SPECIFICATION Spec
PROPERTY RecoveryIsComplete
