CONSTANTS
    p1 = p1
    p2 = p2
    p3 = p3
    t1 = t1
    t2 = t2
    Paths = {p1, p2}
    Threads = {t1, t2}
    MayWrite <- SharedPaths
    MaxCrashes = 0
    NoThread = NoThread
    Clean = Clean
    Written = Written
    Deleted = Deleted
    NoEntry = NoEntry
SPECIFICATION Spec
INVARIANT LastWriterWins
