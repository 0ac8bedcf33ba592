CONSTANTS
    Keys = {k1}
    Vals = {v1}
    Threads = {t1, t2}
    CacheSize = 1
    MaxSerial = 2
    Absent = Absent
    Deleted = Deleted
    Unset = Unset
    NoRow = NoRow
    NoThread = NoThread
    NoRead = NoRead
    NoView = NoView
SPECIFICATION Spec
INVARIANT IterationSeesSnapshot
