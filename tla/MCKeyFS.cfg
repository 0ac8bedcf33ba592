CONSTANTS
    Keys = {k1, k2}
    Vals = {v1}
    Threads = {t1, t2}
    CacheSize = 1
    MaxSerial = 1
    Absent = Absent
    Deleted = Deleted
    Unset = Unset
    NoRow = NoRow
    NoThread = NoThread
    NoRead = NoRead
    NoView = NoView
SYMMETRY Symmetry
SPECIFICATION Spec
INVARIANTS IInv SnapshotReads CacheCoherent WriterIsCurrent
PROPERTY ImplementsStore
