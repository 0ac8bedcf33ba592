CONSTANTS
    Threads = {t1, t2}
    Visitor = t1
    MaxVersion = 1
    LastRemoval = 1
    MaxLocks = 2
    MaxTasks = 1
SPECIFICATION Spec
PROPERTY NoFalseNotFound
CHECK_DEADLOCK FALSE
