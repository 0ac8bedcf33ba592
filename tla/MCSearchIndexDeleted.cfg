CONSTANTS
    Projects = {a}
    MaxSerial = 2
    MaxCrashes = 0
SPECIFICATION Spec
INVARIANT DeletedNotFound
CHECK_DEADLOCK FALSE
