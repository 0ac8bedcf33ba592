CONSTANTS
    Projects = {a}
    MaxSerial = 3
    MaxCrashes = 1
SPECIFICATION FairSpec
INVARIANT DocumentsFollow
PROPERTY SearchCatchesUp
CHECK_DEADLOCK FALSE
