CONSTANTS
    Files = {f1}
    Waiters = {w1}
    Ops = {"set", "delfile", "plain"}
    NumSubscribers = 1
    MaxSerial = 2
    MaxCrashes = 0
    MaxFailures = 0
    Nobody = Nobody
    NotifierThread = NotifierThread
SPECIFICATION Spec
INVARIANT WaitsForUndeletedFile
