CONSTANTS
    Files = {f1}
    Waiters = {w1}
    Ops = {"set", "del", "delfile", "external"}
    NumSubscribers = 2
    MaxSerial = 2
    MaxCrashes = 1
    MaxFailures = 1
    Nobody = Nobody
    NotifierThread = NotifierThread
SPECIFICATION Spec
INVARIANT EventsInOrder
INVARIANT NoEventDropped
INVARIANT RepeatsExplained
INVARIANT SubscribersFindFile
PROPERTY EveryEventProcessed
PROPERTY WaitersReturn
