CONSTANTS
    Home = h
    Servers = {h, o}
    Clients = {c}
    MaxSerial = 1
    MaxCrashes = 1
    MaxMoves = 2
    NoServer = NoServer
    Unknown = Unknown
SPECIFICATION FairSpec
INVARIANTS OneHistory ReadYourWrites
PROPERTIES InSyncSound CatchesUp ImplementsCopy
