CONSTANTS
    MaxMsgs = 3
    GCMin = 1
    SizeMax = 7
    UniqueIds = TRUE
    CrashAt <- AtRemoved
    IOFails <- NoIOFails
SPECIFICATION Spec
CHECK_DEADLOCK FALSE
INVARIANT NothingLost
