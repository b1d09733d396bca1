CONSTANTS
    MaxMsgs = 3
    GCMin = 1
    SizeMax = 7
    UniqueIds = TRUE
    CrashAt <- CrashPoints
    IOFails <- AllIOFails
SPECIFICATION Spec
CHECK_DEADLOCK FALSE
PROPERTY LeavesOnlyByAck
