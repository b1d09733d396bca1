CONSTANTS
    MaxMsgs = 4
    GCMin = 1
    SizeMax = 7
    UniqueIds = TRUE
    CrashAt <- SafeCrashPoints
    IOFails <- NoIOFails
SPECIFICATION Spec
CHECK_DEADLOCK FALSE
INVARIANTS TypeOK NothingLost NoResurrection DeliveryInOrder GcAssertion GarbageBounded
PROPERTY KeepsPromise
