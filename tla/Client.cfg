CONSTANTS
    Closing = TRUE
    Manual = TRUE
    Losing = TRUE
    MaxCalls = 7
    MaxMsgs = 3
    MaxTags = 2
SPECIFICATION FairSpec
CHECK_DEADLOCK FALSE
INVARIANTS TypeOK AnswersAwaited  CallsInOrder PushFindsChannel
PROPERTIES LiveNotDropped CallsReturn
