CONSTANTS
    Closing = TRUE
    Manual = TRUE
    Losing = FALSE
    MaxCalls = 5
    MaxMsgs = 1
    MaxTags = 1
SPECIFICATION FairSpec
CHECK_DEADLOCK FALSE
PROPERTY DestructorReturns
