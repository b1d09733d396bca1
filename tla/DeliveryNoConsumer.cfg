CONSTANTS
    A = A
    B = B
    C = C
    k1 = k1
    k2 = k2
    q1 = q1
    q2 = q2
    Channels = {A, B}
    Connections = {k1, k2}
    Queues = {q1}
    Tags = {A, B}
    NoQueue = NoQueue
    Durable = {}
    Persistent = {}
    Restarting = FALSE
    Closing = FALSE
    MaxMsgs = 2
    ConnOf <- TwoConnections
    TagOf <- OwnTags
SPECIFICATION FairSpec
CHECK_DEADLOCK FALSE
PROPERTY EveryMessagePushed
