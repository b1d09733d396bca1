CONSTANTS
    A = A
    B = B
    C = C
    k1 = k1
    k2 = k2
    q1 = q1
    q2 = q2
    Channels = {A, B}
    Connections = {k1, k2}
    Queues = {q1}
    Tags = {A, B}
    NoQueue = NoQueue
    Durable = {q1}
    Persistent = {1, 2}
    Restarting = TRUE
    Closing = TRUE
    MaxMsgs = 3
    ConnOf <- TwoConnections
    TagOf <- OwnTags
SPECIFICATION Spec
CHECK_DEADLOCK FALSE
INVARIANTS TypeOK NoStrandedReady PushedInOrder SubscriptionsExact RoundRobin
PROPERTIES ManualAckOnly QueuesKeepPromise
