CONSTANTS
    w1 = w1
    w2 = w2
    Workers = {w1, w2}
    MaxTasks = 3
    MaxSpurious = 2
SPECIFICATION FairSpec
CHECK_DEADLOCK FALSE
INVARIANTS NoLostTask InOrder Accounted
PROPERTY TasksRun
