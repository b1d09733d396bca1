CONSTANTS
    e1 = e1
    e2 = e2
    q1 = q1
    q2 = q2
    k1 = k1
    k2 = k2
    Exchanges = {e1}
    Queues = {q1, q2}
    Keys = {k1, k2}
    NoKey = NoKey
    NoName = NoName
    Fails = {"insert", "select", "unlink"}
    Clearing = TRUE
SPECIFICATION Spec
SYMMETRY Names
INVARIANTS QueuesKept BindingsKept
