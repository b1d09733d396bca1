CONSTANTS
    e1 = e1
    e2 = e2
    q1 = q1
    q2 = q2
    k1 = k1
    k2 = k2
    Exchanges = {e1, e2}
    Queues = {q1, q2}
    Keys = {k1}
    NoKey = NoKey
    NoName = NoName
    Fails = {}
    Clearing = FALSE
SPECIFICATION Spec
INVARIANTS TypeOK Connected Mirrored Deliverable
PROPERTY KeepsPromise
