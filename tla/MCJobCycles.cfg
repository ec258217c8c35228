SPECIFICATION Spec
CONSTANTS
    Workers = {w1, w2}
    Master = m
    Jobs = {a, b, c}
    a = a
    b = b
    c = c
    NoJob = null
    Scripts <- ManyCycles
    QueueSize = 2
    MaxSpurious = 1
INVARIANTS
    StartedInOrder
    CollectedInOrder
    AllReadyBetweenCycles
    NoStrandedWork
PROPERTIES
    IsJobPool
CHECK_DEADLOCK FALSE
