SPECIFICATION Spec
CONSTANTS
    Workers = {w1, w2}
    Master = m
    Jobs = {a, b, c}
    a = a
    b = b
    c = c
    NoJob = null
    Scripts <- ShortCycle
    QueueSize = 3
    MaxSpurious = 0
PROPERTIES
    WaitAllWaitsForAll
CHECK_DEADLOCK FALSE
