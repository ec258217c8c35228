SPECIFICATION Spec
CONSTANTS
    Workers = {w1, w2}
    Master = m
    Jobs = {a, b, c}
    a = a
    b = b
    c = c
    NoJob = null
    Scripts <- SubmitWhileBusy
    QueueSize = 3
    MaxSpurious = 0
INVARIANTS
    SubmitterIsWoken
CHECK_DEADLOCK FALSE
