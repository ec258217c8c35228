SPECIFICATION FairSpec
CONSTANTS
    Workers = {w1, w2}
    Master = m
    Jobs = {a, b, c}
    a = a
    b = b
    c = c
    NoJob = null
    Scripts <- OneCycle
    QueueSize = 3
    MaxSpurious = 0
INVARIANTS
    TypeOK
    ReadyCount
    AwaitedHaveRun
PROPERTIES
    BarrierCounts
    EveryCallReturns
