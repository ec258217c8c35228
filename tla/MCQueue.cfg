SPECIFICATION FairSpec
CONSTANTS
    Producers = {p1, p2, p3}
    Consumers = {c1, c2}
    Items = {x, y}
    Zero = zero
    buf_sz = 2
INVARIANTS
    NobodySleepsThrough
PROPERTIES
    IsBoundedFIFO
    SleepersServed
