SPECIFICATION Spec
CONSTANTS
    Threads = {t1, t2, t3}
    Resetters = {t3}
    Initial <- OnePost
    Calls = {"decrease", "increase", "get", "set", "reset"}
    Cap = 4
    MaxSpurious = 2
INVARIANTS
    SignalsArePaid
CHECK_DEADLOCK FALSE
