SPECIFICATION Spec
CONSTANTS
    Sizes <- FewPairs
    Rands = {0, 3, 10}
    Losses = {0, 1, 2}
    epochs = 7
    batch_size = 2
    Unset = unset
    Garbage = garbage
    NoUR = null
    NoModel = none
INVARIANTS
    DrawsUnique
    SetsHoldTheirShare
    KeepsWindowCopy
CHECK_DEADLOCK FALSE
