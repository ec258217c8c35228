SPECIFICATION LearningSpec
CONSTANTS
    dataset <- Dataset
    LabelledSets <- FewRows
    Predictions = {10, 60}
    name_size = 6
    STEP_VALUE = 15
    MaxNewPairs = 2
    Nul = "nul"
    Junk = "junk"
INVARIANTS
    RowsFit SeesAllPairs NoPairTwice
CHECK_DEADLOCK FALSE
