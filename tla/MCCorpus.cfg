CONSTANTS
    Specs = {"s1", "s2", "s3"}
    Words <- MCWords
    IdfLimit = 1
    LowerOf <- MCLowerOf
    atof <- MCatof
    printf_lf <- MCprintf_lf
    stopwords <- MCstopwords
SPECIFICATION MCSpec
INVARIANTS
    ParsesWhatIsWritten NothingLeaks ListFunctionsRight
    CountsAreFiles PositionsFit UserSeesSameVector VectorsCountWords
PROPERTY Spec
CHECK_DEADLOCK FALSE
