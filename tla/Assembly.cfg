CONSTANTS
    Ids = {1, 2, 3}
    Vals = {"v", "bare"}
    Bare = {"bare"}
    Absent = Absent
    Anchor = "a"
    Required = {"r"}
    Optional = {"o"}
    Store = {}
    Ranked = TRUE
    Distance <- MCDistance
    K = 1
    Keyed = {"a", "r", "o"}
    Bound <- MCBound
    MaxBatches = 2
    MaxRows <- MCMaxRows
    MaxWrites = 2
    NoSource = NoSource
    NoRecord = NoRecord
SPECIFICATION Spec
CONSTRAINT BareOnceWritten
INVARIANTS
    AnswerIsSound
    AnswerIsComplete
    ShortlistIsExact
    RowsAreGuarded
PROPERTIES
    OnlyFullReadsTeach
    ImplementsAnswer
CHECK_DEADLOCK FALSE
