CONSTANTS
    Ids = {1, 2, 3}
    Vals = {"v", "bare"}
    Bare = {"bare"}
    Absent = Absent
    Anchor = "a"
    Required = {"r"}
    Optional = {}
    Store = {"st"}
    Ranked = FALSE
    Distance <- MCDistance
    K = 2
    Keyed = {"a", "r", "st"}
    Bound <- MCBound
    MaxBatches = 2
    MaxRows <- MCMaxRows
    MaxWrites = 2
    NoSource = NoSource
    NoRecord = NoRecord
SPECIFICATION Spec
INVARIANTS
    NoNearerRecordIsLost
CHECK_DEADLOCK FALSE
