CONSTANTS
    Ids = {1, 2, 3}
    Queries <- MCProbes
    BatchSize = 2
    MaxCandidates = 3
    CallCost = 1
    CallTime = 1
    NoShortlist <- MCNoShortlist
    NoReport = NoReport
SPECIFICATION Spec
CHECK_DEADLOCK FALSE
INVARIANT ReasonsMatchRows
