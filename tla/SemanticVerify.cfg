CONSTANTS
    Ids = {1, 2, 3, 4}
    Queries <- MCQueries
    BatchSize = 2
    MaxCandidates = 3
    CallCost = 1
    CallTime = 1
    NoShortlist <- MCNoShortlist
    NoReport = NoReport
SPECIFICATION Spec
CHECK_DEADLOCK FALSE
INVARIANTS
    PageIsExact
    NoNeedlessCalls
    BudgetIsKept
    ReportIsHonest
