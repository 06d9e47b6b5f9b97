CONSTANTS
    Budgets <- MCBudgets
    None = None
    ProbeLimit = 2
    AcquireTimeout = 3
    StatementTimeout = 9
    MaxReads = 3
    MaxWork = 2
    Planners = {"p1", "p2"}
    Tables = {"accounts"}
    Columns = {"plan", "region"}
    View <- MCView
    Ttl = 2
    Never = Never
    Unknown = Unknown
    Missing = Missing
    MaxTime = 3
    MaxAnalyses = 1
    ScanKeys = {k1, k2, k3}
    Counts = {0, 3, 4}
    Capacity = 2
    MaxHalvings = 3
    MaxUses = 6
    Fields = {"a", "b"}
    Types <- MCTypes
    Domain = {1, 3, 5}
    Contents <- MCContents
    Buckets = {0, 1, 2, 3}
    Filters <- MCFilters
    Default <- MCDefault
    Untold = Untold
SPECIFICATION PlanningSpec
CHECK_DEADLOCK FALSE
INVARIANTS
    OvershootIsBounded
    ServedStatisticsAreFresh
    KeepsTheMostRecent
    TracksChange
    EstimatesFitTheTable
