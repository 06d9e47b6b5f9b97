CONSTANTS
    Refreshers = {"r1", "r2"}
    Queries = {"q1"}
    Files = {"datasets", "sources"}
    Sources = {"s1", "s2"}
    None = None
    MaxEdits = 1
    MaxRefreshes = 1
    MaxBatches = 1
SPECIFICATION Spec
CHECK_DEADLOCK FALSE
INVARIANTS
    ServedCatalogIsValidated
    QueryUsesOneSnapshot
PROPERTIES
    ReportMatchesActive
