CONSTANTS
    Ids = {1, 2}
    Vals = {1, 2}
    Null = Null
    Absent = Absent
    Inside <- MCInside
    Readings <- MCReadings
    Identity = "anchor"
    Owner <- MCOwner
    Filters <- MCFilters
    Depth <- MCDepth
    MaxDepth = 3
    Wheres <- MCWheres
    Orders <- MCOrders
    Selects = {{}}
    Kinds <- MCKinds
    First = 1
    MaxCoordinator = 2
    NoLimit <- MCNoLimit
SPECIFICATION PushdownSpec
CHECK_DEADLOCK FALSE
INVARIANTS
    AnswerIsReference
    WholeQueriesAreNeverRefused
