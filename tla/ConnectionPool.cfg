CONSTANTS
    Threads = {t1, t2, t3}
    Closers = {c1, c2}
    Refs = {r, missing}
    Unknown = {missing}
    Pools = {p1, p2}
    None = None
    MaxSize = 1
    Memory = 2
    MaxTime = 3
SPECIFICATION Spec
INVARIANTS
    NoPoolOutlivesClose
    NoPoolIsLost
    LeasesAreBounded
PROPERTIES
    FailuresAreRemembered
CHECK_DEADLOCK FALSE
