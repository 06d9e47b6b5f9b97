CONSTANTS
    DriverIds = {1, 2, 3}
    ProbeIds = {1, 2, 3}
    Keys = {"k1", "k2", "k3"}
    Null = Null
    Absent = Absent
    NoMatch <- MCNoMatch
    First = 2
    BatchSize = 2
    MaxDriver = 3
    MaxProbe = 2
    MaxJoined = 3
    DriverGuard = 3
    ProbeGuard = 2
    MaxWrites = 1
SPECIFICATION FairSpec
CHECK_DEADLOCK FALSE
INVARIANTS
    JoinIsExact
    RefusalIsJustified
    JoinBearsWrites
PROPERTY JoinEnds
