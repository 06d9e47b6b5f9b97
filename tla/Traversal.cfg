CONSTANTS
    Catalogs <- MCCatalogs
    Databases <- MCDatabases
    Requests <- MCRequests
    Traversals <- MCTraversals
    AdapterKinds = {"postgres"}
    MaxDepth = 3
    MaxTerms = 4
    MaxSemantic = 1
    MaxPage = 2
    MaxIn = 2
    MaxDriver = 3
    MaxProbe = 4
    BatchSize = 3
SPECIFICATION TraversalSpec
INVARIANTS
    ActiveCatalogResolves
    ReadsAreSound
    JoinRefusalsAreKnown
    EqualKeysMeet
    DescriptionIsTrue
CHECK_DEADLOCK FALSE
