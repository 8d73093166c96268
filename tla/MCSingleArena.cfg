CONSTANTS
    t1 = t1  t2 = t2
    Threads = {t1, t2}
    Alignment = 1
    MaxWastePercent = 25
    MaxBinBytes = 2
    SmallBinLookupUnits = 2
    NumShards = 1
    NumAddressBins = 1
    AddressBinSize = 8
    RecordsPerManager = 1
    NumManagers = 4
    BatchSize = 1
    VersionLimit = 8
    RequestSizes = {1}
    Scenarios <- MCScenarios
SPECIFICATION Spec
INVARIANTS
    Partition
    Accounted
    LateFreeIsRefused
PROPERTIES
    ImplementsHeap
    EveryCallReturns
CHECK_DEADLOCK FALSE
