SPECIFICATION AllSpec
CONSTANTS
    Threads = {t1, t2}
    MinAlignment = 4
    NumBins = 4
    HeaderSize = 2
    ArenaBlocks = 10
    RequestSizes = {8, 9, 17}
    NumArenas = 2
    MaxArenas = 2
    Cores = {0, 1}
    MaxBlocks = 3
    UpstreamBlocks = 2
    Elements = 2
    RunLengths = {1}
    CountModulus = 4
INVARIANTS
    Partition
    BlocksAccounted
    CountBalances
PROPERTIES
    RefusesAloneOnlyWhenFull
SYMMETRY MCSymmetry
CHECK_DEADLOCK FALSE
