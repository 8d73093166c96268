CONSTANTS
    Threads = {1, 2}
    Size = 20
    Alignment = 2
    HeaderSize = 2
    BinSizes <- PairOfBinSizes
    Requests <- SmallRequests
    ReuseRatio = 10
    MaxAllocations = 6
SPECIFICATION Spec
INVARIANTS
    ListsEnd
CHECK_DEADLOCK FALSE
