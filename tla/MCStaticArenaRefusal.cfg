SPECIFICATION HSpec
CONSTANTS
    t1 = t1
    t2 = t2
    Threads = {t1, t2}
    MinAlignment = 4
    NumBins = 4
    HeaderSize = 2
    ArenaBlocks = 4
    RequestSizes = {3, 8}
PROPERTIES
    NoFalseOutOfMemory
