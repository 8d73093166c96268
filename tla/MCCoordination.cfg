SPECIFICATION AllSpec
CONSTANTS
    Threads = {"t1", "t2", "t3"}
    Slots = {1}
    Values = {"t1", "t2"}
    Null = "none"
    MaxAttempts = 2
    InitialHeld <- MCHeld
    NumberOfTokens = 2
    CounterModulus = 5
    Writers = {"w1", "w2"}
    Readers = {"r1"}
    NumSlots = 2
    WordCount = 2
    Stored = {1, 2}
    Zero = 0
    SeqModulus = 6
    Lockers = {"t1", "t2"}
    Handles = {1, 2}
    Kinds = {"spin", "recursive"}
    MaxDepth = 2
    Machines <- MCMachines
    Topologies <- MCTopologies
    MaxNesting = 3
INVARIANTS
    TokensHeldOnce
    LoadIsLinearizable
    SectionsExclude
PROPERTIES
    ElementsPassOnce
    OperationsComplete
