SPECIFICATION Spec
CONSTANTS
    Producers = {p1, p2}
    SegmentCount = 2
    InitialCapacity = 2
    GrowthNumerator = 5
    GrowthDenominator = 4
    IdleRotationInterval = 1
    MaxCapacity = 3
    ClampDistance = 1
    PosModulus = 7
    AllocMayFail = TRUE
    MaxPushes = 3
INVARIANTS
    TypeOK
    SlotOwnership
    SegmentOrder
PROPERTIES
    FullStaysFull
    ImplementsHandoff
SYMMETRY Symmetry
