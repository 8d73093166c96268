SPECIFICATION RefusalSpec
CONSTANTS
    Producers = {p1, p2}
    SegmentCount = 2
    InitialCapacity = 1
    GrowthNumerator = 5
    GrowthDenominator = 4
    IdleRotationInterval = 0
    MaxCapacity = 3
    ClampDistance = 2
    PosModulus = 16
    AllocMayFail = TRUE
    MaxPushes = 3
PROPERTIES
    RefusesOnlyWhenAllFull
