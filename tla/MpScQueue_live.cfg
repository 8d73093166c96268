SPECIFICATION FairSpec
CONSTANTS
    Producers = {p1, p2}
    SegmentCount = 2
    InitialCapacity = 3
    GrowthNumerator = 5
    GrowthDenominator = 4
    IdleRotationInterval = 1
    MaxCapacity = 3
    ClampDistance = 2
    PosModulus = 16
    AllocMayFail = TRUE
    MaxPushes = 2
PROPERTIES
    Drains
    FullSegmentReopens
