SPECIFICATION Spec
CONSTANTS
    Threads = {t1, t2}
    WordBits = 2
    Size = 5
    MaxRun = 3
INVARIANTS
    Accounted
    OneRaceWinner
PROPERTIES
    HolderCanRelease
    SearchFailsOnlyWhenNone
SYMMETRY Symmetry
