SPECIFICATION Spec
CONSTANTS
    Procs = {p1, p2, p3}
    Nodes = {a, b}
    NoNode = none
    Unassigned = 9
    NumSlots = 2
    Cpus = {0, 1}
    Lag = 2
    MaxEpoch = 3
INVARIANTS
    NoUseAfterFree
    ReadersHoldTheEpoch
SYMMETRY Symmetry
