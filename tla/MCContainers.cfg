SPECIFICATION AllSpec
CONSTANTS
    Size = 4
    Values = {1, 2}
    p1 = p1
    p2 = p2
    n1 = n1
    n2 = n2
    n3 = n3
    Producer = producer
    Consumers = {c1, c2}
    StackValues = {v1, v2, v3}
    NoValue = none
    Capacity = 2
    GenModulus = 4
    Procs = {p1, p2}
    Nodes = {n1, n2, n3}
    Null = none
    InitialHeld <- MCInitialHeld
    CounterModulus = 3
INVARIANTS
    TypesOK
    ObjectLifetimes
PROPERTIES
    ImplementsContainers
    StacksLockFree
CHECK_DEADLOCK FALSE
