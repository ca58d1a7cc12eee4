SPECIFICATION LruSpec
CONSTANTS
    Threads = {t1}
    Locks = {l1}
    Keys = {1, 4, 5}
    Hash <- MCHash
    Items = {i1, i2, i3, i4}
    Capacities = {2, 3}
    InitCapacity = 2
    ResizeWhileFilled = TRUE
    None = None
SYMMETRY MCSymmetry
CHECK_DEADLOCK FALSE
INVARIANT EntriesReachable
