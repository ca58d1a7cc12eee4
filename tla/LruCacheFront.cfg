SPECIFICATION LruSpec
CONSTANTS
    Threads = {t1}
    Locks = {l1}
    Keys = {1, 2}
    Hash <- MCHash
    Items = {i1, i2, i3}
    Capacities = {2}
    InitCapacity = 2
    ResizeWhileFilled = FALSE
    None = None
CHECK_DEADLOCK FALSE
PROPERTY LookupBringsToFront
