SPECIFICATION SharedSpec
CONSTANTS
    Threads = {t1, t2}
    Locks = {l1, l2}
    Keys = {1, 2, 4}
    Hash <- MCHash
    Items = {i1, i2, i3, i4}
    Capacities = {0, 1, 2}
    InitCapacity = 2
    ResizeWhileFilled = FALSE
    None = None
    Nodes <- TreeNodes
    GameStart = 1
    Parent <- TreeParent
    Above <- TreeAbove
    Value <- TreeValue
    GameOver <- TreeGameOver
    TwoFold <- TreeTwoFold
    Workers = {w1, w2}
    StickyEndgames = TRUE
    KnCases <- MCKernels
    KnWarp = 2
SYMMETRY MCSymmetry
INVARIANTS
    HeldValuesLive
    CountsExact
    EntriesReachable
    BoundsSound
    TerminalExact
    BoundsComplete
    KnExact
PROPERTY BoundsOnlyTighten
