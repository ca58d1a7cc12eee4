SPECIFICATION MCSpec
CONSTANTS
    top = top
    reply = reply
    tbWin = tbWin
    oldDraw = oldDraw
    Root = top
    Nodes <- TreeNodes
    Parent <- TreeParent
    Above <- TreeAbove
    GameOver <- OnlyTbWin
    TablebaseWins <- OnlyTbWin
    TwoFold <- OnlyOldDraw
    Workers = {w1, w2}
    MiniBatchSize = 2
    MaxCollisionVisits = 2
    SolidTreeThreshold = 2
    InitialVisits = 3
    MaxPlayouts = 2
    MaxShared = 2
    TbCases <- MCSyzygyCases
    SzThreads = {t1, t2}
SYMMETRY WorkerSymmetry
INVARIANTS
    InFlightConserved
    CountsAddUp
    ClaimsLive
    TbTablesExact
    SzProbesTrue
    SzLoadOnceBeforeUse
PROPERTY SzProbeEnds
