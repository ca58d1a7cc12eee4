SPECIFICATION Spec
CONSTANTS
    top = top
    reply = reply
    tbWin = tbWin
    oldDraw = oldDraw
    Root = top
    Nodes <- TreeNodes
    Parent <- TreeParent
    Above <- TreeAbove
    GameOver <- OnlyTbWin
    TablebaseWins <- OnlyTbWin
    TwoFold <- OnlyOldDraw
    Workers = {w1, w2}
    MiniBatchSize = 1
    MaxCollisionVisits = 2
    SolidTreeThreshold = 2
    InitialVisits = 3
    MaxPlayouts = 2
    MaxShared = 2
INVARIANT OwnEdgeLive
