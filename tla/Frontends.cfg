CONSTANTS
    EngFens = {fen0, fenBad}
    EngBadFens = {fenBad}
    EngStartFen = fen0
    EngMoves = {e2e4}
    EngMaxPly = 1
    EngTbPaths = {tbA, tbB}
    EngGoodTb = {tbA}
    EngNets = {net1, net2, netBad}
    EngGoodNets = {net1, net2}
    EngNone = none
    EngMaxGo = 2
    SpWorkers = {w1, w2}
    SpMatches <- MCMatches
    SpOpenings <- MCOpenings
    SpOutcomes = {"white", "draw"}
    SpMaxPly = 1
    SpPileLimit = 1
    SpDiscarded = "discarded"
    t1 = t1
    t2 = t2
    TmThreads = {t1, t2}
    TmCases <- TmMCCases
    TmNaN = NaN
    TmNone = None
    MCSystems = {"engine", "selfplay", "time"}
SPECIFICATION MCSpec
CHECK_DEADLOCK FALSE
INVARIANTS
    EngResourcesOutliveSearch
    EngCommandsHonoured
    SpResultsComplete
    TmPruneKeepsBest
    TmDivisorsSound
PROPERTIES
    SpCommandsReturn
