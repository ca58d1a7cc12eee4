SPECIFICATION MCSpec
CONSTANTS
    Callers = {c1, c2}
    MaxBatch = 2
    MuxWorkers = {w1, w2}
    MuxMaxBatch = 2
    DmxWorkers = {w1, w2}
    DmxMinSplits = {0, 2}
    CCWorkers = {s1}
    CCKeys = {1, 2}
    CCMiniBatch = 3
    CCPrefetch = 3
    CCNone = 0
CHECK_DEADLOCK FALSE
INVARIANTS
    MuxWaitersHeld
    CCEvaluationsExact
PROPERTIES
    MuxImplementsService
    DmxImplementsService
    NetworkCallsReturn
