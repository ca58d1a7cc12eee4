SPECIFICATION FairSpec
CONSTANTS
    w1 = w1
    w2 = w2
    Workers <- TwoWorkers
    MaxConcurrentSearchers = 1
    MiniBatchSize = 1
    MaxCollisionEvents = 1
    MaxOutOfOrderEvals = 1
    OutOfOrderEval = TRUE
    InitialVisits <- FreshOrReused
    NodeLimit = 2
    TimeLimited = TRUE
    MaxPlayouts = 2
INVARIANTS
    OneAnswer
    OutputAllowed
    HeldIsReturned
PROPERTIES
    EveryGoAnswered
    DestructorReturns
