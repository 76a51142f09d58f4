SPECIFICATION PoolFairSpec
CONSTANTS
    p1 = p1
    p2 = p2
    w1 = w1
    w2 = w2
    m = m
    Producers <- TwoProducers
    Consumers <- TwoWorkers
    Main = m
    Capacity = 2
    MaxN = 3
    Linger = TRUE
    MaxPackets = 4
INVARIANTS
    AnalysedOnce
    OvertakenInHand
    ExitOnlyWhenDrained
    JoinedMeansProcessed
PROPERTIES
    PoolTerminates
    Delivered
    PushReturns
