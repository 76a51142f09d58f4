SPECIFICATION QueueSpec
CONSTANTS
    p1 = p1
    p2 = p2
    c1 = c1
    c2 = c2
    m = m
    Producers <- TwoProducers
    Consumers <- TwoConsumers
    Main = m
    Capacity = 3
    MaxN = 2
    Linger = TRUE
    MaxPackets = 5
INVARIANTS
    QueueTypeOK
    WithinCapacity
    Fifo
    NothingDropped
    OneFate
    NoLostPushWakeup
    NoStrandedPackets
    FullBatchHandoff
    ShutdownWakesAll
PROPERTIES
    ImplementsChannel
