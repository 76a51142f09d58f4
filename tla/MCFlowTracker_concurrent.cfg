SPECIFICATION FlowSpec
CONSTANTS
    w1 = w1
    w2 = w2
    ipA = ipA
    ipB = ipB
    ipC = ipC
    f1 = f1
    f2 = f2
    f3 = f3
    x = x
    y = y
    Workers <- TwoWorkers
    Ips <- ThreeIps
    Flows <- TwoFlows
    DstPort <- OwnPorts
    Shards <- TwoShards
    ShardOf <- Split
    Traffic <- MixedTraffic
    PortWindow = 1
    PortThreshold = 2
    SynWindow = 1
    SynThreshold = 2
    Debounce = 1
    IdleTtl = 1
    SweepInterval = 2
    MaxTracked = 1
    MaxTime = 2
    MaxObserved = 4
INVARIANTS
    CountsMirrorWindow
    NoOrphanSyn
    TrackedBounded
