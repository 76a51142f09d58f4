SPECIFICATION FlowSpec
CONSTANTS
    w1 = w1
    w2 = w2
    ipA = ipA
    ipB = ipB
    ipC = ipC
    f1 = f1
    f2 = f2
    f3 = f3
    x = x
    y = y
    Workers <- TwoWorkers
    Ips <- ThreeIps
    Flows <- TwoFlows
    DstPort <- OwnPorts
    Shards <- OneShard
    ShardOf <- AllInOne
    Traffic <- SynTraffic
    PortWindow = 2
    PortThreshold = 2
    SynWindow = 2
    SynThreshold = 2
    Debounce = 2
    IdleTtl = 4
    SweepInterval = 1
    MaxTracked = 3
    MaxTime = 4
    MaxObserved = 4
INVARIANTS
    NothingExpiredCounts
