SPECIFICATION FlowSpec
CONSTANTS
    w1 = w1
    w2 = w2
    ipA = ipA
    ipB = ipB
    ipC = ipC
    f1 = f1
    f2 = f2
    f3 = f3
    x = x
    y = y
    Workers <- OneWorker
    Ips <- ThreeIps
    Flows <- OneFlow
    DstPort <- OnePort
    Shards <- OneShard
    ShardOf <- AllInOne
    Traffic <- TwoSources
    PortWindow = 2
    PortThreshold = 1
    SynWindow = 2
    SynThreshold = 1
    Debounce = 2
    IdleTtl = 4
    SweepInterval = 1
    MaxTracked = 1
    MaxTime = 4
    MaxObserved = 4
INVARIANTS
    DebounceSpaced
