SPECIFICATION FlowSpec
CONSTANTS
    w1 = w1
    w2 = w2
    ipA = ipA
    ipB = ipB
    ipC = ipC
    f1 = f1
    f2 = f2
    f3 = f3
    x = x
    y = y
    Workers <- OneWorker
    Ips <- ThreeIps
    Flows <- ThreeFlows
    DstPort <- SharedPort
    Shards <- OneShard
    ShardOf <- AllInOne
    Traffic <- ScanTraffic
    PortWindow = 2
    PortThreshold = 2
    SynWindow = 1
    SynThreshold = 2
    Debounce = 2
    IdleTtl = 2
    SweepInterval = 1
    MaxTracked = 3
    MaxTime = 4
    MaxObserved = 5
INVARIANTS
    WindowsExact
PROPERTIES
    ImplementsDetector
