SPECIFICATION FairSpec
CONSTANTS
    w1 = w1
    w2 = w2
    CaptureThread = CaptureThread
    Main = Main
    Producers <- TheCaptureThread
    Consumers <- TwoWorkers
    Capacity = 1
    MaxN = 2
    Linger = TRUE
    MaxPackets = 3
    MaxFrames = 3
    MaxDelivered = 2
INVARIANTS
    TypeOK
    NoOverrun
    NeverRefused
    SummaryComplete
PROPERTIES
    StopHonoured
    OfflineTerminates
