SPECIFICATION FairSpec
CONSTANTS
    w1 = w1
    w2 = w2
    CaptureThread = CaptureThread
    Main = Main
    Producers <- TheCaptureThread
    Consumers <- OneWorker
    Capacity = 1
    MaxN = 2
    Linger = TRUE
    MaxPackets = 1
    MaxFrames = 1
    MaxDelivered = 0
PROPERTIES
    CtrlCStops
