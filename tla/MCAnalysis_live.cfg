CONSTANTS
    w1 = w1
    w2 = w2
    Workers <- MCWorkers
    Batches <- MCBatches
    MinPayload = 2
    MinGrow = 4
    MaxBatches = 2
SPECIFICATION AnalysisFairSpec
PROPERTIES BatchesFinish
