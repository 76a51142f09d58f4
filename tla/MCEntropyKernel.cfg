SPECIFICATION KernelSpec
CONSTANTS
    Bins = 4
    MaxGroup = 4
    Limits = {1, 3, 5}
    Batches <- MCBatches
    Span = 9
CHECK_DEADLOCK FALSE
INVARIANTS
    KernelExact
    NoDataRace
PROPERTIES
    KernelEnds
