SPECIFICATION ParserSpec
CONSTANTS
    Frames <- BoundaryFrames
INVARIANTS
    ReadsInBounds
    CopyInBounds
    PayloadComplete
