CONSTANTS
    StreamLen = 12
    ChunkMax = 12
    OptWindow = 5
    OptMaxBuffer = 0
    HasRedactor = TRUE
    HasFlusher = TRUE
    Scans <- OverlappingScans
SPECIFICATION Spec
INVARIANT
    NoFindingSplit
