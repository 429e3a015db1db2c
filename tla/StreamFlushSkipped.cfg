CONSTANTS
    StreamLen = 6
    ChunkMax = 6
    OptWindow = 2
    OptMaxBuffer = 0
    HasRedactor = TRUE
    HasFlusher = TRUE
    Scans <- OverlappingScans
SPECIFICATION Spec
INVARIANT
    FlushedAfterWrite
