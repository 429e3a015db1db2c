CONSTANTS
    StreamLen = 4
    ChunkMax = 3
    OptWindow = 1
    OptMaxBuffer = 3
    HasRedactor = TRUE
    HasFlusher = TRUE
    Scans <- MCScans
SPECIFICATION Spec
INVARIANTS
    TypeOK
    SliceInBounds
    DeliveredOnce
    WindowHeldBack
    CompleteOnSuccess
