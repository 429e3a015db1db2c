CONSTANTS
    StreamLen = 12
    ChunkMax = 12
    OptWindow = 6
    OptMaxBuffer = 0
    HasRedactor = TRUE
    HasFlusher = TRUE
    Body <- MCBody
    ContextWindow = 4
    MinDigits = 2
    MaxDigits = 3
    Scans <- MCScans
SPECIFICATION Spec
INVARIANT
    StillDetected
