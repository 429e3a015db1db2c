CONSTANTS
    StreamLen = 26
    ChunkMax = 4
    OptWindow = 3
    OptMaxBuffer = 6
    HasRedactor = TRUE
    HasFlusher = TRUE
    Body <- MCBody
    ContextWindow = 2
    MinDigits = 2
    MaxDigits = 3
    Scans <- MCScans
    Matches <- MCMatches
SPECIFICATION Spec
INVARIANTS
    NoSplit
    ChunkingTransparent
    BoundedTail
PROPERTIES
    ImplementsCopy
    BackToRead
