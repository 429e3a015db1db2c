CONSTANTS
    NumScanners = 3
    TransformAware = {1, 2}
    Plugins = {3}
    NumViews = 3
    OrigIdx <- MCOrigIdx
    Reports <- MCReports
    Types = {"email", "key", "name"}
    BodyLen = 6
    OffsetLimit = 8
    Redactors = {"nil", "mask", "plugin"}
SPECIFICATION Spec
INVARIANTS
    EveryScannerHeard
    NothingLost
    FoundIsHidden
    ErrorsSurface
    InterleavingFree
    RedactsByReference
    SlicesInBounds
PROPERTY
    ProcessReturns
