CONSTANTS
    MaxBytes = 3
    MaxRequests = 2
SPECIFICATION Spec
INVARIANTS
    NoneLeftOpen
    NothingCut
    ListenerOnce
PROPERTY
    HandlerReturns
