CONSTANTS
    Files <- MCFiles
    Plain = {p1, p2}
    Intercepted = {m1}
SPECIFICATION Spec
INVARIANTS
    NoOrphans
    DrainedBeforeKill
    AnsweredOnce
    ValidStarts
    ServesAsConfigured
PROPERTY
    SignalEnds
