CONSTANTS
    Threads = {t1, t2}
    Names = {"A:443", "a", "b", "c"}
    Keys = {"a", "b", "c"}
    normalizeHost <- MCnormalizeHost
    Capacity = 2
    MaxCerts = 4
SPECIFICATION Spec
INVARIANTS
    TypeOK
    StoreConsistent
    RightHost
    KeepsMostRecent
