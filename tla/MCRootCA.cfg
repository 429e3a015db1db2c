CONSTANTS
    Generators = {g1, g2}
    MaxRoots = 3
SPECIFICATION Spec
INVARIANTS
    NoForceKeeps
    PairMatches
    UninstallRemoves
