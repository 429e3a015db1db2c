CONSTANTS
    Bodies <- MCBodies
    MinBase64Run = 4
    MinStitchLength = 3
    MinStitchRatioPct = 50
SPECIFICATION Spec
INVARIANTS
    CoversSource
    TableOrdered
    NothingVanishes
    PrecheckSound
    RegionsMaximal
