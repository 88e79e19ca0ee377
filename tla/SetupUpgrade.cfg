CONSTANTS
    v1 = v1
    v2 = v2
    none = none
    Versions = {v1, v2}
    None = none
SPECIFICATION Spec
INVARIANTS
    SetupInv
    InstalledIsInPlace
    RestartWillComplete
    RemovedStaysRemoved
