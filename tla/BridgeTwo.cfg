CONSTANTS
    a = a
    b = b
    c = c
    launcher = launcher
    Conns = {a, b}
    SettingsApps = {}
    Foreign = {}
    Launcher = launcher
    MaxSeq = 2
    MaxGen = 2
    MaxQueue = 1
SPECIFICATION Spec
SYMMETRY Interchangeable
INVARIANTS
    NoStrandedRequest
    PrefsFirst
PROPERTIES
    ImplementsContract
CHECK_DEADLOCK FALSE
