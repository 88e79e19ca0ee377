CONSTANTS
    a = a
    b = b
    c = c
    launcher = launcher
    Conns = {a, b, c}
    SettingsApps = {b}
    Foreign = {c}
    Launcher = launcher
    MaxSeq = 3
    MaxGen = 1
    MaxQueue = 0
SPECIFICATION Spec
INVARIANTS
    InductiveInv
    OneCallAtATime
CHECK_DEADLOCK FALSE
