CONSTANTS
    a = a
    b = b
    c = c
    launcher = launcher
    Conns = {a}
    SettingsApps = {}
    Foreign = {}
    Launcher = launcher
    MaxSeq = 4
    MaxGen = 3
    MaxQueue = 2
SPECIFICATION FairSpec
INVARIANTS
    NoLateAnswer
PROPERTIES
    OnlyTheAnswerStopsTheTimer
    ClosedClientsAreFreed
    ReleasesCallers
CHECK_DEADLOCK FALSE
