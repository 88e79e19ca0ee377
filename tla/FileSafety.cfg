CONSTANTS
    d = d
    s = s
    Settings = {d, s}
    Default = d
    Found <- OneOfEach
    Attempts = 2
    MaxQueue = 1
SPECIFICATION FairSpec
INVARIANTS
    TypeOK
    SaveInv
    ModeSavedOrTold
PROPERTIES
    ImplementsStore
    NoNagging
    UpdatePushesWhatIsSaved
    UpdatesAreAnswered
