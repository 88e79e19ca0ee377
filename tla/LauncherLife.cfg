SPECIFICATION FairSpec
CONSTANTS
    a = a
    Clients = {a}
    MaxNotes = 1
    MaxCommands = 2
INVARIANTS
    TypeOK
    NotesInOrder
    NothingHeldBack
    CommandsAreNotMerged
PROPERTIES
    QuitEnds
CHECK_DEADLOCK FALSE
