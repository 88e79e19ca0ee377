SPECIFICATION FairSpec
CONSTANTS
    a = a
    Clients = {a}
    MaxNotes = 1
    MaxCommands = 1
PROPERTIES
    QuitIsObeyed
CHECK_DEADLOCK FALSE
