CONSTANTS
    words = words
    none = none
    Lists = {words}
    Empty = none
    Replies <- SomeReplies
    Async <- SomeAsync
    Hosts <- EveryHost
    MaxQueue = 1
    MaxDeferred = 1
SPECIFICATION Spec
INVARIANTS FailureClearsTypingState
CHECK_DEADLOCK FALSE
