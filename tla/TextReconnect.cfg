CONSTANTS
    words = words
    none = none
    Lists = {words}
    Empty = none
    Replies <- SomeReplies
    Async <- FewAsync
    Hosts <- BareHost
    MaxQueue = 1
    MaxDeferred = 1
SPECIFICATION Spec
INVARIANTS LaterReconnectAllowed
CHECK_DEADLOCK FALSE
