CONSTANTS
    words = words
    none = none
    Lists = {words}
    Empty = none
    Replies <- SomeReplies
    Async <- SomeAsync
    Hosts <- DrawnHost
    MaxQueue = 1
    MaxDeferred = 1
SPECIFICATION Spec
INVARIANTS
    ShownIsCurrent
    FlushFlagIsOwned
    SuppressedOnlyOnce
    QuietWhereItMustBe
    EndsAreNotNested
    CallsAreNested
    HandshakeReleasesTheFlag
CHECK_DEADLOCK FALSE
