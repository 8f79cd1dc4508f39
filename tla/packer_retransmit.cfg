SPECIFICATION FairSpec
CONSTANTS
    PathIDs = {1}
    StreamIDs = {}
    Callers = {9}
    MaxPacketSize = 80
    MaxAttempts = 3
    ControlSizes <- OwnSize
    WriteSizes = {}
    MaxSeq = 2
    MaxOffset = 0
    Flusher = Flusher
    NoPath = NoPath
    NoStream = NoStream
INVARIANT AttemptsBounded
PROPERTIES PendingResolved CloseReturns
CHECK_DEADLOCK FALSE
