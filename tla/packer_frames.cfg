SPECIFICATION Spec
CONSTANTS
    PathIDs = {1}
    StreamIDs = {}
    Callers = {9, 10}
    MaxPacketSize = 80
    MaxAttempts = 2
    ControlSizes <- OwnSize
    WriteSizes = {}
    MaxSeq = 2
    MaxOffset = 0
    Flusher = Flusher
    NoPath = NoPath
    NoStream = NoStream
INVARIANTS WireIdentity AckedNotPending
CHECK_DEADLOCK FALSE
