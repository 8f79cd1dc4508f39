SPECIFICATION Spec
CONSTANTS
    PathIDs = {1}
    StreamIDs = {1}
    Callers = {1,2}
    MaxPacketSize = 120
    MaxAttempts = 2
    ControlSizes <- NoControl
    WriteSizes = {77}
    MaxSeq = 2
    MaxOffset = 154
    Flusher = Flusher
    NoPath = NoPath
    NoStream = NoStream
INVARIANTS WrittenIsKept
CHECK_DEADLOCK FALSE
