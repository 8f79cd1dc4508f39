SPECIFICATION FairSpec
CONSTANTS
    PathIDs = {1}
    StreamIDs = {1}
    Callers = {1}
    MaxPacketSize = 80
    MaxAttempts = 2
    ControlSizes <- NoControl
    WriteSizes = {110, 170}
    MaxSeq = 2
    MaxOffset = 280
    Flusher = Flusher
    NoPath = NoPath
    NoStream = NoStream
INVARIANTS TypeOK BytesPackedOnce
PROPERTIES FlushDrains
CHECK_DEADLOCK FALSE
