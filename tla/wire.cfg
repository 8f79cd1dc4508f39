SPECIFICATION Spec
CONSTANTS
    Packets <- AllKinds
    MaxPacketSize = 60
    ReadSizes = {1, 2048}
    MaxWritten = 2
    MaxStreams = 2
INVARIANTS PacketsIntact InStep StopsOnlyAtTheLimit
CHECK_DEADLOCK FALSE
