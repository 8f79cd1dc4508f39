SPECIFICATION FairSpec
CONSTANTS
    Paths = {1}
    Readers = {1}
    PathOf <- AllOnPath1
    MaxSeq = 4
    Sent = {1, 3}
    Carries <- FirstCarriesData
    StreamIDs = {1}
    Threshold = 2
    QueueSize = 2
    NoStream = NoStream
    NoPath = NoPath
INVARIANTS TypeOK RangesExact ReceivedNotForgotten AckedWasReceived
PROPERTIES AckedEventually CloseReturns
CHECK_DEADLOCK FALSE
