SPECIFICATION FairSpec
CONSTANTS
    Length = 4
    Readers = {r1, r2}
    ReadSizes = {1, 3}
INVARIANTS TypeOK NoMissedWakeup
PROPERTIES ReadsByteStream ReadReturns
