SPECIFICATION FairSpec
CONSTANTS
    Writers = {w1}
    Monitor = Monitor
    NoOne = NoOne
    MaxRecovery = 2
INVARIANTS OneReaderReads RecoveriesCounted
PROPERTIES LossIsReported BreakIsHandled CloseReturns
CHECK_DEADLOCK FALSE
