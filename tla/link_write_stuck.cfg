SPECIFICATION FairSpec
CONSTANTS
    Writers = {w1}
    Monitor = Monitor
    NoOne = NoOne
    MaxRecovery = 2
PROPERTY WriteReturns
CHECK_DEADLOCK FALSE
