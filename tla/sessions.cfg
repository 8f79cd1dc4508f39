SPECIFICATION FairSpec
CONSTANTS
    Roles = {"server", "client"}
    MaxPaths = 2
    Retries = 1
INVARIANTS PrimaryIsKnown CloseReachesPaths ClosedIsUnregistered ShutdownDrains
PROPERTIES CloseReturns LostSessionCloses
CHECK_DEADLOCK FALSE
