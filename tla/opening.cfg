SPECIFICATION Spec
CONSTANTS
    client = client
    server = server
    c1 = c1
    s1 = s1
    Sides <- Ends
    PeerOf <- OtherEnd
    Callers = {c1, s1}
    SideOf <- AppSide
    OpsOf <- ClientOpens
    Leaving = {server}
    MaxStreams = 2
CONSTRAINT OneStreamWhenLeaving
INVARIANTS TypeOK OpenedIsAcceptable AcceptedWasOpened NothingLeftBehind
CHECK_DEADLOCK FALSE
