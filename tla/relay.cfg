SPECIFICATION Spec
CONSTANTS
    Callers = {a1, a2}
    Streams = {1}
    MaxPath = 3
    Data = {2}
    MaxControl = 1
    MaxCopies = 2
    Nobody = Nobody
INVARIANTS RelayIsReal OpenIsJoined FramesFollow RelayedIsSubmitted
CHECK_DEADLOCK FALSE
