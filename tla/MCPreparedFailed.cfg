SPECIFICATION Spec
CONSTANTS
    s1 = s1
    s2 = s2
    None = None
    Buffer = Buffer
    Streams = {s1, s2}
    Values = {v1, v2}
    N = 3
    Staged <- StagedInputs
    Faulty <- AllFaults
    Careful = FALSE
    MaxQueued = 2
CHECK_DEADLOCK FALSE
INVARIANT IdleWhenFree
