SPECIFICATION FairSpec
CONSTANTS
    s1 = s1
    s2 = s2
    None = None
    Buffer = Buffer
    Streams = {s1, s2}
    Values = {v1, v2}
    N = 3
    Staged <- StagedInputs
    Faulty <- AllFaults
    Careful = TRUE
    MaxQueued = 2
CHECK_DEADLOCK FALSE
INVARIANT TypeOK
INVARIANT ExecutesAsAsked
INVARIANT ContextIdleWhenFree
PROPERTY RunReturns
