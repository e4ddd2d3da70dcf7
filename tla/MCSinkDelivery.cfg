SPECIFICATION FairSpec
CONSTANTS
    r1 = r1
    r2 = r2
    s1 = s1
    s2 = s2
    Runs = {r1}
    Streams = {s1, s2}
    StreamOf <- OneStream
    Events = {e1, e2}
    Names = {x, y}
    MaxBatches = 2
    MaxBatch = 2
    MaxQueued = 1
INVARIANT DeliveredLast
INVARIANT AllWritten
PROPERTY RunReturns
