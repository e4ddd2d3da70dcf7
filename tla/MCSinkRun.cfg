SPECIFICATION Spec
CONSTANTS
    r1 = r1
    r2 = r2
    s1 = s1
    s2 = s2
    Runs = {r1, r2}
    Streams = {s1, s2}
    StreamOf <- OwnStreams
    Events = {e1, e2}
    Names = {x}
    MaxBatches = 2
    MaxBatch = 1
    MaxQueued = 2
SYMMETRY Symmetric
INVARIANT TypeOK
INVARIANT ReturnedRetained
INVARIANT EventsReusable
INVARIANT EventCovers
