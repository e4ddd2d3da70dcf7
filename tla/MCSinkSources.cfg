SPECIFICATION Spec
CONSTANTS
    r1 = r1
    r2 = r2
    s1 = s1
    s2 = s2
    Runs = {r1}
    Streams = {s1}
    StreamOf <- OneStream
    Events = {e1}
    Names = {x}
    MaxBatches = 2
    MaxBatch = 1
    MaxQueued = 1
INVARIANT SourcesAlive
