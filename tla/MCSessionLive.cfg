SPECIFICATION FairSpec
CONSTANTS
    s1 = s1
    s2 = s2
    d1 = d1
    d2 = d2
    e1 = e1
    e2 = e2
    e3 = e3
    t1 = t1
    t2 = t2
    Contexts = {c1, c2}
    Events = {e1, e2, e3}
    Tensors = {t1, t2}
    Streams = {s1, s2}
    Devices = {d1, d2}
    StreamDevice <- TwoDeviceStreams
    EventDevice <- TwoDeviceEvents
    Bindings <- OneBinding
    InitialBackoff = 1
    MaxBackoff = 2
    MaxCacheEntries = 1
    MaxQueued = 4
CHECK_DEADLOCK FALSE
INVARIANT EventsReusable
PROPERTY CallReturns
PROPERTY DropEnds
PROPERTY ReclaimedIfUsed
