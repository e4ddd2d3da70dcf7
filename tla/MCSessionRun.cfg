SPECIFICATION Spec
CONSTANTS
    s1 = s1
    s2 = s2
    d1 = d1
    d2 = d2
    e1 = e1
    e2 = e2
    e3 = e3
    t1 = t1
    t2 = t2
    Contexts = {c1, c2, c3}
    Events = {e1, e2, e3}
    Tensors = {t1, t2}
    Streams = {s1, s2}
    Devices = {d1, d2}
    StreamDevice <- OneDeviceStreams
    EventDevice <- OneDeviceEvents
    Bindings <- SharedBindings
    InitialBackoff = 1
    MaxBackoff = 2
    MaxCacheEntries = 1
    MaxQueued = 4
SYMMETRY Symmetric
CHECK_DEADLOCK FALSE
INVARIANT TypeOK
INVARIANT WorkRetained
INVARIANT OwnedOnce
INVARIANT OneStreamPerContext
INVARIANT EventsReusable
INVARIANT CompletionCovers
INVARIANT CacheSound
INVARIANT BackoffBounded
PROPERTY EvictionIdle
