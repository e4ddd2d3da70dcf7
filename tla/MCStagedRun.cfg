SPECIFICATION Spec
CONSTANTS
    Ids = {i1, i2}
    Contexts = {c1, c2}
    Buffers = {b1, b2, b3}
    Streams = {s1, s2}
    Engine <- EngineTensors
    Inferred <- RowsOf
    Requests <- AllRequests
    MayRefuse = {1, 2}
    MaxSize = 15
SYMMETRY Symmetric
INVARIANT WorkOwned
INVARIANT ReturnsComputed
INVARIANT BoundCovers
INVARIANT ReleasedInOrder
