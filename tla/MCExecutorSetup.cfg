SPECIFICATION SetupSpec
CONSTANTS
    Threads = {t1, t2}
    Buffers = {b1, b2}
    MaxAddress = 4
    MaxReads = 1
    Calls <- AllCalls
    Profile <- EngineProfile
    Answers <- Batches
    Setups <- AllSetups
    MaxInt = 4
SYMMETRY Symmetry
INVARIANT ReadAsAsked
INVARIANT AcceptedIsReadable
INVARIANT VirtualTokensHaveRows
INVARIANT BuffersOwned
INVARIANT ReadsNeverPanic
INVARIANT OnlyNamedTensorsLeak
INVARIANT DeliveredWhole
INVARIANT ConfiguredAsAsked
PROPERTY KeepsPromise
