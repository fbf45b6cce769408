SPECIFICATION MCSpec
CONSTANTS
    Stations = {0}
    Threads = {t1}
    Files = {"a", "b"}
    SizeOf <- MCSizeOf
    StbIds = {1}
    Counts = {1, 2}
    BlockLen = 3
    PieceLen = 2
    NPieces = 2
    PerDisk = 1
    MaxNet = 2
    MaxEpoch = 2
    SeekTo = {0}
    MayAbort = TRUE
INVARIANTS BlockIntactUnlessStale
CHECK_DEADLOCK FALSE
