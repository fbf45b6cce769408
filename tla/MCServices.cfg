SPECIFICATION MCSpec
CONSTANTS
    Stations = {0}
    Threads = {t1, t2}
    Files = {"a", "b", "none"}
    SizeOf <- MCSizeOf
    StbIds = {1, 2}
    Counts = {1, 2}
    BlockLen = 3
    PieceLen = 2
    NPieces = 2
    PerDisk = 2
    Remote <- MCRemote
    MaxFtpCalls = 4
    Greetings = {120, 220, 500}
    Nodes = {"a", "b"}
    Ids = {5, 6}
    NSlots = 2
    MaxUCalls = 3
    MaxUNet = 2
INVARIANTS PacketsTruthful  Paired  FetchKept  Relayed
