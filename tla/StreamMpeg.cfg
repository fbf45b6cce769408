CONSTANTS
    Threads = {"control", "player"}
    Size <- MCSize
    BSize = 2
    NBuf = 2
    Repeats <- MCRepeats
    ReadLens = {1, 3}
    MinPlay = 1
    MaxAsks = 2
SPECIFICATION Spec
INVARIANTS WholeFile
PROPERTIES CallsReturn PlaysOut
CHECK_DEADLOCK FALSE
