SPECIFICATION FairSpec
CONSTANTS
    Allocated = 5
    NBuf = {0, 3, 4, 6}
    Data = {d1, d2}
INVARIANTS ExclusiveBuffers
PROPERTIES ConsumerServed ImplementsFifo
