SPECIFICATION MCSpec
CONSTANTS
    N = 2
    Queues = {0, 1}
    Values = {0, 1}
    EnqTo = {0, 1}
    Dequeuers = {d1, d2}
    XLen = 3
    XData = {1, 2}
    Zero = 0
    PValues = {1, 2, 3}
PROPERTIES QueuedIsServed ImplementsDeque
