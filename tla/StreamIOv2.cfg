CONSTANTS
    Servers = {s1}
    Size <- MCSize
    Parameters <- MCParameters
    Retries = 2
    MaxNet = 2
    MaxDepth = 2
    MaxOpens = 2
    MaxAsks = 2
    MaxFaults = 2
SPECIFICATION V2Spec
INVARIANTS StreamIntact
PROPERTIES CallsReturnV2
CHECK_DEADLOCK FALSE
