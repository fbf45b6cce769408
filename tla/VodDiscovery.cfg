SPECIFICATION MCSpec
CONSTANTS
    Channels = {0, 4}
    Servers = {1, 2}
    Divider = 2
    Prefer = 0
    MaxStarts = 2
    MaxNet = 2
    MaxLoss = 1
    Retry = 2
CHECK_DEADLOCK FALSE
PROPERTIES Found
