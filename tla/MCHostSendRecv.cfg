SPECIFICATION HostSpec
CONSTANTS
    Programs = {"a", "b"}
    Simulator = "sim"
    Owner <- MCOwner
    DataCounts = {1, 2}
    LevelBits = 3
    Levels = {7}
    Resolution = 3
    MaxOps = 1
CHECK_DEADLOCK FALSE
INVARIANT
    SendRecvReceives
