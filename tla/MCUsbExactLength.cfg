SPECIFICATION ControlSpec
CONSTANTS
    BulkSize = 64
    Requests <- MCExactLength
    MaxRequests = 2
    MaxResets = 0
CHECK_DEADLOCK FALSE
INVARIANT
    ControlNeverHalts
