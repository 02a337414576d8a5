SPECIFICATION PartsSpec
CONSTANTS
    EpSize = 2
    BufferSize = 4
    Counts = {1, 3}
    OutSizes <- MCOutSizes
    MaxIn = 7
    MaxOut = 7
    MaxStates = 1
    SlowIsr = FALSE
    EarlyDisable = FALSE
    BulkSize = 64
    Requests <- MCRequests
    MaxRequests = 3
    MaxResets = 1
CHECK_DEADLOCK FALSE
INVARIANTS
    SerialLineIsSafe
    ControlTransfersAreExact
PROPERTIES
    ImplementsChannels
    BlockingCallsReturn
