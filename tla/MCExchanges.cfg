SPECIFICATION ExchangesSpec
CONSTANTS
    MasterCounts = {1, 2, 3, 4, 5, 6}
    MaxTransfers = 2
    MaxAccesses = 0
    MaxBytes = 0
    MaxRestarts = 0
    MaxArlo = 1
    BusErrors = FALSE
    SlowHandlers = FALSE
    MaxUpdates = 0
    SendSize = 2
    RecvSize = 2
    SlaveSize = 3
    Nodes <- Two
    MaxDate = 2
    MaxSends = 1
    MaxRequests = 2
    NestedRequests = FALSE
CHECK_DEADLOCK FALSE
INVARIANTS
    ReceptionIsExact
    MexIsExact
PROPERTIES
    TransferEnds
    CallsReturn
