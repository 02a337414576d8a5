SPECIFICATION FairSpec
CONSTANTS
    MasterCounts = {1, 2, 4}
    MaxTransfers = 1
    MaxAccesses = 1
    MaxBytes = 1
    MaxRestarts = 0
    MaxArlo = 0
    BusErrors = FALSE
    SlowHandlers = FALSE
    MaxUpdates = 0
    SendSize = 2
    RecvSize = 2
    SlaveSize = 3
CHECK_DEADLOCK FALSE
PROPERTY
    TransferEnds
