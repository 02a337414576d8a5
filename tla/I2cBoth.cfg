SPECIFICATION Spec
CONSTANTS
    MasterCounts = {1, 2, 4}
    MaxTransfers = 1
    MaxAccesses = 2
    MaxBytes = 4
    MaxRestarts = 1
    MaxArlo = 1
    BusErrors = TRUE
    SlowHandlers = FALSE
    MaxUpdates = 2
    SendSize = 3
    RecvSize = 2
    SlaveSize = 3
CHECK_DEADLOCK FALSE
INVARIANTS
    BothAreExact
    AccessIsProvided
