SPECIFICATION Spec
CONSTANTS
    RxSize = 2
    TxSize = 1
    Counts = {1, 2}
    MaxTx = 2
    MaxRx = 3
    MaxDisables = 1
CHECK_DEADLOCK FALSE
INVARIANTS
    HoleIsMarked
