SPECIFICATION Spec
CONSTANTS
    Blocks = 2
    Mod = 4
    MaxFaults = 1
    MaxLate = 2
CHECK_DEADLOCK FALSE
INVARIANT
    AckedIsWritten
