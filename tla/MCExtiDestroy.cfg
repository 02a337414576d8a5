SPECIFICATION ExtiSpec
CONSTANTS
    Lines <- MCLines
    Vector <- MCVector
    SharedVectors <- MCShared
    MaxNest = 1
    DestroyDisabled = TRUE
INVARIANT
    CounterIsNumberEnabled
