SPECIFICATION PartsSpec
CONSTANTS
    Blocks = 4
    Mod = 6
    MaxFaults = 6
    MaxLate = 1
    AddrSize = 4
    ExtSize = 4
    PageSize = 2
    Tries = 2
    Loops = 2
    Extents = 2
    Starts <- MCStarts
    Chunks <- MCChunks
    Methods = {"delay", "value", "rdy_bsy"}
    Erased = 255
    SlowTimes = {1, 3}
    Skews = {0, 3}
    MaxIspCommands = 5
    FrameBufferSize = 16
    Commands <- MCCommands
    Signature <- MCSignature
    Damaged = {27, 7}
    WriteSizes = {3, 20}
    MaxFrames = 2
    MaxFrameFaults = 1
    ArgsMax = 2
    Letters <- MCLetters
    SentArgs <- MCSentArgs
    Typed <- MCTyped
    Noise <- MCNoise
    MaxMessages = 2
    MaxNoise = 1
CHECK_DEADLOCK FALSE
INVARIANTS
    SafeReception
    BridgeIsExact
    WholeMessageIsHandled
PROPERTIES
    ImplementsTransfer
    Resumes
