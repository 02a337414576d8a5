SPECIFICATION PartsSpec
CONSTANTS
    Lines <- MCLines
    Vector <- MCVector
    SharedVectors <- MCShared
    MaxNest = 2
    DestroyDisabled = FALSE
    Width = 2
    SlaveAddress <- MCAddress
    Payloads <- MCPayloads
    RecvCounts = {1, 2}
    SlaveBytes <- MCSlaveBytes
    MaxSoft = 2
    MaxStretch = 1
    ScreenW = 4
    ScreenH = 2
    FirstPixels <- MCFirstPixels
    Surfaces <- MCSurfaces
    Rects <- MCRects
    Positions <- MCPositions
    Colors <- MCColors
    MaxDraws = 1
    Destination <- MCDestination
    DmaSurfaces <- MCDmaSurfaces
    DmaRects <- MCDmaRects
    DmaPositions <- MCDmaPositions
    DmaColors <- MCDmaColors
    MaxDmaDraws = 2
    Data = {a, b}
    Size = 2
    Counts = {1, 3}
    MaxSent = 4
    ClockSetups <- MCClockSetups
    SaiSetups <- MCSaiSetups
    MaxSetups = 2
    Instances = {"TIM2"}
    TimerMax = 3
    OptionLists <- MCOptionLists
    TimerPairs <- MCTimerPairs
    MaxTimerCalls = 4
    PanelW = 3
    PanelH = 2
    Horizontal <- MCPorches
    Vertical <- MCPorches
    LayerSurfaces <- MCLayerSurfaces
    LayerPositions <- MCLayerPositions
    DsiCommands <- MCDsiCommands
    MaxDsi = 3
    ByteBits = 2
    Fields <- MCFields
    Types = {1, 2}
    MaxMsg = 4
    Programs = {"a", "b"}
    Simulator = "sim"
    Owner <- MCOwner
    DataCounts = {1, 2}
    LevelBits = 3
    Levels = {7}
    Resolution = 3
    MaxOps = 2
    sector_addr <- MCSectors
    Bank = 2
    FlashSize = 8
    PageSize = 4
    Word = 2
    Bufs <- MCBufs
    MaxFlash = 3
    PoolSize = 4
    Period = 8
    Intervals = {3, 4}
    entries_nb = 4
    MaxTraces = 7
    romFiles <- MCRomFiles
    romIndex <- MCRomIndex
    romData <- MCRomData
    FileNames <- MCFileNames
    StreamsNb = 3
    Consoles = {0}
    RomStreams = 2
    ReadCounts = {2}
CHECK_DEADLOCK FALSE
INVARIANTS
    FilesAreExact
    MsgIsExact
    HostIsExact
    FlashIsExact
    PoolIsExact
    RateIsLimited
    TraceDamageIsLocal
    CounterIsNumberEnabled
    EnabledIsServed
    MaskHolds
    NeverOrphan
    SoftIsExact
    DrawingIsExact
    DmaIsExact
    NoSlotRace
    NeverHalts
    PollIsStable
    ClocksAreExact
    TimerIsExact
    DisplayIsExact
PROPERTIES
    ImplementsChannel
    Refreshed
