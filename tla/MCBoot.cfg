CONSTANTS
    PageSize = 4
    ByteBits = 4
    LongBits = 4
    Base = 16
    DmaFrames = 8
    NormalFrames = 40
    HighSizes = {4, 32}
    UserArgs <- MCUserArgs
    Pgdir <- MCPgdir
    Kernel <- MCKernel
    Initrds <- MCInitrds
    StructPage = 1
    CacheBytes = 2
    WaitHead = 1
    WaitPages = 8
    WaitMin = 2
    WaitMax = 4
    BatchPages = 2
    BatchMax = 12
    PerCpuBytes = 3
    Bucket = 1
    Megabyte = 4
    SectionFrames = 2
    PgdFrames = 4
    TestSizes = {1, 5, 7}
    TestReserves = {18, 60}
    TestCalls = 2
    Ratio <- MCRatio
    HighScale = 2
    HighMin = 1
    HighMax = 3
    MinFreeMin = 8
    MinFreeMax = 64
SPECIFICATION BootSpec
CHECK_DEADLOCK FALSE
INVARIANTS AllocSound LayoutBoots HandedOver ZonesSound
