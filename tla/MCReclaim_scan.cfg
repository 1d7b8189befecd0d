CONSTANTS
    Tasks = {t1}
    Kswapd = Kswapd
    NZones = 2
    MaxOrder = 1
    Size <- Pow2
    PagesMin <- Marks
    LowmemReserve <- Reserve
    Free0 <- FewBlocks
    Lru0 <- EmptyLru
    Requests <- Some
    SwapClusterMax = 32
    DefPriority = 12
SPECIFICATION FairSpec
PROPERTIES ScanEnds
