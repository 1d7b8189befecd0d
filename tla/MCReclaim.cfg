CONSTANTS
    Tasks = {t1, t2}
    Kswapd = Kswapd
    NZones = 2
    MaxOrder = 1
    Size <- Pow2
    PagesMin <- Marks
    LowmemReserve <- Reserve
    Free0 <- AnyBlocks
    Lru0 <- EmptyLru
    Requests <- Some
    SwapClusterMax = 2
    DefPriority = 1
SPECIFICATION Spec
INVARIANTS TypeOK FloorKept NoSleepOnOrder
SYMMETRY Symmetry
