CONSTANTS
    Tasks = {t1, t2}
    Scanner = Scanner
    p1 = p1
    p2 = p2
    z1 = z1
    z2 = z2
    Pages = {p1, p2}
    Zones = {z1, z2}
    ZoneMaps <- SmallMaps
    VecSize = 2
    NrToScan = 2
    MaxRefs = 1
    None = None
SPECIFICATION FairSpec
INVARIANTS TypeOK RefsExact ListsAgree FreedClean
PROPERTIES Freed
