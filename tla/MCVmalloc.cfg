CONSTANTS
    Tasks = {t1, t2}
    Frames = {1, 2, 3, 4, 5}
    VmStart = 1
    VmEnd = 8
    Top = 20
    PerTable = 5
    Ptrs = 2
    Aligns = {1, 2}
    NumPhysPages = 8
    VmallocSizes = {1, 3}
    VmapSizes = {2, 8}
    MaxAreas = 2
    Space = 22
    Counts = {1, 5, 20}
    Lent = Lent
    Slab = Slab
    None = None
SPECIFICATION Spec
SYMMETRY Symmetry
CHECK_DEADLOCK FALSE
INVARIANTS TypeOK AreasPlaced ReadsExact PagesExact
