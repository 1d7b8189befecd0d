CONSTANTS
    Tasks = {t1, t2}
    Frames = {1, 2}
    VmStart = 1
    VmEnd = 6
    Top = 8
    PerTable = 8
    Ptrs = 2
    Aligns = {1, 2}
    NumPhysPages = 2
    VmallocSizes = {1}
    VmapSizes = {1}
    MaxAreas = 2
    Space = 10
    Counts = {1}
    Lent = Lent
    Slab = Slab
    None = None
SPECIFICATION Spec
CHECK_DEADLOCK FALSE
INVARIANT MappingsKept
