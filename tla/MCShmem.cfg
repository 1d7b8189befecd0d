CONSTANTS
    Tasks = {t1, t2}
    Inos = {1, 2, 3, 4, 5}
    Names = {1, 2}
    Limits = {0, 3}
    Blocks = {0}
    TotalRam = 12
    TotalHigh = 7
    Word = 8
    MaxGone = 2
    None = None
SPECIFICATION Spec
SYMMETRY Symmetry
CHECK_DEADLOCK FALSE
INVARIANTS DirectoriesSound InodesAccounted
