CONSTANTS
    Contexts = {t1, t2, t3}
    Cpus = {c1, c2}
    Slabs = {s1, s2, s3}
    Num = 2
    Limit = 3
    Batch = 2
    RefillLimit = 1
    SharedLimit = 1
    FreeLimit = 3
    None = None
SPECIFICATION Spec
SYMMETRY Symmetry
CHECK_DEADLOCK FALSE
INVARIANTS TypeOK OnePlace Accounting
PROPERTIES DestroyEmpties Owned
