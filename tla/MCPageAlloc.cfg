CONSTANTS
    Contexts = {t1, t2}
    Cpus = {c1, c2}
    ZoneStart = 2
    ZoneEnd = 8
    MaxOrder = 3
    Size <- MCSize
    Reserved = {2, 3}
    BootOrder = 1
    Batch = 1
    MaxRefs = 2
    Shared = {6}
    None = None
SPECIFICATION FairSpec
INVARIANTS TypeOK Partitioned MarksAgree CountersAgree ReadsHold
PROPERTIES Owned FailsOnlyWhenFragmented CallsReturn
