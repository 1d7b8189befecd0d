CONSTANTS
    Tasks = {t1, t2, t3, t4}
    Pages = {p1, p2, p3}
    LastPkmap = 2
    None = None
SPECIFICATION FairSpec
INVARIANTS MappingHolds CountsMatch NoLostWakeup
PROPERTIES SleepersWake
