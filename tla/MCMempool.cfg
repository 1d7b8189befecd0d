CONSTANTS
    Callers = {t1, t2}
    Resizers = {r1, r2}
    Created = {1, 4}
    Sizes = {1, 2, 3}
    MaxHeld = 1
SPECIFICATION FairSpec
CHECK_DEADLOCK FALSE
INVARIANTS TypeOK WithinArray ReserveKept NoLostWakeup
PROPERTIES SleepersWake
