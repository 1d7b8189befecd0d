CONSTANTS
    Tasks = {t1, t2}
    Pages = {p1, p2, p3}
    LastPkmap = 2
    None = None
SPECIFICATION TlbSpec
INVARIANTS ReadsOwnPage
