SPECIFICATION HSpec
CONSTANTS
    CPU = {c1, c2}
    NoProc = NoProc
    p1 = p1
    p2 = p2
    p3 = p3
    p4 = p4
    p5 = p5
    Proc = {p1, p2, p3, p4, p5}
    MAX_QUEUE_SIZE = 3
    MAX_PRIO = 3
    prio <- MCprio
    priority <- MCpriority
SYMMETRY Alike
INVARIANTS
    Exclusive
    NoneLost
    QuotaKept
    BoundedBypass
    LoopsAgree
PROPERTIES
    PoolSpec
