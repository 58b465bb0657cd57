SPECIFICATION FairSpec
CONSTANTS
    num_processes = 4
    Proc = {1, 2, 3, 4}
    start_time <- MCstart4
    prio <- MCprio4
    priority <- MCpriority4
    Size <- MCsize4
    time_slot = 2
    CPU = {c1, c2}
    Loader = Loader
    NoProc = NoProc
    MAX_PRIO = 2
    MAX_QUEUE_SIZE = 2
    Horizon = 9
INVARIANTS
    TypeOK
    StopsAfterLast
PROPERTIES
    OncePerSlot
    FullQuantum
    LoadedOnTime
    Served
