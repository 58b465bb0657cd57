SPECIFICATION Spec
CONSTANTS
    num_processes = 1
    Proc = {1}
    start_time <- MCstart1
    prio <- MCprio1
    priority <- MCpriority1
    Size <- MCsize1
    time_slot = 2
    CPU = {c1}
    Loader = Loader
    NoProc = NoProc
    MAX_PRIO = 2
    MAX_QUEUE_SIZE = 2
    Horizon = 2
INVARIANTS
    NoneLeftBehind
