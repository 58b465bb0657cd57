SPECIFICATION MachineSpec
CONSTANTS
    num_processes = 3
    Proc = {1, 2, 3}
    start_time <- MCstart
    prio <- MCprio
    priority <- MCpriority
    Size <- MCsize
    Opcodes <- MCopcodes
    time_slot = 1
    CPU = {c1, c2}
    Loader = Loader
    NoProc = NoProc
    MAX_PRIO = 2
    MAX_QUEUE_SIZE = 3
    Horizon = 5
    RgId = {r0}
    Sizes = {1}
    Offsets = {0}
    Ops = {"write"}
    Ranges <- MCranges
    REMAP = FALSE
    MAX_GROWTH = 4
    PAGING_PAGESZ = 2
    PAGING64_PAGESZ = 4
    PAGING_MAX_PGN = 2
    PAGING64_MAX_PGN = 2
    RAM_FRAMES = 3
    SWAP_FRAMES = 4
    KRNL_MM = NoProc
    SAME_PCB = TRUE
    FREES = FALSE
    FPN_SPAN = 4
    SWPTYP_SPAN = 2
    SWPOFF_SPAN = 4
    PATTERN_LOW = 5
INVARIANTS
    TypeOKMachine
    AccessWithinSlot
PROPERTIES
    ImplementsMemory
    ImplementsVM
    OwnMemoryOnly
    AllServed
