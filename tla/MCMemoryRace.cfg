SPECIFICATION Spec
CHECK_DEADLOCK FALSE
CONSTANTS
    p1 = p1
    p2 = p2
    Proc = {p1, p2}
    NoProc = NoProc
    CPUS = 2
    RgId = {r0}
    Sizes = {3}
    Offsets = {0, 2}
    Ops = {"read", "write"}
    PAGING_PAGESZ = 2
    PAGING64_PAGESZ = 4
    PAGING_MAX_PGN = 2
    PAGING64_MAX_PGN = 2
    RAM_FRAMES = 4
    SWAP_FRAMES = 4
    Ranges <- EachPage
    REMAP = FALSE
    CALLS = {}
    MAX_GROWTH = 1
    KRNL_MM = NoProc
    SAME_PCB = TRUE
    AT_LOAD = {FALSE}
    FREES = FALSE
    FPN_SPAN = 4
    SWPTYP_SPAN = 2
    SWPOFF_SPAN = 4
    PATTERN_LOW = 5
INVARIANTS
    FramesPartitioned
