SPECIFICATION Spec
CHECK_DEADLOCK FALSE
CONSTANTS
    p1 = p1
    p2 = p2
    Proc = {p1}
    NoProc = NoProc
    CPUS = 1
    RgId = {r0, r1}
    Sizes = {1, 3}
    Offsets = {0, 2}
    Ops = {"write"}
    PAGING_PAGESZ = 2
    PAGING64_PAGESZ = 4
    PAGING_MAX_PGN = 4
    PAGING64_MAX_PGN = 4
    RAM_FRAMES = 4
    SWAP_FRAMES = 4
    Ranges <- NoPages
    REMAP = FALSE
    CALLS = {"inc", "swp", "in", "out"}
    MAX_GROWTH = 2
    KRNL_MM = p1
    SAME_PCB = FALSE
    AT_LOAD = {TRUE}
    FREES = FALSE
    FPN_SPAN = 4
    SWPTYP_SPAN = 2
    SWPOFF_SPAN = 4
    PATTERN_LOW = 5
SYMMETRY RgIdSymmetry
INVARIANTS
    OneOwner
    VariablesMapped
    FramesPartitioned
PROPERTIES
    NoByteLost
