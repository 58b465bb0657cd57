SPECIFICATION BothSpec
CONSTANTS
    FPN_SPAN = 4
    SWPTYP_SPAN = 2
    SWPOFF_SPAN = 4
    PATTERN_LOW = 5
    LEVELS = 3
    WIDTH = 2
    SPAN <- MCSpan
    Page = {0, 1, 6}
    Fpn = {0, 3}
    SwpTyp = {0, 1}
    Swp = {0, 3}
INVARIANTS
    TypeOK
    TreeClosed
    SamePlace
PROPERTIES
    MapSpec
