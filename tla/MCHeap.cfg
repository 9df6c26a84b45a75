SPECIFICATION Spec
CONSTANTS
    NPage = 2
    PageSize = 40
    BSize = 4
    Header = 5
    IdMod = 6
    Word = 4096
    Sizes = {0, 5, 9}
    MaxLost = 0
CHECK_DEADLOCK FALSE
INVARIANTS NoOverlap MapExact RunsDistinct UsedExact
