SPECIFICATION Spec
CONSTANTS
    NPage = 1
    PageSize = 32
    BSize = 4
    Header = 5
    IdMod = 6
    Word = 4096
    Sizes = {4, 8}
    MaxLost = 0
CHECK_DEADLOCK FALSE
INVARIANT OutOfMemoryIsTrue
