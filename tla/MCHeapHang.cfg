SPECIFICATION FairSpec
CONSTANTS
    NPage = 1
    PageSize = 44
    BSize = 4
    Header = 5
    IdMod = 6
    Word = 4096
    Sizes = {4, 8, 12}
    MaxLost = 0
CHECK_DEADLOCK FALSE
PROPERTY KallocEnds
