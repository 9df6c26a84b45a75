SPECIFICATION Spec
CONSTANTS
    Dir <- MCDir
    File <- MCFile
    Root = 20
    Entries <- MCEntries
    PathTable <- MCPathTable
    Tight = {}
    Length <- MCLength
    Block = 2
    Addr = {a1, a2, a3, a4, a5}
    NULL = NULL
CHECK_DEADLOCK FALSE
INVARIANT ParentRecreates
