SPECIFICATION Spec
CONSTANTS
    Dir <- MCDir
    File <- MCFile
    Root = 20
    Entries <- MCEntries
    PathTable <- MCPathTable
    Tight = {30}
    Length <- MCLength
    Block = 2
    Addr = {a1, a2, a3, a4, a5, a6}
    NULL = NULL
SYMMETRY Sym
CHECK_DEADLOCK FALSE
INVARIANTS CurrentIsPath NoDangling CatExact LsExact
