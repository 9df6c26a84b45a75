SPECIFICATION Spec
CONSTANTS
    Node = {n1, n2, n3}
    List = {l1, l2}
    NULL = NULL
    Priority <- MCPriority
    ScanLimit = 0
INVARIANTS LinksConsistent WellShaped
PROPERTY AbsSpec
