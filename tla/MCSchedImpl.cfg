SPECIFICATION Spec
CONSTANTS
    Proc = {p1, p2, p3}
    NULL = NULL
    Delay = 2
    MaxWaits = 2
    RL = RL
    Q = Q
    WQ = WQ
INVARIANT ListsSound
PROPERTY AbsSpec
