SPECIFICATION FairSpec
CONSTANTS
    Proc = {p1, p2, p3, p4}
    NULL = NULL
    Delay = 2
    MaxWaits = 2
INVARIANTS OneNodeOneList NoProcessLost MutexExclusion OneClockWaiter BlockedWhere
PROPERTIES NoLostMutexWakeup LockReleased WaiterWoken SleeperWoken IdleEnds
