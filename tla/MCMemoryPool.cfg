SPECIFICATION Spec
CONSTANTS
    t1 = t1  t2 = t2
    PoolThreads <- TwoThreads
    Count = 2
    MaxChunks = 2
INVARIANTS
    ReleaseReturns
\* malloc's chunks run out of the bound, and a process that ended does nothing.
CHECK_DEADLOCK FALSE
