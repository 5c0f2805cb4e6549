SPECIFICATION MCSpec
CONSTANTS
    Executors = {x1, x2}
    NoExecutor = NoExecutor
    Frames = {1, 2, 3, 4}
    Requests = {r1, r2}
    MaxConns = 3
    MaxStops = 2
    AcceptTasks = 2
    NetThreads = 2
    Peers = {p1, p2, p3}
    Failure = Failure
    MaxFailures = 2
    Threads = {l1, l2, l3, l4}
    Calls = 2
    PoolThreads = {t1, t2}
    Count = 2
    MaxChunks = 2
    Holders <- MCHolders
    Objects = {1, 2, 3}
    SecondLength = 2
    DaySeconds = 2
    LastMonth = 40
    Limit = 16
    Decimal = 3
    Params <- MCParams
INVARIANTS
    ResumedOnce
    OnOwnExecutor
    Exclusion
    NoLostWakeup
    CountsExact
    BlocksOnce
    RefsExact
    DatesHold
PROPERTIES
    FramesEnd
    StopEnds
    Answered
    EveryoneAccepted
    WritersFirst
    EveryoneServed
    Saturates
\* Coroutines, requests and connections end; pools and holders run out of the bounds.
CHECK_DEADLOCK FALSE
