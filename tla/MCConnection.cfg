SPECIFICATION FairSpec
CONSTANTS
    Sides <- BothSides
    MaxData = 2
INVARIANTS
    SocketSafe
    CoroutineOnce
    ClosedOnce
PROPERTIES
    ConnectionReclaimed
    ConnectedSessionReclaimed
\* A connection that is closed and reclaimed does nothing any more.
CHECK_DEADLOCK FALSE
