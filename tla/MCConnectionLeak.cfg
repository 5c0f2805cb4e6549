SPECIFICATION FairSpec
CONSTANTS
    Sides <- Accepting
    MaxData = 2
PROPERTIES
    SessionReclaimed
\* A connection that is closed and reclaimed does nothing any more.
CHECK_DEADLOCK FALSE
