SPECIFICATION FairSpec
CONSTANTS
    p1 = p1
    p2 = p2
    w1 = w1
    w2 = w2
    Posters <- MCPosters
    Workers <- MCWorkers
    Budget <- MCSmallBudget
    MaxThrows = 1
PROPERTIES
    EveryPostRuns
\* Every budget spent and every task run: the system rests.
CHECK_DEADLOCK FALSE
