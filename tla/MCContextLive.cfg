SPECIFICATION FairSpec
CONSTANTS
    w1 = w1  w2 = w2  p1 = p1  o1 = o1  o2 = o2
    q1 = q1  q2 = q2  q3 = q3  q4 = q4  q5 = q5  q6 = q6
    None = None
    Posters <- OnePoster
    Workers <- TwoWorkers
    Objects <- OneObject
    Queues <- FourQueues
    Slots = 1
    MaxPosts = 2
    MaxThrows = 0
    Stops = TRUE
PROPERTIES
    EntryServed
    ShutdownCompletes
\* After ~Context nothing happens any more.
CHECK_DEADLOCK FALSE
