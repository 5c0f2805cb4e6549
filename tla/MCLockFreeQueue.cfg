SPECIFICATION FairSpec
CONSTANTS
    p1 = p1  p2 = p2  p3 = p3  c1 = c1  c2 = c2
    Producers <- AllProducers
    Consumers <- TwoConsumers
    Setups <- SafeSetups
    Pushes = 3
    Nodes = 4
    MaxTag = 16
INVARIANTS
    NothingLost
    PoolDisjoint
    EmptyHonest
    SizeSafe
PROPERTIES
    Implements
\* Producers without a consumer stop after their last Push.
CHECK_DEADLOCK FALSE
