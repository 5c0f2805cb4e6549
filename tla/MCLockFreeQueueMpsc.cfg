SPECIFICATION Spec
CONSTANTS
    p1 = p1  p2 = p2  p3 = p3  c1 = c1  c2 = c2
    Producers <- AllProducers
    Consumers <- TwoConsumers
    Setups <- TaskSetups
    Pushes = 1
    Nodes = 4
    MaxTag = 16
INVARIANTS
    NothingLost
