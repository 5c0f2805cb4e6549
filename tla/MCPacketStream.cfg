SPECIFICATION FairSpec
CONSTANTS
    b1 = b1  b2 = b2  b3 = b3  NoBlock = NoBlock
    Blocks <- ThreeBlocks
    HeaderSize = 2
    PacketSize = 3
    Factor = 2
    Messages <- Requests
    MaxPackets = 4
INVARIANTS
    InOrder
    ReadFits
PROPERTIES
    Delivered
\* A closed connection rests, and so does one with nothing left to send.
CHECK_DEADLOCK FALSE
