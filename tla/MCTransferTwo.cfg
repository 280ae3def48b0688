SPECIFICATION LiveSpec
CONSTANTS
    A = A
    B = B
    h1 = h1
    h2 = h2
    NoPeer = NoPeer
    Hole = Hole
    Hashes <- TwoHashes
    GetFiles <- TwoChunks
    NumPackets = 6
    MaxTimeouts = 2
    MaxConn = 1
    MaxGets = 1
    MaxQueue = 0
    ConnBound = 1
    SsthreshInit = 2
    DupLimit = 2
    DropLimit = 5
    MaxWindow = 8
    Capacity = 8
    OwnedA <- OwnedNone
    OwnedB <- TwoHashes
    MaxRestarts = 0
    MaxLosses = 1
    Timely = TRUE
    Prompt = TRUE
CHECK_DEADLOCK FALSE
INVARIANTS
    DoneMeansReceived
PROPERTIES
    GetsAreServed
    GetCompletes
