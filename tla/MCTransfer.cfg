SPECIFICATION LiveSpec
CONSTANTS
    A = A
    B = B
    h1 = h1
    h2 = h2
    NoPeer = NoPeer
    Hole = Hole
    Hashes <- OneHash
    GetFiles <- OneChunk
    NumPackets = 4
    MaxTimeouts = 2
    MaxConn = 1
    MaxGets = 1
    MaxQueue = 0
    ConnBound = 1
    SsthreshInit = 2
    DupLimit = 2
    DropLimit = 1
    MaxWindow = 6
    Capacity = 1
    OwnedA <- OwnedNone
    OwnedB <- OneHash
    MaxRestarts = 1
    MaxLosses = 2
    Timely = TRUE
    Prompt = TRUE
CHECK_DEADLOCK FALSE
INVARIANTS
    TypeOK
    DoneMeansReceived
PROPERTIES
    GetCompletes
