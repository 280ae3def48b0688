SPECIFICATION Spec
CONSTANTS
    A = A
    B = B
    h1 = h1
    h2 = h2
    NoPeer = NoPeer
    Hole = Hole
    Hashes <- TwoHashes
    GetFiles <- TwoChunks
    NumPackets = 1
    MaxTimeouts = 2
    MaxConn = 1
    MaxGets = 1
    MaxQueue = 0
    ConnBound = 1
    SsthreshInit = 2
    DupLimit = 2
    DropLimit = 5
    MaxWindow = 8
    Capacity = 4
    OwnedA <- FirstOnly
    OwnedB <- SecondOnly
    MaxRestarts = 0
    MaxLosses = 0
    Timely = TRUE
    Prompt = FALSE
CHECK_DEADLOCK FALSE
INVARIANTS
    FloodFindsOwners
