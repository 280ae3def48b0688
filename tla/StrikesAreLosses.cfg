SPECIFICATION HistorySpec
CONSTANTS
    p1 = p1
    h1 = h1
    Peers <- OnePeer
    Hashes <- OneHash
    Owned <- OneHash
    Requests <- NoRequests
    NumPackets = 3
    SsthreshInit = 2
    DupLimit = 2
    DropLimit = 5
    MaxWindow = 3
    MaxQueue = 1
INVARIANTS
    StrikesAreLosses
