SPECIFICATION LiveSpec
CONSTANTS
    p1 = p1
    p2 = p2
    h1 = h1
    h2 = h2
    NoPeer = NoPeer
    Hole = Hole
    Peers <- TwoPeers
    PeerList <- TwoPeerList
    Hashes <- TwoHashes
    Owned <- OwnedNone
    GetFiles <- AllFiles
    NumPackets = 2
    MaxTimeouts = 2
    MaxConn = 1
    IoResults <- IoMayFail
    MaxGets = 2
    MaxQueue = 0
    ConnBound = 2
CHECK_DEADLOCK FALSE
INVARIANTS
    TypeOK
    LinksConsistent
    FetchesWhatIsMissing
    CountsAgree
    AcksCountThePrefix
PROPERTIES
    GotMeansAll
    FetchKeepsGround
    ImplementsFetch
    SilentPeersReleased
