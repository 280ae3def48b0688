SPECIFICATION LiveSpec
CONSTANTS
    p1 = p1
    p2 = p2
    h1 = h1
    h2 = h2
    Peers <- TwoPeers
    Hashes <- OneHash
    Owned <- OwnedNone
    Requests <- OneRequest
    NumPackets = 3
    SsthreshInit = 2
    DupLimit = 2
    DropLimit = 1
    MaxWindow = 3
    MaxQueue = 1
INVARIANTS
    TypeOK
    TimerCovers
    NeverSentIsFresh
    RepeatsHandled
    InFlightWithinWindow
    SlowStartBelowThreshold
PROPERTIES
    QuitsForAReason
    ProgressIsKept
    UploadsEnd
