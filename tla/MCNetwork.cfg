CONSTANTS
    N = 4
    Topologies <- Connected
    Flows <- SomeFlows
    QueueMax = 2
    Latency = 1
    Infinity = 65535
    Forever = Forever
    MaxSent = 2
    MaxLate = 1
SPECIFICATION LiveSpec
INVARIANTS
    TypeOK
    RoutesShortest
    NeverOversleeps
PROPERTIES
    ImplementsLinks
    Drains
CHECK_DEADLOCK FALSE
