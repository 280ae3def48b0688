CONSTANTS
    Addresses = {a1, a2, a3}
    NULL = NULL
    Size = 3
    MaxNew = 4
    USERBUF_SIZE = 9
    MaxLines = 4
    FileSizes = {1, 2, 3, 73, 74, 75, 127, 128, 129, 255, 256, 257, 300, 3275}
    Master <- Data
    HasFiles <- SomeHasFiles
    GetFiles <- SomeGetFiles
    MaxChunks = 6
    Peers = {p1, p2, p3}
SPECIFICATION PartsSpec
CHECK_DEADLOCK FALSE
INVARIANT FloodsAnswered
