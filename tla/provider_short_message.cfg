SPECIFICATION ProviderSpec
CHECK_DEADLOCK FALSE
CONSTANTS
    Hash <- MCHash
    Collections <- MCCollections
    Blobs <- MCBlobs
    TotalBlobsSize <- MCTotal
    Segments <- MCSegments
    Stored <- MCStored
    Tokens <- MCTokens
    AuthToken = "token"
    MAX_DATA_SIZE = 4
    Conns = {"c1"}
    Streams <- OneStream
    ConnOf <- SameConn
    Window = 3
    MAX_CONNECTIONS = 1
    Lossy = FALSE
    Pool = 1
    FileEvents = {}
    Bursts <- OneByOne
    MaxFrames = 3
    ClientMoves = {"read", "stop", "close"}
INVARIANT HandlersReport
