SPECIFICATION FairProviderSpec
CHECK_DEADLOCK FALSE
CONSTANTS
    Hash <- SmallHash
    Collections <- SmallCollections
    Blobs <- SmallBlobs
    TotalBlobsSize <- SmallTotal
    Segments <- SmallSegments
    Stored <- SmallStored
    Tokens = {"token"}
    AuthToken = "token"
    MAX_DATA_SIZE = 4
    Conns = {"c1"}
    Streams <- TwoStreams
    ConnOf <- SameConn
    Window = 3
    MAX_CONNECTIONS = 1
    Lossy = TRUE
    Pool = 1
    FileEvents = {"missing"}
    Bursts <- GoodRequest
    MaxFrames = 3
    ClientMoves = {"close"}
PROPERTIES
    ShutdownEnds
    HandlersSettle
