SPECIFICATION Spec
CHECK_DEADLOCK FALSE
CONSTANTS
    Hash <- MCHash
    Collections = {"C"}
    Blobs <- SmallBlobs
    TotalBlobsSize <- SmallTotal
    Segments <- SmallSegments
    Stored <- MCStored
    Tokens = {"token", "other"}
    AuthToken = "token"
    MAX_DATA_SIZE = 3
    Conns = {"c1"}
    Streams = {"s1"}
    ConnOf <- OneConn
    Window = 2
    MAX_CONNECTIONS = 1
    Lossy = TRUE
    Pool = 1
    FileEvents = {"truncated"}
    Want <- WantC
    TokenOf <- RightToken
    LazyBlobs = {"a"}
    FailingCalls = {"onblob"}
INVARIANT OkImpliesComplete
