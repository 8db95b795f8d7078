SPECIFICATION Spec
CHECK_DEADLOCK FALSE
CONSTANTS
    Hash <- MCHash
    Collections = {"C"}
    Blobs <- MCBlobs
    TotalBlobsSize <- MCTotal
    Segments <- PairSegments
    Stored <- MCStored
    Tokens = {"token", "other"}
    AuthToken = "token"
    MAX_DATA_SIZE = 3
    Conns = {"c1", "c2"}
    Streams = {"s1", "s2"}
    ConnOf <- OwnConn
    Window = 3
    MAX_CONNECTIONS = 2
    Lossy = FALSE
    Pool = 1
    FileEvents = {}
    Want <- WantCandA
    TokenOf <- RightToken
    LazyBlobs = {"a", "b"}
    FailingCalls = {}
INVARIANTS
    OkImpliesComplete
    FailureHasCause
