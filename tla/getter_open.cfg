SPECIFICATION FairGetterSpec
CHECK_DEADLOCK FALSE
CONSTANTS
    Hash <- MCHash
    Collections = {"C"}
    Blobs <- MCBlobs
    TotalBlobsSize <- MCTotal
    Segments <- MCSegments
    Stored <- MCStored
    Tokens = {"token"}
    AuthToken = "token"
    MAX_DATA_SIZE = 4
    Conns = {"c1"}
    Streams = {"s1"}
    ConnOf <- MCConnOf
    Window = 2
    MAX_CONNECTIONS = 1
    Lossy = TRUE
    Want <- WantC
    TokenOf <- MCTokenOf
    LazyBlobs = {"a"}
    FailingCalls = {"connected", "oncollection", "onblob"}
    ProviderItems <- MCItems
INVARIANTS
    ReaderTypeOK
    DiligentComplete
    WithinBudget
PROPERTIES
    ImplementsFetch
    ReturnsWhenStreamEnds
