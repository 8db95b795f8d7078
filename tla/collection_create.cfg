SPECIFICATION FairSpec
CHECK_DEADLOCK FALSE
CONSTANTS
    Path = {"p", "q"}
    FileName <- MCFileName
    Name = {"empty", "short", "long", "longer"}
    NameLen <- MCNameLen
    NoName = NoName
    SourceLists <- MCSourceLists
    EXTRA = 7
    Contents <- MCContents
    NoFile = NoFile
    MaxWrites = 2
INVARIANTS
    CollectionServable
    PathHoldsBlob
    HashedSizeIsOpenedSize
    FilesThatFit
PROPERTIES
    CreationReturns
