SPECIFICATION FairSpec
CHECK_DEADLOCK FALSE
CONSTANTS
    Procs = {"p", "q"}
    Commands <- MCCommands
    List <- MCList
    Segments <- MCSegments
    HashName <- MCHashName
    NoFile = NoFile
    Partial = Partial
    Old = Old
    Dir = Dir
    MaxStarts = 2
INVARIANTS
    NoPartialTarget
    DoneMeansStored
    TempsCleaned
    ServesPersistedKey
PROPERTIES
    ExitsUnlessHeld
