SPECIFICATION RegionsSpec
CONSTANTS
    Kinds = {"level1"}
    MaxThreads = 3
    InitSize = 2
    Sizes <- GrowsLater
INVARIANT NoFreedAccess
