SPECIFICATION RegionsSpec
CONSTANTS
    Kinds = {"level1", "nested"}
    MaxThreads = 3
    InitSize = 2
    Sizes <- GrowsFirst
INVARIANTS IInv NoLostWakeup CountersAtRest
PROPERTY ImplementRegions
