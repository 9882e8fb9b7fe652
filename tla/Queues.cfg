SPECIFICATION QueuesSpec
CONSTANTS
    p1 = p1
    a = a
    b = b
    Process = {p1, p2}
    Item = {a, b}
    NoItem = "NULL"
    NumSlots = 3
    Many = {p1, p2, p3}
    GrowSlots = 1
    FifoSlots = 3
    FifoGrowSlots = 2
    MaxFifoSlots = 4
    MaxItems = 3
    LockfreeSlots = 3
    ManySlots = 2
    MaxTail = 4
    MaxManyTail = 2
    PoolSlots = 2
    ChunkSize = 3
    MaxTasks = 4
INVARIANTS
    IInv NoOverflow LinkedBothWays OnePlace
PROPERTIES
    ImplementsDeque OthersImplementDeque NoneForgotten
