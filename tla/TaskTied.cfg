SPECIFICATION Spec
CONSTANTS
    t1 = t1
    t2 = t2
    Thread = {t1, t2}
    Master = t1
    MaxTasks = 3
    QueueCap = 2
    NumBarriers = 1
    Kinds <- TiedKinds
    GetEnd = "tail"
    StealEnd = "head"
INVARIANTS
    TypeOK
    CountersExact
    OnePlace
    TiedScheduling
    BlockingFrames
PROPERTIES
    TaskwaitComplete ImplementsRegion
