SPECIFICATION FairSpec
CONSTANTS
    t1 = t1
    t2 = t2
    Thread = {t1, t2}
    Master = t1
    MaxTasks = 2
    QueueCap = 1
    NumBarriers = 1
    Kinds <- AllKinds
    GetEnd = "head"
    StealEnd = "head"
PROPERTIES
    RegionEnds
