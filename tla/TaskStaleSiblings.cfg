SPECIFICATION Spec
CONSTANTS
    t1 = t1
    t2 = t2
    Thread = {t1, t2}
    Master = t1
    MaxTasks = 3
    QueueCap = 1
    NumBarriers = 0
    Kinds <- PlainTied
    GetEnd = "tail"
    StealEnd = "head"
INVARIANTS
    CountedParentLive
