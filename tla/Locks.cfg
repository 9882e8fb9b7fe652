SPECIFICATION LocksSpec
CONSTANTS
    Thread = {p1, p2, p3}
    NoThread = none
    MaxDepth = 2
    Image = {p1, p2, p3}
    NoImage = none
INVARIANTS
    WaitMeansZero NestedStaysOwned OneInside
    MutualExclusion EmptyMeansFree NoStrayWrite WholeLink InOrder
PROPERTIES ImplementsReentrantLock Granting NoneStuck
