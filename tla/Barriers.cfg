SPECIFICATION Spec
CONSTANTS
    MaxThreads = 6
    Episodes = 2
    CoarrayEpisodes = 4
    InitSizes <- RunInitSizes
    ForkSizes <- RunForkSizes
    SetSizes <- RunSetSizes
INVARIANTS CountIsWaiters NoSignalOverwritten ClosedBetweenRegions NoReportLost
PROPERTY ImplementsTeamBarrier
