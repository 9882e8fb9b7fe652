SPECIFICATION Spec
CONSTANTS
    MaxThreads = 3
    InitSizes = {3}
    ForkSizes = {2, 3}
    SetSizes = {}
    Episodes = 1
    PerThreadRows = TRUE
PROPERTY NoEarlyExit
