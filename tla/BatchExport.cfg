CONSTANTS
    count = 3
    workers = 3
    Size <- LargeSecond
    Large = 4
    Huge = 8
    Broken = {0}
    DiskFails = TRUE
    FlushAt = 2
    Second = 1
    MaxElapsed = 1
SPECIFICATION FairExportSpec
INVARIANTS
    MemoryBound
    OneLineEach
    ZeroMeansAll
PROPERTIES
    IsAPool
    Exits
