CONSTANTS
    Processes = {"p", "q"}
    Threads = {"p", "q"}
    ProcessOf <- Two
    VersionOf <- Own
    Digests = {"a", "b"}
    Units <- Sizes
    DirectoryLimit = 2
    TrimEach = 1
    Hour = 0
    MaxStores = 1
    MaxTime = 1
    MaxFaults = 1
SPECIFICATION Spec
INVARIANTS
    OpensWhole
    TempsAccounted
    DirectoryBounded
PROPERTY IsAStore
