SPECIFICATION FairSpec
CONSTANTS
    p1 = p1
    p2 = p2
    p3 = p3
    f1 = f1
    f2 = f2
    Procs <- MCProcs
    Offline <- MCOffline
    Files <- MCFiles
    MaxFaults = 3
INVARIANTS
    PublishedIsComplete
    NoCollision
    OrphansFromFaults
PROPERTY
    AcquireEnds
