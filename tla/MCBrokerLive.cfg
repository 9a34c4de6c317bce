SPECIFICATION FairSpec
CONSTANTS
    p1 = p1
    p2 = p2
    p3 = p3
    NoPid = NoPid
    MaxWorkers = 2
    MaxHandle = 3
    Pids <- MCPids
    ReusedPids <- MCReused
    MultiRoot = FALSE
PROPERTIES
    ControllerLossEnds
    WaitEnds
    AnswersRequests
