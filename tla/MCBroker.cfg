SPECIFICATION Spec
CONSTANTS
    p1 = p1
    p2 = p2
    p3 = p3
    NoPid = NoPid
    MaxWorkers = 3
    MaxHandle = 4
    Pids <- MCPids
    ReusedPids = {}
    MultiRoot = FALSE
SYMMETRY MCSymmetry
INVARIANTS
    TypeOK
    UniqueHandles
    ChildrenHaveParents
    NoLeakedProcess
    RecordsBacked
    ExitLeavesNoWorker
PROPERTY
    ImplementsService
