SPECIFICATION FairSpec
CONSTANTS
    c1 = c1
    a1 = a1
    out = out
    Code <- MCCode
    Artifacts <- MCArtifacts
    Output = out
    Modes = {"repository", "intelligent", "bridge"}
    MaxEdits = 3
    Faults = TRUE
INVARIANTS
    NoSilentLoss
PROPERTIES
    QueuedIsSynced
    ComesToRest
