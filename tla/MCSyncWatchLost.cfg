SPECIFICATION FairSpec
CONSTANTS
    c1 = c1
    a1 = a1
    out = out
    Code <- MCCode
    Artifacts <- MCArtifacts
    Output = out
    Modes = {"repository"}
    MaxEdits = 2
    Faults = FALSE
PROPERTY
    LastEditSynced
