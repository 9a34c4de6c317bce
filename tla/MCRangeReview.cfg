CONSTANTS
  lint = lint
  pytest = pytest
  Members <- MCMembers
  Pytest = pytest
  MaxCells = 49
  Cases <- MCCases
  Options <- MCOptions
  Faults <- MCFaults
  Control <- MCControl
  Malformed = "!"
  PythonPaths <- MCPaths
SPECIFICATION Spec
CHECK_DEADLOCK FALSE
INVARIANTS
  ContinuityIsExact
  NoFindingVanishes
  UnchangedIsBacked
  RangePassIsClean
  ControlsAreJudged
  UncertaintyIsKept
