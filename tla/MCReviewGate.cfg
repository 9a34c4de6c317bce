CONSTANTS
  lint = lint
  pytest = pytest
  Members <- MCMembers
  Pytest = pytest
  Dependent <- MCDependent
  Lines <- MCLines
  Contents <- MCContents
  Heads <- MCHeads
  ChangedLines <- MCChangedLines
  FindingsOf <- MCFindings
  MaxEdits = 2
SPECIFICATION Spec
CHECK_DEADLOCK FALSE
INVARIANTS
  ChangedPassIsAboutOneTree
  FailuresAreNotForgotten
  FullPassHasNoBlocker
  ReportSurvivesReading
