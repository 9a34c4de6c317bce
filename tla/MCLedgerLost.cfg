SPECIFICATION Spec
CONSTANTS
  c1 = c1
  c2 = c2
  E501 = E501
  Rules = {E501}
  Clients <- MCClients
  Configs <- MCLocalOnly
  Histories <- MCNoHistory
  Reports <- MCReports
  MaxRuns = 2
  MaxResets = 0
SYMMETRY MCSymmetry
INVARIANT RecordedRunsKept
