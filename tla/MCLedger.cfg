SPECIFICATION Spec
CONSTANTS
  c1 = c1
  c2 = c2
  E501 = E501
  Rules = {E501}
  Clients <- MCClients
  Configs <- MCConfigs
  Histories <- MCHistories
  Reports <- MCReports
  MaxRuns = 3
  MaxResets = 1
SYMMETRY MCSymmetry
INVARIANT TypeOK
INVARIANT LocalLedgerAddsUp
INVARIANT SnapshotsBacked
INVARIANT RemoteSuccessIsComplete
