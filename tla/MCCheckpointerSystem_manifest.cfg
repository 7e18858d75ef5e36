\* A download of an epoch that was built here.
SPECIFICATION Spec
CONSTANTS
  t1 = t1
  t2 = t2
  c1 = c1
  MaxU64 = 1000
  SummitEnabled = TRUE
  Tasks = {t1}
  Clients = {}
  MaxEpoch = 0
  MaxBlock = 4
  LastHeight <- MCLastHeight
  EpochBlocks = 3
  DelayBlocks = 1
  MaxSnapshots = 1
  MaxFaults = 0
  MaxCrashes = 0
  MaxRequests = 1
INVARIANTS ManifestCommitsToArchive
