\* Two downloads at a time.
SPECIFICATION FairSpec
CONSTANTS
  t1 = t1
  t2 = t2
  c1 = c1
  MaxU64 = 1000
  SummitEnabled = TRUE
  Tasks = {t1, t2}
  Clients = {}
  MaxEpoch = 0
  MaxBlock = 4
  LastHeight <- MCLastHeight
  EpochBlocks = 3
  DelayBlocks = 1
  MaxSnapshots = 1
  MaxFaults = 0
  MaxCrashes = 1
  MaxRequests = 2
INVARIANTS ServedArchiveComplete
PROPERTIES AppearsWithManifest EpochEventuallyArchived ShutdownCompletes
