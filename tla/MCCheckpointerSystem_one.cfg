\* One download at a time, with a crash.
SPECIFICATION Spec
CONSTANTS
  t1 = t1
  t2 = t2
  c1 = c1
  MaxU64 = 1000
  SummitEnabled = TRUE
  Tasks = {t1}
  Clients = {}
  MaxEpoch = 1
  MaxBlock = 6
  LastHeight <- MCLastHeight
  EpochBlocks = 3
  DelayBlocks = 1
  MaxSnapshots = 1
  MaxFaults = 0
  MaxCrashes = 1
  MaxRequests = 2
INVARIANTS ServedArchiveComplete DownloadsAreWhole RecordedNotRebuilt
PROPERTIES StateNeverRegresses AppearsWithManifest
