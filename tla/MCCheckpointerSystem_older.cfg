\* A client that lists and fetches while one epoch after another is built and evicted,
\* and an older one than it was told of may be downloaded next to them.
SPECIFICATION Spec
CONSTANTS
  t1 = t1
  t2 = t2
  c1 = c1
  MaxU64 = 1000
  SummitEnabled = TRUE
  Tasks = {t1}
  Clients = {c1}
  MaxEpoch = 2
  MaxBlock = 4
  LastHeight <- MCShortLastHeight
  EpochBlocks = 2
  DelayBlocks = 0
  MaxSnapshots = 1
  MaxFaults = 0
  MaxCrashes = 0
  MaxRequests = 1
INVARIANTS LatestCoversRecorded AnnouncedStaysAvailable
