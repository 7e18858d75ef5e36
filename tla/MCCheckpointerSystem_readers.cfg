\* A client that lists and fetches while snapshots come and go, and a shutdown.
SPECIFICATION Spec
CONSTANTS
  t1 = t1
  t2 = t2
  c1 = c1
  MaxU64 = 1000
  SummitEnabled = TRUE
  Tasks = {t1}
  Clients = {c1}
  MaxEpoch = 1
  MaxBlock = 3
  LastHeight <- MCShortLastHeight
  EpochBlocks = 2
  DelayBlocks = 0
  MaxSnapshots = 1
  MaxFaults = 0
  MaxCrashes = 1
  MaxRequests = 1
INVARIANTS TypeOK StreamIsWhole LatestCoversRecorded AnnouncedStaysAvailable
