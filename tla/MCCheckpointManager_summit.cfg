\* Summit mode, three epochs, retention of one snapshot; a ready epoch gets its own.
SPECIFICATION FairSpec
CONSTANTS
  MaxU64 = 1000
  SummitEnabled = TRUE
  Tasks <- MCTasks
  MaxEpoch = 2
  MaxBlock = 8
  LastHeight <- MCLastHeight
  EpochBlocks = 3
  DelayBlocks = 1
  MaxSnapshots = 1
  MaxFaults = 1
  MaxCrashes = 1
INVARIANTS TypeOK RecordedSnapshotIntact ServedArchiveComplete RetentionBound LeftoverBound CopyCoversTarget
  Uncontended
PROPERTIES StateNeverRegresses KeepsCatalogPromise EpochEventuallyCheckpointed
