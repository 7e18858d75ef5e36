\* Fixed-interval mode, epochs of two blocks, retention of two snapshots.
SPECIFICATION FairSpec
CONSTANTS
  MaxU64 = 1000
  SummitEnabled = FALSE
  Tasks <- MCTasks
  MaxEpoch = 3
  MaxBlock = 9
  LastHeight <- MCLastHeight
  EpochBlocks = 2
  DelayBlocks = 1
  MaxSnapshots = 2
  MaxFaults = 1
  MaxCrashes = 1
INVARIANTS RecordedSnapshotIntact RetentionBound CopyCoversTarget
PROPERTIES StateNeverRegresses KeepsCatalogPromise EpochEventuallyCheckpointed
