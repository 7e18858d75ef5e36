\* A delay as long as an epoch: no checkpoint is ever made.
SPECIFICATION FairSpec
CONSTANTS
  MaxU64 = 1000
  SummitEnabled = FALSE
  Tasks <- MCTasks
  MaxEpoch = 3
  MaxBlock = 9
  LastHeight <- MCLastHeight
  EpochBlocks = 2
  DelayBlocks = 2
  MaxSnapshots = 1
  MaxFaults = 0
  MaxCrashes = 0
PROPERTIES DelayEndsInCheckpoint
