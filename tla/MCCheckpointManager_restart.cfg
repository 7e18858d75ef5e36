\* A crash while the state file is written.
SPECIFICATION Spec
CONSTANTS
  MaxU64 = 1000
  SummitEnabled = TRUE
  Tasks <- MCTasks
  MaxEpoch = 1
  MaxBlock = 6
  LastHeight <- MCLastHeight
  EpochBlocks = 3
  DelayBlocks = 1
  MaxSnapshots = 1
  MaxFaults = 0
  MaxCrashes = 1
INVARIANTS RestartLoadsState
