\* Summit leaves a chain and comes back to it while an attempt runs.
SPECIFICATION Spec
CONSTANTS
  MaxU64 = 1000
  c1 = c1
  c2 = c2
  None = None
  Chains <- MCChains
  MaxEpoch = 3
  LastHeight <- MCLastHeight
  MaxSwitches = 2
  MaxAborts = 0
PROPERTIES CacheOfAnotherChainNotReused
