\* Two chains, four epochs, one change of chain on each side, one abort.
SPECIFICATION FairSpec
CONSTANTS
  MaxU64 = 1000
  c1 = c1
  c2 = c2
  None = None
  Chains <- MCChains
  MaxEpoch = 3
  LastHeight <- MCLastHeight
  MaxSwitches = 1
  MaxAborts = 1
INVARIANTS TypeOK BundleIsOfOneChain
PROPERTIES BundlesGetMade
