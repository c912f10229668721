SPECIFICATION Spec
CONSTANTS
  MaxCoinInGroup = 5
  StartGroupSize = 2
  MintCounts = {0, 1, 2, 3}
  MaxHeight = 4
INVARIANT DisconnectNeverAborts
