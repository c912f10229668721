SPECIFICATION Spec
CONSTANTS
  MaxCoinInGroup = 5
  StartGroupSize = 2
  MintCounts = {0, 1, 2, 3}
  MaxHeight = 5
INVARIANTS TypeOK SameAsRebuilt GroupCountsItsCoins SpendsRecorded
PROPERTY CoverSetsStable
