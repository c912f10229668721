CONSTANTS
  g = g
  a1 = a1
  a2 = a2
  b2 = b2
  bad = bad
  alien = alien
  c1 = c1
  c2 = c2
  m1 = m1
  m2 = m2
  None = None
  NullQc = NullQc
  Blocks <- MCBlocks
  Genesis = g
  Parent <- MCParent
  Height <- MCHeight
  ChainOf <- MCChainOf
  Keys <- MCKeys
  Values <- MCValues
  Qc <- MCQc
  QcQuorum <- MCQcQuorum
  Signers <- MCSigners
  Commitments = {c1, c2}
  Added <- MCAdded
  Removed <- MCRemoved
  BadBlocks = {bad}
  dkgInterval = 2
  dkgMiningWindowStart = 1
  dkgMiningWindowEnd = 1
  SNAPSHOT_LIST_PERIOD = 4
  LISTS_CACHE_SIZE = 1
  MaxBusy = 1
SPECIFICATION Spec
INVARIANTS TypeOK  
PROPERTY StoreSpec
