CONSTANTS
  o1 = o1
  o2 = o2
  w1 = w1
  w2 = w2
  w3 = w3
  k1 = k1
  k2 = k2
  k3 = k3
  a1 = a1
  a2 = a2
  None = None
  ProTxs = {1, 2, 3}
  Collateral <- MCCollateral
  Internal = {2}
  Blacklisted = {}
  Owner <- MCOwner
  FirstKey <- MCFirstKey
  FirstAddr <- MCFirstAddr
  Keys = {k1, k2, k3}
  Addrs = {a1, a2}
  Blocks <- MCThree
  nMinimumConfirmations = 1
  MinPenalty = 5
  SNAPSHOT_LIST_PERIOD = 3
  MaxHeight = 4
SPECIFICATION Spec
INVARIANT AddedIdsExpected
CHECK_DEADLOCK FALSE
