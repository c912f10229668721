SPECIFICATION Spec
CONSTANTS
  G = G  A1 = A1  A2 = A2  B1 = B1  B2 = B2  X = X  Y = Y  Z = Z  s = s  t = t  None = None
  Blocks = {G, A1, A2, B1, B2}
  Genesis = G
  Parent <- ForkParent
  Height <- ForkHeight
  ChainOf <- ForkChain
  Txs = {X, Y, Z}
  LTags = {s, t}
  TxLTags <- SpendTags
  Anchor <- SpendAnchor
  Bodies <- SpendBodies
  OverLimit = {B2}
INVARIANTS TypeOK NoDoubleSpend UsedTagsAccounted FailedOnlyInvalid  ReservationsOwned
