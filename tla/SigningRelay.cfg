CONSTANTS
  a = a
  b = b
  c = c
  x = x
  q1 = q1
  Nodes = {a, b, c}
  Faulty = {}
  Quorums = {q1}
  Members <- RelayMembers
  Threshold = 2
  Ids = {id1}
  MsgHashes = {m1, m2}
  None = None
  MaxPending = 2
  MaxDisruptions = 1
SPECIFICATION FairSpec
INVARIANTS TypeOK Agreement
 
CHECK_DEADLOCK FALSE
