CONSTANTS
  a = a
  b = b
  c = c
  x = x
  q1 = q1
  Nodes = {a, b, x}
  Faulty = {x}
  Quorums = {q1}
  Members <- ByzantineMembers
  Threshold = 2
  Ids = {id1}
  MsgHashes = {m1, m2}
  None = None
  MaxPending = 1
  MaxDisruptions = 1
SPECIFICATION Spec
SYMMETRY ByzantineSymmetry
INVARIANTS RecoveredSigBacked SignsOncePerId HonestNeverBanned NoStuckSession
 
CHECK_DEADLOCK FALSE
