CONSTANTS
    Nodes = {p1, p2}
    Contents = {c1, c2}
    maxMessagesPerNode = 3
    maxCount = 2
SPECIFICATION Spec
INVARIANT OnlySignedReceived
CHECK_DEADLOCK FALSE
