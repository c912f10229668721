SPECIFICATION FairSpec
CONSTANTS
  G = G  A1 = A1  A2 = A2  B1 = B1  B2 = B2  None = None
  Blocks = {G, A1, A2, B1, B2}
  Genesis = G
  Parent <- ForkParent
  Height <- ForkHeight
  ChainOf <- ForkChain
  Signed = {A1, A2}
  EnabledAt = {G, A1, A2, B2}
  DIP0008Height = 1
  EnforcedBySpork = FALSE
INVARIANTS TypeOK HeaderNeverMissed EnforcesOnlySigned  ScheduledTaskExists ProcessedOnce
 
CHECK_DEADLOCK FALSE
