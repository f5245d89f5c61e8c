SPECIFICATION FairSpec
CONSTANTS
  old = old
  new = new
  legacy = legacy
  g1 = g1
  g2 = g2
  Paths <- TwoPaths
  Legacy = legacy
  Routines <- OneRoutine
  MaxRev = 1
INVARIANTS  AcceptedConfigIsUsed
 
CHECK_DEADLOCK FALSE
