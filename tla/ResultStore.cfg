SPECIFICATION FairSpec
CONSTANTS
  c1 = c1
  c2 = c2
  c3 = c3
  Callers <- ThreeCallers
  MaxSeq = 4
INVARIANT NoErrorMeansSaved
PROPERTIES EverySaveReturns 
CHECK_DEADLOCK FALSE
