SPECIFICATION FairSpec
CONSTANTS
  g1 = g1
  g2 = g2
  g3 = g3
  Goroutines <- TwoGoroutines
  DeleteBatch = 2
  Workers = 2
  MaxItems = 2
  MaxJobs = 2
INVARIANTS OneJobAtATime ProgressAddsUp
PROPERTIES StoppedIsFrozen EverythingEnds ImplementsJobGate
CHECK_DEADLOCK FALSE
