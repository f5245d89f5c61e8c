SPECIFICATION FairSpec
CONSTANTS
  p1 = p1
  p2 = p2
  Probes <- TwoProbes
  Disabled <- OneDisabled
  Capacity = 1
  Answers <- SomeAnswers
INVARIANTS ActionIsProved NoCallAfterUnload BansAgreeWithVerdicts 
PROPERTIES ProofStands WorkersComeBack ShutdownEnds
CHECK_DEADLOCK FALSE
