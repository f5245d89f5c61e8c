\* Two runs of any kind, the first possibly stopped and still at work; one of
\* the two accounts is disabled.
CONSTANTS
  Accounts = {a1, a2}
  Unindexed = {}
  Disabled = {a2}
  Slots = {r1, r2}
  Workers = 2
  Modes = {"full", "incremental", "other", "sampleOther"}
  MaxRunID = 3
  MaxVersion = 1
SPECIFICATION Spec
INVARIANTS OneRowPerIndex OutcomeIsOwn
PROPERTIES StaleRunsAreSilent FinishIsComplete 
SYMMETRY SlotSymmetry
