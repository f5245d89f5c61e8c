\* One state file and a pool that is never empty; every write may fail.
CONSTANTS
  Callers = {c1, c2, c3}
  Paths = {bans}
  EmptyVersions = {}
  MaxContent = 2
  MaxGen = 3
SPECIFICATION FairSpec
PROPERTIES EveryCallReturns 
CHECK_DEADLOCK FALSE
