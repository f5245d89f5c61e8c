\* Runs that append, on a file without an auth_index that is rewritten, and the
\* end of every run and of the shutdown.
CONSTANTS
  Accounts = {a1}
  Unindexed = {a1}
  Disabled = {}
  Slots = {r1, r2}
  Workers = 1
  Modes = {"full", "incremental"}
  MaxRunID = 3
  MaxVersion = 2
SPECIFICATION FairSpec
PROPERTIES TargetsAreMarked RunEnds ShutdownEnds
