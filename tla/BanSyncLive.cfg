\* Liveness: calls to CPA may fail any number of times, never for ever.
CONSTANTS
  Accounts = {a1}
  Workers = {w1}
  Operators = {o1}
  Capacity = 1
  Window = 1
  Kinds = {"usage", "retry", "expire"}
  Faults = {"fail"}
  MaxRev = 2
  MaxNow = 1
SPECIFICATION FairSpec
PROPERTIES UnsyncedIsTold ExpiredIsRestored
