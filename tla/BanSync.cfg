\* Everything at once on one account.
CONSTANTS
  Accounts = {a1}
  Workers = {w1}
  Operators = {o1}
  Capacity = 1
  Window = 2
  Kinds = {"usage", "retry", "expire", "unban", "unbanAbsent", "enable", "disable", "delete", "bulkDelete"}
  Faults = {"fail", "lost", "gone"}
  MaxRev = 2
  MaxNow = 1
SPECIFICATION Spec
INVARIANTS WindowMatchesReason PoolAgrees
PROPERTIES FreshBanSurvives ManualBanStays
