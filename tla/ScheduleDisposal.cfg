SPECIFICATION Spec
CONSTANTS
  a1 = a1
  a2 = a2
  NoRow = NoRow
  Accounts <- TwoAccounts
  Settings <- OnSettings
  Updates <- NoSettings
  Stages <- SomeStages
  Classes <- SomeClasses
  MaxOthers = 1
  MaxCrashes = 0

PROPERTY NeverOnOldRows
SYMMETRY Symmetry
CHECK_DEADLOCK FALSE
