SPECIFICATION FairSpec
CONSTANTS
  a1 = a1
  a2 = a2
  NoRow = NoRow
  Accounts <- OneAccount
  Settings <- TurnedOnOrOff
  Updates <- TurnedOnOrOff
  Stages <- OneStage
  Classes <- OneClass
  MaxOthers = 0
  MaxCrashes = 1
 
PROPERTIES ScheduleLives
CHECK_DEADLOCK FALSE
