SPECIFICATION Spec
CONSTANTS
  Accounts = {1, 2}
  Values = {1, 2, 3, 4}
  Pool = {1, 2, 3, 4}
  Identities <- AllIdentities
INVARIANTS NeverGuesses 
 
CHECK_DEADLOCK FALSE
