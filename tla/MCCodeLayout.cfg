CONSTANTS
  a = a
  b = b
  Programs <- AllCodes
  Reach = 7
  MaxRounds = 8
SPECIFICATION Spec
INVARIANTS SettledLayoutIsReal
CHECK_DEADLOCK FALSE
