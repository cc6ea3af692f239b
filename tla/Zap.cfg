\* Transactions of an operator with two accounts and three units of fees.
CONSTANTS
  Owed = 3
  Own = 2
  MaxSteps = 4
SPECIFICATION ZapSpec
INVARIANT FeesReachTreasury
CHECK_DEADLOCK FALSE
