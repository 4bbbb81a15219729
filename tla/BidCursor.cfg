SPECIFICATION Spec
CONSTANTS
  Ids <- MCIds
  Amounts <- MCAmounts
  Limits <- MCLimits
  Times <- MCTimes
  MaxLimit = 3
INVARIANTS PagesInOrder NothingMissed
CHECK_DEADLOCK FALSE
