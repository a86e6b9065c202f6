SPECIFICATION Spec
CONSTANTS
  Capacity = 2
  Period = 3
  Times = {0, 1, 2, 3, 4, 5, 6, 7, 8}
INVARIANTS TypeOK RateHolds
PROPERTY AskingIsFree
CHECK_DEADLOCK FALSE
