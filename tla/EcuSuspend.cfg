SPECIFICATION Spec
CONSTANTS
  MaxUp = 1
  MaxDown = 1
  MaxFail = 0
  Samples = 2
INVARIANT
  SuspendsOnlySocketUsers
CHECK_DEADLOCK FALSE
