SPECIFICATION FairSpec
CONSTANTS
  MaxUp = 2
  MaxDown = 2
  MaxFail = 0
  Samples = 2
PROPERTY
  ResumedAfterRecreation
CHECK_DEADLOCK FALSE
