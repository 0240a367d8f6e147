SPECIFICATION FairSpec
CONSTANTS
  MaxUp = 3
  MaxDown = 2
  MaxFail = 1
  Samples = 2
INVARIANTS
  TypeOK
  SnapshotConsistent
  InfoNeverWaits
  RestartCompletes
PROPERTIES
  NoStaleSocketWhenUp
  SuspendedAreResumed
  NetworkUpStartsSensor
CHECK_DEADLOCK FALSE
