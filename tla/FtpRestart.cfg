SPECIFICATION Spec
CONSTANTS
  MaxSock = 2
  FileSize = 2
  MaxSend = 2
  Disk = 3
  Window = 2
CHECK_DEADLOCK FALSE
INVARIANTS
  RestartDelivers
