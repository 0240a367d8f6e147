SPECIFICATION FairSpec
CONSTANTS
  MaxSock = 2
  FileSize = 2
  MaxSend = 2
  Disk = 2
  Window = 1
CHECK_DEADLOCK FALSE
INVARIANTS
  TypeOK
  FilesOwned
  StoredIsSent
  RetrievedWhole
  SocketsOwned
PROPERTIES
  StoreEnds
  RetrieveEnds
