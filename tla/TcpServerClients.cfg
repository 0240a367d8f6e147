SPECIFICATION FairSpec
CONSTANTS
  h1 = h1
  f1 = f1
  f2 = f2
  HttpConn <- Http1
  FtpConn <- Ftp2
  NULL = NULL
  Anchor = Anchor
  MaxReq = 1
INVARIANTS
  TypeOK
  ListSound
  WatchesOpenSockets
  FtpConnectionsOwned
PROPERTIES
  ImplementsRounds
  RequestsAreRead
  FtpConnectionsEnd
