SPECIFICATION FairSpec
CONSTANTS
  c1 = c1  c2 = c2  a = a  b = b
  Clients = {c1, c2}
  Files = {a, b}
  FileOf <- MCFileOf
  Size <- MCSize
  Listen = Listen
  Ports = {p1}
  NoClient = NoClient
  NoPort = NoPort
  USHRT_MAX = 65535
  MaxRetries = 1
  MaxNet = 2
  Traffic = {"loader"}
  RUNS = 2
  DISCARD_RUNS = 1
  LogSize = 2
INVARIANTS
  TypeOK
  FilesSound
PROPERTIES
  ServersServe
  BenchmarkEnds
CHECK_DEADLOCK FALSE
