SPECIFICATION FairSpec
CONSTANTS
  t1 = t1
  t2 = t2
  Tasks <- Two
  Resetters <- Nobody
  NoTask = NoTask
  MaxLen = 1
  MaxMutex = 1
INVARIANTS
  TypeOK
  MutualExclusion
  CompletionGoesToStarter
  NoFault
  HonestUnlessLate
PROPERTIES
  ErrorNeverReportedAsSuccess
  CallReturns
