SPECIFICATION Spec
CONSTANTS
  SensorTask = SensorTask
  IpTask = IpTask
  NoTask = NoTask
  MaxLen = 5
  MaxMutex = 4
  Sources <- AllSources
  IIC0 <- IIC
  NetSources <- Network
INVARIANTS
  TypeOK
  NoNullHandler
  EnabledAreHandled
PROPERTIES
  ImplementsIic
