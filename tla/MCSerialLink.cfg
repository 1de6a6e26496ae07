CONSTANTS
  MaxRun = 4
  OutBufSize = 6
  UserId = 3
  DebugId = 2
  UserData <- MCUserData
  DebugData <- MCDebugData
  MaxWrites <- MCMaxWrites
  MaxTyped = 2
SPECIFICATION Spec
CHECK_DEADLOCK FALSE
INVARIANTS
  TypeOK
  StreamsAreKeptApart
  InputIsWhole
PROPERTIES
  EverythingArrives
