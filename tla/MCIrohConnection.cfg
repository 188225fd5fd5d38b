SPECIFICATION FairSpec
CONSTANTS
  l1 = l1
  l2 = l2
  r1 = r1
  Calls = {l1, l2, r1}
  Side <- SideOf
  Scenarios <- SomeScenarios
  Codes = {1, 2}
  VarIntMax = 1
  MaxStreams = 1
  SendBuffer = 1
  RecvBuffer = 1
CHECK_DEADLOCK FALSE
INVARIANTS
  TypeOK
  TokenMeansClosed
  ReasonsAgree
  TakenOnce
PROPERTIES
  CallsReturn
