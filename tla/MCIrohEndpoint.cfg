SPECIFICATION FairSpec
CONSTANTS
  d1 = d1
  d2 = d2
  a1 = a1
  a2 = a2
  Dials = {d1, d2}
  Accepts = {a1, a2}
  Alpns = {chat}
  NoConn = NoConn
  MethodsOf <- OneOfEach
CHECK_DEADLOCK FALSE
INVARIANTS
  TypeOK
  ExclusiveDelivery
  NoOrphans
  HandlesKeepAlive
PROPERTIES
  DialsReturn
  ShutdownReleasesAccepts
