SPECIFICATION Spec
CONSTANTS
  d1 = d1
  d2 = d2
  a1 = a1
  a2 = a2
  Dials = {d1}
  Accepts = {a1}
  Alpns = {chat}
  NoConn = NoConn
  MethodsOf <- AnyMethod
CHECK_DEADLOCK FALSE
PROPERTIES
  ClosedMeansNone
