SPECIFICATION MortalSpec
CONSTANTS
  s1 = s1
  s2 = s2
  s3 = s3
  r1 = r1
  r2 = r2
  SendCalls = {s1}
  RecvCalls = {r1, r2}
  ThreadOf <- OneThread
  MethodsOf <- AnyMethod
  Lengths = {1}
  Window = 1
  VarIntMax = 3
CHECK_DEADLOCK FALSE
PROPERTIES
  AbortsTakeEffect
