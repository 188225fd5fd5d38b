SPECIFICATION Spec
CONSTANTS
  s1 = s1
  s2 = s2
  s3 = s3
  r1 = r1
  r2 = r2
  SendCalls = {s1, s2, s3}
  RecvCalls = {r1}
  ThreadOf <- OwnThread
  MethodsOf <- AnyMethod
  Lengths = {2}
  Window = 2
  VarIntMax = 3
SYMMETRY CallSymmetry
CHECK_DEADLOCK FALSE
INVARIANTS
  StoppedNoneMeansDelivered
PROPERTIES
  Serializes
  AcknowledgedIsReadable
