SPECIFICATION Spec
CONSTANTS
  s1 = s1
  s2 = s2
  s3 = s3
  r1 = r1
  r2 = r2
  SendCalls = {s1, s2}
  RecvCalls = {r1, r2}
  ThreadOf <- OwnThread
  MethodsOf <- AnyMethod
  Lengths = {0, 2}
  Window = 3
  VarIntMax = 3
SYMMETRY CallSymmetry
CHECK_DEADLOCK FALSE
INVARIANTS
  TypeOK
  WritesContiguous
  ReadsContiguous
  EndMeansEverything
  TornWritesHaveACause
PROPERTIES
  ClosesBetweenCalls
