SPECIFICATION Spec
CONSTANTS
  IdMask = 3
  ConnectTimeout = 1
  ResponseTimeout = 2
  MaxBuffer = 2
  MaxCalls = 4
  MaxWire = 3
  MaxStrays = 1
CHECK_DEADLOCK FALSE
INVARIANT CallInTime
PROPERTIES ImplementsRpc CallEnds
