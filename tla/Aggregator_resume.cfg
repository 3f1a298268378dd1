SPECIFICATION Spec
CONSTANTS
  S1 = S1
  S2 = S2
  NoRef = NoRef
  R1 = R1
  R2 = R2
  Absent = Absent
  Session <- OneSession
  Ref <- NoAndOneRef
  Invocation <- Resumable
  SuccessHold = 3
  TransientError = 1
  StaleSession = 3
  FutureTolerance = 1
  DedupCapacity = 8
  MaxTime = 2
  MaxInFlight = 1
PROPERTIES EndRemovesRecord
