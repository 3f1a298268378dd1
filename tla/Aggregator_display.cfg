SPECIFICATION Spec
CONSTANTS
  S1 = S1
  S2 = S2
  NoRef = NoRef
  R1 = R1
  R2 = R2
  Absent = Absent
  Session <- TwoSessions
  Ref <- NoAndOneRef
  Invocation <- TwoLives
  SuccessHold = 2
  TransientError = 1
  StaleSession = 3
  FutureTolerance = 1
  DedupCapacity = 3
  MaxTime = 3
  MaxInFlight = 2
PROPERTIES NewerEventIsApplied DisplayRisesOnlyOnEvent
