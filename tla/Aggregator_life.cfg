SPECIFICATION Spec
CONSTANTS
  S1 = S1
  S2 = S2
  NoRef = NoRef
  R1 = R1
  R2 = R2
  Absent = Absent
  Session <- OneSession
  Ref <- NoAndOneRef
  Invocation <- OneLife
  SuccessHold = 2
  TransientError = 1
  StaleSession = 3
  FutureTolerance = 1
  DedupCapacity = 2
  MaxTime = 4
  MaxInFlight = 2
INVARIANTS TypeOK NewestIsGuarded LeaseAgreesWithSession
PROPERTIES NoResurrection KeyForgottenOnlyWhenOldOrFull ImplementsLedger TimersRunOut
