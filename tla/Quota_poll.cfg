SPECIFICATION Spec
CONSTANTS
  SpawnTicks = 1
  GetTimeout = 1
  ResponseTimeout = 2
  KillWait = 2
  JoinTimeout = 4
  Refresh = 4
  RetryLimit = 2
  StaleAfter = 8
  QueueSize = 1
  None = None
  MaxSessions = 2
  PipeSize = 1
  LinesPerTick = 1
INVARIANTS NothingOutlivesClose AtMostOneChild StaleOnlyAfterError
PROPERTIES StoredAnswerIsCurrent NoEndlessWait ReaderEndsUnlessFull
CHECK_DEADLOCK FALSE
