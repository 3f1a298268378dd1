SPECIFICATION Spec
CONSTANTS
  None = None
  Aggregates <- IdleAgain
  Overrides <- OneOverride
  Durations <- ShortDuration
  DemoStates <- OneSecondDemo
  DemoStep = 1
  HeartbeatInterval = 2
  RetryDelay = 2
  OfflineTimeout = 6
  Bars <- BothFirmwares
  MaxDisturbances = 3
  MaxCalm = 12
INVARIANTS BeliefIsRechecked HealsInTime NoFalseOffline
PROPERTIES RetriesAreSpaced StopIsHonoured
