SPECIFICATION Spec
CONSTANTS
  None = None
  Aggregates <- Busy
  Overrides <- Nothing
  Durations <- ShortDuration
  DemoStates <- OneSecondDemo
  DemoStep = 1
  HeartbeatInterval = 2
  RetryDelay = 2
  OfflineTimeout = 6
  Bars <- BarFirmware
  MaxDisturbances = 1
  MaxCalm = 4
PROPERTIES StopRequestEndsProcess
