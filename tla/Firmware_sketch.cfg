SPECIFICATION Spec
CONSTANTS
  None = None
  Wrap = 5
  Publishes <- TwoStates
  Brightnesses <- OneLevel
  Quotas <- Blinking
  Steps <- OneOrTwo
  Thinking = 1
  FadeIn = 3
  FadeOut = 2
  IdleFade = 2
  IdleFadeInterval = 1
  IdleStatic = 3
  BlinkInterval = 2
  DefaultInterval = 2
  DefaultTimeout = 2
  DefaultBrightness = 5
  MaxSilence = 3
INVARIANTS CrossfadeIsBounded UpdateIsDrawn
PROPERTIES DisplayTellsTheTruth
