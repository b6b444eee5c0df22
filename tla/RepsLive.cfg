CONSTANTS
  RingSize = 3
  Paths = 2
  Burst = 1
  UseFreezing = TRUE
  TrimDisabled = TRUE
  SoftReplay = TRUE
  NoFilter = FALSE
SPECIFICATION SendingSpec
PROPERTIES FrozenRotation EventuallyThaws
