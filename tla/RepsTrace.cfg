CONSTANTS
  RingSize = 3
  Paths = 2
  Burst = 2
  UseFreezing = TRUE
  TrimDisabled = FALSE
  SoftReplay = TRUE
  NoFilter = FALSE
SPECIFICATION TracedSpec
INVARIANTS RingSound EpochTracksFreeze OutcomeMatchesDraws ReadingsExact
PROPERTIES PredictorMatchesDraw ImplementsRecycler OnlyKnownAlarms DrawClassMatches
