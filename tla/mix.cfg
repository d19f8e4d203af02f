SPECIFICATION MixSpec
CONSTANTS
  NumInputs = 2
  NumBuses = 1
  BUS_SLOTS = 1
  Gains = {0, 6}
  InitialGain = 6
  Durations = {3}
  MaxScene = 1
  MaxOps = 4
  TapWidths = {0, 3}
  None = None
CHECK_DEADLOCK FALSE
INVARIANTS
  MixTypeOK
  MuteDerived
  FadeSkipsSoundly
PROPERTY
  RecallLands
  RecallCreatesNothing
  MutedReach
