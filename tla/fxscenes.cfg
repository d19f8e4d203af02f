SPECIFICATION SSpec
CONSTANTS
  CHAIN_PAIRS = 2
  CHAIN_SLOTS = 2
  Effect = {delay, looper}
  MemoryFx = {delay, looper}
  LooperFx = {looper}
  StereoFx = {delay}
  AvailableFx = {delay, looper}
  Values = {2}
  MEMORY_CLASS_CAP = 2
  LOOPER_CAP = 1
  None = None
  MaxScene = 1
INVARIANTS
  TypeOK
  BudgetsExact
  DspReadsOwnSlot
  RenderNeverActivates
PROPERTY
  RecallRestoresWithHeadroom
