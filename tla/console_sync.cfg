SPECIFICATION Spec
CONSTANTS
  CHAIN_PAIRS = 1
  CHAIN_SLOTS = 2
  Effect = {looper, plain}
  MemoryFx = {looper}
  LooperFx = {looper}
  StereoFx = {}
  AvailableFx = {looper, plain}
  Values = {2}
  MEMORY_CLASS_CAP = 4
  LOOPER_CAP = 1
  NumStrips = 2
  Gains = {1, 3}
  InitialGain = 1
  Durations = {2}
  MaxScene = 1
  MaxOps = 4
  MaxQueue = 6
  None = None
  looper = looper
  plain = plain
CHECK_DEADLOCK FALSE
INVARIANTS
  TypeOK
  StoreMirrorsEngine
  SidesStayLinked
