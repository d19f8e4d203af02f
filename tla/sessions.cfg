SPECIFICATION Spec
CONSTANTS
  MaxSession = 2
  Pid = {p1, p2}
  ChannelCounts = {2}
  Relaying = {1}
  MAX_MIXER_CHANNELS = 5
  MaxDirect = 1
  MaxCtl = 1
  None = None
CHECK_DEADLOCK FALSE
INVARIANTS
  TypeOK
  StreamsDontMix
  StoreAgrees
PROPERTIES
  LiveSessionsKeepStrips
  TeardownForgets
  OwnsStrips
