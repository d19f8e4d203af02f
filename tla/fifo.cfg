SPECIFICATION Spec
CONSTANTS
  Chan = {0, 1}
  ToneChan = {0}
  Key = {k1, k2}
  Ranges = {{0, 1}}
  BlockSize = 2
  FeedSizes = {2, 5}
  None = None
  MAX_QUEUE_FRAMES = 5
  USIZE_MAX = 99
  DRIFT_WINDOW_BLOCKS = 3
  PLAYOUT_BAND_FRAMES = 1
  SLIP_FRAMES = 1
  SLIP_XFADE = 1
  SLIP_COOLDOWN_BLOCKS = 1
  RECONCILE_CEIL_FRAMES = 4
  FEED_RECENCY_WINDOWS = 1
  ANCHOR_INIT_WINDOWS = 2
  HEALTH_STARVE_MAX = 1
  HEALTH_INSERT_MAX = 1
  HEALTH_SLIP_MAX = 2
  HEALTH_OVERFLOW_MAX_FRAMES = 1
  HEALTH_FAST_STARVE_BLOCKS = 3
  HEALTH_FAST_SLIPS = 2
  HEALTH_FAST_OVERFLOW_FRAMES = 3
  HEALTH_RECOVERY_WINDOWS = 2
  FADE_FULL = 2
  FADE_OUT = 2
  FADE_IN = 1
INVARIANTS
  TypeOK
  DepthBounded
  AnchorSampled
  OnlyMappedStripsGated
PROPERTIES
  LockstepKept
  CleanStreamRecovers
  StoppedSourceDrains
