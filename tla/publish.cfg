SPECIFICATION Spec
CONSTANTS
  Counts = {2, 16}
  BATCH = 2
  MaxWorker = 3
  MaxBlocks = 6
  MaxCtl = 2
  None = None
INVARIANTS TypeOK TapServesSession WidthsAgree StatusTellsTheTruth
PROPERTIES TimelineGapless SessionEnds
