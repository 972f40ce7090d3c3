SPECIFICATION FairSpec
CONSTANTS
  kSlotCount  = 3
  Sizes       = {"small", "large"}
  MaxFrames   = 4
  MaxFailures = 1
  ImageSizes  = {"small", "large"}
  TileCount   = 3
  MaxPaints   = 3
  MaxLent     = 3
INVARIANTS
  SampledFrameIsWhole
  HandoverNeverBlocks
  ViewIsFresh
  LentFrameIsAlive
PROPERTIES
  EveryPaintReturns
  PublishedFrameIsShown
CHECK_DEADLOCK FALSE
