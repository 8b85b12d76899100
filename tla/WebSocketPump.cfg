SPECIFICATION FairSpec
CONSTANTS
  None = None
  Frames <- SampleFrames
  MaxFrames = 3  MaxOutput = 2
  Limit = 2  ControlMax = 3
  Buffer = 0  HighWater = 1  Budget = 2
CHECK_DEADLOCK FALSE
INVARIANTS InputIsFaithful OutputIsFaithful NoSleepOnWork
PROPERTIES ConnectionEnds
