SPECIFICATION FairSpec
CONSTANTS
  FrameSizes = {3, 5}
  HEADER = 2
  FRAME_MAX = 4
  SNDBUF = 3
  MaxFrames = 4
INVARIANTS TypeOK StreamSound
PROPERTIES ImplementsChannel EveryFrameRead
CHECK_DEADLOCK FALSE
