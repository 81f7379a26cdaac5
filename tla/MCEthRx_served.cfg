CONSTANTS
  RxDescs = 2
  PoolSize = 2
  MboxSize = 2
  MsgSlots = 2
  MaxFrames = 5
  Prioritised = TRUE
SPECIFICATION FairSpec
PROPERTY FramesServed
CHECK_DEADLOCK FALSE
