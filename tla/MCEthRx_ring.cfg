CONSTANTS
  RxDescs = 3
  PoolSize = 3
  MboxSize = 2
  MsgSlots = 2
  MaxFrames = 6
  Prioritised = FALSE
SPECIFICATION FairSpec
INVARIANT TypeOK
INVARIANT EachFrameOnceInOrder
INVARIANT RingAgrees
INVARIANT PbufsAccounted
INVARIANT NoLostWakeup
PROPERTY EngineResumes
PROPERTY FrameTaken
CHECK_DEADLOCK FALSE
