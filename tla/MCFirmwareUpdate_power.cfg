CONSTANTS
  v1 = v1
  v2 = v2
  gBoot = gBoot
  Erased = Erased
  NoImage = NoImage
  SectorBlocks = 2
  CopyBlocks = 3
  Images <- MCImages
  Garbage <- MCGarbage
  MspValid <- MCMspValid
  FaultKinds = {}
  MaxFaults = 0
  PowerMayFail = TRUE
  ImageBlocks = 2
  HostRestarts = FALSE
  MaxDrops = 1
SPECIFICATION FairSystemSpec
INVARIANT SystemTypeOK
INVARIANT RunsInstalledImage
INVARIANT ImageRecoverable
PROPERTY KeepsPromise
PROPERTY AnsweredIsRun
