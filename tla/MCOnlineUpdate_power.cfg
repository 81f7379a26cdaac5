CONSTANTS
  v1 = v1
  v2 = v2
  gBoot = gBoot
  gDead = gDead
  Erased = Erased
  SectorBlocks = 2
  CopyBlocks = 3
  Images <- MCImages
  Garbage <- MCGarbage
  MspValid <- MCMspValid
  FaultKinds = {}
  MaxFaults = 0
  PowerMayFail = TRUE
  ImageBlocks = 3
  HostRestarts = FALSE
  MaxDrops = 1
SPECIFICATION FairUpdateSpec
INVARIANT UpdateTypeOK
INVARIANT FlagMeansUpdate
INVARIANT AnsweredIsWritten
PROPERTY StaysInUpdateArea
PROPERTY TransferCompletes
PROPERTY AnsweredIsInstalled
