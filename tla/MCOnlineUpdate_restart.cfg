CONSTANTS
  v1 = v1
  v2 = v2
  gBoot = gBoot
  gDead = gDead
  Erased = Erased
  SectorBlocks = 2
  CopyBlocks = 3
  Images <- MCImages
  Garbage <- MCGarbage
  MspValid <- MCMspValid
  FaultKinds = {}
  MaxFaults = 0
  PowerMayFail = FALSE
  ImageBlocks = 2
  HostRestarts = TRUE
  MaxDrops = 1
SPECIFICATION UpdateSpec
INVARIANT FlagMeansUpdate
