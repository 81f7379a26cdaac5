CONSTANTS
  v1 = v1
  v2 = v2
  gBoot = gBoot
  gDead = gDead
  Erased = Erased
  NoImage = NoImage
  SectorBlocks = 2
  CopyBlocks = 3
  Images <- MCImages
  Garbage <- MCGarbage
  MspValid <- MCMspValid
  FaultKinds = {"reported"}
  MaxFaults = 1
  PowerMayFail = TRUE
  ImageBlocks = 2
SPECIFICATION Spec
INVARIANT ImageRecoverable
