CONSTANTS
  v1 = v1
  v2 = v2
  gBoot = gBoot
  gDead = gDead
  Erased = Erased
  NoImage = NoImage
  SectorBlocks = 2
  CopyBlocks = 3
  Images <- MCImages
  Garbage <- MCGarbage
  MspValid <- MCMspValid
  FaultKinds = {}
  MaxFaults = 0
  PowerMayFail = TRUE
  ImageBlocks = 3
SPECIFICATION FairSpec
INVARIANT TypeOK
INVARIANT BootInv
INVARIANT RunsInstalledImage
INVARIANT ImageRecoverable
PROPERTY ImplementsDevice
PROPERTY InstallCompletes
