CONSTANTS
  d1 = d1
  d2 = d2
  Chain <- MCChain
  Chunks = 2
  MaxUpgrades = 2
  MaxFaults = 1
SPECIFICATION FairSpec
CHECK_DEADLOCK FALSE
INVARIANTS
  AlwaysBootable
  BootloaderAgrees
  EnteredOnlyWhenReady
  ChunksOnlyWhenReady
PROPERTIES
  UpgradeCompletes
