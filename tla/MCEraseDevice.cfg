SPECIFICATION FairEraseSpec
CONSTANTS
  NSectors = 4
  MaxEvents = 5
INVARIANTS
  NoForeignData
  RemovedMeansBegun
PROPERTIES
  EraseCompletes
