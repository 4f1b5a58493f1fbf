SPECIFICATION Spec
CONSTANTS
  s1 = s1
  s2 = s2
  None = None
  Streams = {x, y, z}
  Sessions = {s1, s2}
  NSigs <- SigsOf
  Tearable = {s2}
  NSlots = 2
  BatchSize = 1
  IndexMax = 4
  MaxOpen = 1
  MaxUses = 4
  MaxSeeds = 3
SYMMETRY StreamSymmetry
INVARIANTS
  NoNonceReuse
  LastUsedDistinct
