SPECIFICATION WriteSpec
CONSTANTS
  Values = {old, new}
  Absent = Absent
  NChunks <- OneChunk
  IndexMax = 5
INVARIANTS
  StateNeverLost
PROPERTIES
  IndexNeverFallsBack
  RefinesAtomicRegister
