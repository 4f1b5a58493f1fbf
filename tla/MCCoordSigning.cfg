SPECIFICATION Spec
CONSTANTS
  d1 = d1
  d2 = d2
  one = one
  two = two
  Devices = {d1, d2}
  Streams = {1, 2, 3}
  Tasks = {one, two}
  TaskSigs <- Sigs
  Threshold = 1
  StreamIndexMax = 2
  MaxLen = 2
  FirstIndices = {0, 1}
  MaxSessions = 2
  MaxFinished = 1
CHECK_DEADLOCK FALSE
INVARIANTS
  ActiveNoncesDisjoint
  AskedDevicesHoldShares
  ExtendIsUnion
  TakenIsPrefix
PROPERTIES
  ClosedNoncesGone
