SPECIFICATION FairSpec
CONSTANTS
  one = one
  two = two
  dev = dev
  None = None
  Devices = {dev}
  Streams = {1, 2, 3}
  Tasks = {one, two}
  TaskSigs <- Sigs
  Threshold = 1
  StreamIndexMax = 20
  NSlots = 3
  BatchSize = 2
  MinStreams = 2
  CancelReplenish = FALSE
  MaxEvents = 6
  MaxActive = 2
  MaxUses = 20
CHECK_DEADLOCK FALSE
INVARIANTS
  CacheNotBehind
  SharesVerify
  SessionsRestorable
  DeviceNeverPanics
  CoordinatorNeverCrashes
PROPERTIES
  SigningEnds
