SPECIFICATION FairSpec
CONSTANTS
  d1 = d1
  d2 = d2
  None = None
  Devices = {d1, d2}
  KeygenIds = {1, 2}
  MemberSets <- Some
  MaxInbox = 2
  MaxEvents = 1
CHECK_DEADLOCK FALSE
INVARIANTS
  NoOrphanShare
  EveryoneConfirmed
  CancelIsSafe
  FinalizeArrives
PROPERTIES
  KeygenCompletes
