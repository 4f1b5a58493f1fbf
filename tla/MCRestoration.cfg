SPECIFICATION Spec
CONSTANTS
  d1 = d1
  d2 = d2
  k1 = k1
  None = None
  Devices = {d1, d2}
  Keys = {k1}
  Threshold <- TwoOfTwo
  Papers <- SinglePaper
  Holds <- OneHolds
  Guesses = {None}
  MaxInbox = 2
  MaxDraws = 1
  MaxPages = 2
  MaxFaults = 2
CHECK_DEADLOCK FALSE
INVARIANTS
  SharesAreBacked
  PanicsOnlyWhenDisturbed
  CallsAreAnswered
  PendingIsWorkedOn
