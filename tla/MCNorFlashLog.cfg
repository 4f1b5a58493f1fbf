SPECIFICATION Spec
CONSTANTS
  short = short
  long = long
  other = other
  None = None
  Items = {short, long, other}
  Words <- WordsOf
  BufWords = 2
  Capacity = 12
  MaxPushes = 5
CHECK_DEADLOCK FALSE
INVARIANTS
  PushAtomic
  BootFindsEnd
