SPECIFICATION Spec
CONSTANTS
  short = short
  long = long
  other = other
  None = None
  Items = {short, long, other}
  Words <- WordsOf
  BufWords = 2
  Capacity = 16
  MaxPushes = 2
CHECK_DEADLOCK FALSE
INVARIANTS
  LogAlwaysReads
