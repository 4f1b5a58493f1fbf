SPECIFICATION FairSpec
CONSTANTS
  a = a
  b = b
  Free = Free
  Workers = {a, b}
  Calls <- Ordered
  Iterations = {"usual"}
INVARIANTS
  NoCircularWait
PROPERTIES
  CallsReturn
