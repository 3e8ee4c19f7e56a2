CONSTANTS
  a = a
  b = b
  c = c
  Item = {a, b, c}
  Unusable = {c}
  Starts <- MCStarts
  Shapes <- MCShapes
  Limit = 2
  Retries = 2
  MaxRuns = 2
  MaxChanges = 2
  MaxFaults = 2
  MaxBlanks = 1
SPECIFICATION PagingSpec
INVARIANTS PagingTypeOK LossBounded
PROPERTIES IndexFaithful Ends
CHECK_DEADLOCK FALSE
