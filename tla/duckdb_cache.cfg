SPECIFICATION FairSpec
CONSTANTS
  a = a b = b c = c d = d file = file memory = memory
  Calls = {a, b, c, d}
  Isolated = {d}
  Paths = {file, memory}
  PathOf <- MCPathOf
CHECK_DEADLOCK FALSE
INVARIANTS NothingStale NoInstanceLeaks
PROPERTIES CallsSettle
