SPECIFICATION FairSpec
CONSTANTS
  f1 = f1 f2 = f2 f3 = f3
  Fetches = {f1, f2, f3}
  MaxConcurrency = 2
  Mappings = 2
  Drivers = {"waits", "abandons"}
CHECK_DEADLOCK FALSE
INVARIANTS QueriesBounded NothingLeftOpen
PROPERTIES EveryFetchAnswered AbortEndsCommand
