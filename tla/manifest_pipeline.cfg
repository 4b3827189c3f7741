SPECIFICATION FairSpec
CONSTANTS
  r1 = r1 r2 = r2 h1 = h1 h2 = h2 d1 = d1 d2 = d2
  Calls = {r1, r2}
  Tagged = {r1}
  Hooks <- MCHooks
  CodeOf <- MCCodeOf
  Dicts = {d1, d2}
  Sharings <- MCSharings
  Own = {d1}
  Optional = TRUE
  MayLack = {r2}
  Limits = {1, 2}
  MaxFaults = 2
  MayUnregister = {h1}
CHECK_DEADLOCK FALSE
INVARIANTS InitEndPair LimitHolds EveryHookAllows OwnContext CommandsHaveConnection
PROPERTIES EveryCallEnds
