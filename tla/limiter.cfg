SPECIFICATION Spec
CONSTANTS
  r1 = r1 r2 = r2 r3 = r3 r4 = r4 r5 = r5 q1 = q1 q2 = q2 c1 = c1 c2 = c2
  Requests = {r1, r2, r3, r4, r5}
  Queries = {q1, q2}
  Contexts = {c1, c2}
  QueryOf <- MCQueryOf
  ContextOf <- MCContextOf
  MaxPerQuery = 2
  MaxPerContext = 1
  HasLimitHook = TRUE
  Ttl = 1
  MaxTime = 2
  Cleared = {c2}
CHECK_DEADLOCK FALSE
INVARIANTS LimitsHold
