SPECIFICATION LimitedSpec
CONSTANTS
  r1 = r1 r2 = r2 r3 = r3 h1 = h1 p1 = p1 p2 = p2 s1 = s1 s2 = s2 q1 = q1 c1 = c1 c2 = c2
  Requests = {r1, r2, r3}
  Tagged = {r1}
  Plugins = {p1, p2}
  HasCheck = {p1, p2}
  Subs = {s1, s2}
  PluginOf <- MCPluginOf
  Hooks = {h1}
  MaxConcurrent = 2
  MaxAttempts <- MCMaxAttempts
  CustomRetry = {}
  Host = {}
  Queries = {q1}
  Contexts = {c1, c2}
  QueryOf <- MCQueryOf
  ContextOf <- MCContextOf
  MaxPerQuery = 1
  MaxPerContext = 1
  HasLimitHook = TRUE
  Ttl = 0
  MaxTime = 1
  Cleared = {}
  Limiter = p1
CHECK_DEADLOCK FALSE
INVARIANTS LimitBoundsExecution
PROPERTIES ImplementsLimiter
